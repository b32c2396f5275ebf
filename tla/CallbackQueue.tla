---------------------------- MODULE CallbackQueue -----------------------------
(***************************************************************************)
(* The way in which the gstreamer, phidget and avahi bindings bring an     *)
(* event from a thread of the C library, which may not run Bigloo code, to *)
(* a procedure of the program: the C thread stores a callback in a growing *)
(* array under a mutex and signals a condition variable, and one Bigloo    *)
(* thread, the service thread, waits on it and calls the procedures.       *)
(* Gstreamer and phidget call them with the mutex held (gstreamer.scm,     *)
(* pdgevent.scm); avahi takes a copy of the array first (bglavahi.c).      *)
(***************************************************************************)
EXTENDS Naturals, Sequences, SequencesExt, FiniteSets

CONSTANTS
  Foreign,     \* threads of the C libraries
  Service,     \* the Bigloo thread that calls the procedures
  Nobody,
  FirstLength, \* INITIAL_MAX_CALLBACK
  MaxEvents    \* bound: events of the library

VARIABLES
  lib,         \* the library of this behaviour
  mutex,       \* who holds the mutex of the library
  callbacks,   \* callbacks[0 .. callback_index - 1]
  length,      \* callback_length
  service,     \* the service thread: where it is, its copy, the call in progress
  emitter,     \* the callback that each foreign thread is about to register: its number, its data
  events,      \* the number of events so far, which numbers the callbacks
  got,         \* the callbacks whose procedure was called
  dropped      \* auxiliary: the callbacks that no procedure will hear of

queueVars == <<lib, mutex, callbacks, length, service, emitter, events, got, dropped>>

Idle == [n |-> 0]

Numbers(s) == {s[i].n : i \in DOMAIN s}

InitQueue ==
  /\ mutex = Nobody /\ callbacks = <<>>
  /\ length = IF lib = "avahi" THEN 0 ELSE FirstLength
  /\ service = [at |-> "new", index |-> 0, batch |-> <<>>, call |-> Idle]
  /\ emitter = [f \in Foreign |-> Idle] /\ events = 0 /\ got = <<>> /\ dropped = {}

(* Mutant: an array that is not full is enlarged too late.                 *)
EnlargeLate(n) == IF n > length THEN 2 * length ELSE length

(* The array is doubled when it is full; avahi allocates it at first use.  *)
Enlarged(n) == IF n < length THEN length ELSE IF length = 0 THEN FirstLength ELSE 2 * length

Signalled == IF service.at = "waiting" THEN [service EXCEPT !.at = "woken"] ELSE service

(* A foreign thread has an event.  The callback is built before the lock.  *)
Emit(f, cb) ==
  /\ events < MaxEvents /\ emitter[f] = Idle
  /\ events' = events + 1
  /\ emitter' = [emitter EXCEPT ![f] = [n |-> events + 1, data |-> cb]]
  /\ UNCHANGED <<lib, mutex, callbacks, length, service, got, dropped>>

(* What the registration does under the mutex.                             *)
Stored(cb) ==
  /\ length' = Enlarged(Len(callbacks))
  /\ callbacks' = Append(callbacks, cb)
  /\ service' = Signalled

Register(f) ==
  /\ emitter[f] # Idle /\ mutex = Nobody
  /\ Stored(emitter[f])
  /\ emitter' = [emitter EXCEPT ![f] = Idle]
  /\ UNCHANGED <<lib, mutex, events, got, dropped>>

(* A procedure that the service thread calls has an event of its own, and  *)
(* the mutex is recursive.                                                 *)
Nested(cb) ==
  /\ events < MaxEvents /\ service.at = "calling" /\ mutex \in {Nobody, Service}
  /\ Stored([n |-> events + 1, data |-> cb])
  /\ events' = events + 1
  /\ UNCHANGED <<lib, mutex, emitter, got, dropped>>

-----------------------------------------------------------------------------
(* The body of the service thread.  Nothing looks at the array before the  *)
(* first wait.                                                             *)
Wait ==
  /\ service.at = "new" /\ mutex = Nobody
  /\ service' = [service EXCEPT !.at = "waiting"]
  /\ UNCHANGED <<lib, mutex, callbacks, length, emitter, events, got, dropped>>

SpuriousWakeup ==
  /\ service.at = "waiting"
  /\ service' = [service EXCEPT !.at = "woken"]
  /\ UNCHANGED <<lib, mutex, callbacks, length, emitter, events, got, dropped>>

(* The wait returns with the mutex, which avahi releases at once.          *)
Woken ==
  /\ service.at = "woken" /\ mutex = Nobody
  /\ IF lib = "avahi" THEN service' = [service EXCEPT !.at = "unlocked"] /\ UNCHANGED mutex
     ELSE service' = [service EXCEPT !.at = "invoking"] /\ mutex' = Service
  /\ UNCHANGED <<lib, callbacks, length, emitter, events, got, dropped>>

Calling(cb) == [service EXCEPT !.at = "calling", !.call = cb]

(* bgl_gst_invoke_callbacks and bgl_phidget_invoke_callbacks, which take   *)
(* the last callback first, until the array is empty.                      *)
InvokeLast ==
  /\ lib # "avahi" /\ service.at = "invoking" /\ callbacks # <<>>
  /\ service' = Calling(Last(callbacks)) /\ callbacks' = Front(callbacks)
  /\ UNCHANGED <<lib, mutex, length, emitter, events, got, dropped>>

(* Mutant: an if in the place of the while.                                *)
InvokeEndEarly ==
  /\ lib # "avahi" /\ service.at = "invoking"
  /\ service' = [service EXCEPT !.at = "waiting"] /\ mutex' = Nobody
  /\ UNCHANGED <<lib, callbacks, length, emitter, events, got, dropped>>

InvokeEnd ==
  /\ lib # "avahi" /\ service.at = "invoking" /\ callbacks = <<>>
  /\ service' = [service EXCEPT !.at = "waiting"] /\ mutex' = Nobody
  /\ UNCHANGED <<lib, callbacks, length, emitter, events, got, dropped>>

(* The procedure returns.                                                  *)
Return(heard) ==
  /\ service.at = "calling"
  /\ service' = [service EXCEPT !.at = "invoking", !.call = Idle]
  /\ got' = Append(got, heard)
  /\ UNCHANGED <<lib, mutex, callbacks, length, emitter, events, dropped>>

(* The call raises: the thread ends, synchronize gives the mutex back, and *)
(* what was taken from the array is gone.                                  *)
Raise ==
  /\ service.at = "calling"
  /\ service' = [service EXCEPT !.at = "dead", !.batch = <<>>, !.call = Idle]
  /\ mutex' = IF mutex = Service THEN Nobody ELSE mutex
  /\ dropped' = dropped \cup {service.call.n} \cup Numbers(service.batch)
  /\ UNCHANGED <<lib, callbacks, length, emitter, events, got>>

-----------------------------------------------------------------------------
Pending == {emitter[f].n : f \in Foreign} \ {0}

(* The places of an event, from the foreign thread to the procedure.       *)
Places == <<Pending, Numbers(callbacks), Numbers(service.batch), {service.call.n} \ {0},
            Numbers(got), dropped>>

(* Every event is at one place and its callback is called at most once; a  *)
(* call brings the procedure and the arguments of that event; and an array *)
(* is never written beyond its end.                                        *)
CallbacksExact ==
  /\ Len(callbacks) <= length
  /\ \A s \in {callbacks, service.batch, got} :
       \A i, j \in DOMAIN s : s[i].n = s[j].n => i = j
  /\ UNION Range(Places) = 1 .. events
  /\ \A i, j \in DOMAIN Places : i # j => Places[i] \cap Places[j] = {}
  /\ \A i \in DOMAIN got : got[i].heard = got[i].sent
=============================================================================
