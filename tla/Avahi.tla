-------------------------------- MODULE Avahi --------------------------------
(***************************************************************************)
(* The avahi binding (api/avahi/src/Clib/bglavahi.c): polls with timeouts, *)
(* clients, entry groups, browsers and resolvers.  With a threaded poll,   *)
(* the callbacks come from the thread of the poll and go through the       *)
(* array; with a simple poll they are applied where they come.             *)
(***************************************************************************)
EXTENDS CallbackQueue

CONSTANTS
  Timeouts,    \* procedures that the program gives to avahi-poll-timeout
  MaxTimeouts  \* bound: timeouts with one procedure at a time

VARIABLES
  threaded,    \* the poll is threaded
  object,      \* what the program has: a client and an object of a kind, or timeouts
  builtin,     \* the C object of each Bigloo object: none, live, freed, or adopted by a
               \* callback that came before the function that makes it has returned
  procs,       \* how often each procedure is in %procs, the list by which the poll keeps
               \* procedures from the collector
  timers,      \* the number of timeouts that are set for each procedure
  again,       \* auxiliary: procedures that were given while they were kept already
  twice        \* a C object was freed twice, or used after that

avahiVars == <<threaded, object, builtin, procs, timers, again, twice>>

Kinds == {"client", "group", "browser", "typebrowser", "domainbrowser", "resolver"}

(* The callbacks come from the one thread of the poll.                     *)
PollThread == CHOOSE f \in Foreign : TRUE

InitAvahi(t, k) ==
  /\ threaded = t /\ object = k /\ builtin = [x \in Kinds |-> "none"]
  /\ procs = [p \in Timeouts |-> 0] /\ timers = [p \in Timeouts |-> 0] /\ again = {} /\ twice = FALSE

(* The cases of bgl_avahi_apply_callback.                                  *)
Applicable == {0, 1, 2, 6, 7, 8, 11, 12}

(* bgl_avahi_apply_callback takes the procedure of a timeout from those of *)
(* the poll, every occurrence of it.                                       *)
Kept(cb) == IF cb.kind = "timeout" THEN [procs EXCEPT ![cb.proc] = 0] ELSE procs

Applied(k, cb) == [n |-> k, sent |-> cb.arity, heard |-> cb.arity]

(* bgl_avahi_call_or_register_callback.  A simple poll applies the         *)
(* callback, which raises for an arity without a case.                     *)
CallOrRegister(cb) ==
  IF threaded THEN Emit(PollThread, cb) /\ UNCHANGED procs
  ELSE /\ events < MaxEvents /\ emitter[PollThread] = Idle
       /\ events' = events + 1 /\ procs' = Kept(cb)
       /\ IF cb.arity \in Applicable
          THEN got' = Append(got, Applied(events + 1, cb)) /\ UNCHANGED dropped
          ELSE dropped' = dropped \cup {events + 1} /\ UNCHANGED got
       /\ UNCHANGED <<lib, mutex, callbacks, length, service, emitter>>

-----------------------------------------------------------------------------
(* The library makes an object, or refuses; all but the client need one.   *)
New(k, ok) ==
  /\ lib = "avahi" /\ builtin[k] \in {"none", "adopted"}
  /\ k # "client" => builtin["client"] = "live"
  /\ builtin[k] = "adopted" => ok
  /\ builtin' = [builtin EXCEPT ![k] = IF ok THEN "live" ELSE "none"]
  /\ UNCHANGED <<threaded, object, procs, timers, again, twice>> /\ UNCHANGED queueVars

ClientNew(ok)        == New("client", ok)
EntryGroupNew(ok)    == New("group", ok)
BrowserNew(ok)       == New("browser", ok)
TypeBrowserNew(ok)   == New("typebrowser", ok)
DomainBrowserNew(ok) == New("domainbrowser", ok)
ResolverNew(ok)      == New("resolver", ok)

(* A callback of an object, with the number of its arguments.  It may come *)
(* from inside the function that makes the object, and all but that of a   *)
(* group then keep the C object they are given.                            *)
Callback(k, arity, adopts) ==
  /\ lib = "avahi" /\ builtin[k] # "freed"
  /\ k # "client" => builtin["client"] = "live"
  /\ CallOrRegister([kind |-> k, arity |-> arity])
  /\ builtin' = [builtin EXCEPT ![k] = IF @ = "none" /\ adopts THEN "adopted" ELSE @]
  /\ UNCHANGED <<threaded, object, timers, again, twice>>

ClientCallback        == Callback("client", 2, TRUE)
EntryGroupCallback    == Callback("group", 2, FALSE)
BrowserCallback       == Callback("browser", 8, TRUE)
TypeBrowserCallback   == Callback("typebrowser", 7, TRUE)
DomainBrowserCallback == Callback("domainbrowser", 5, TRUE)
ResolverCallback      == Callback("resolver", 12, TRUE)

(* A second close of an object whose C object is not forgotten frees it    *)
(* again.                                                                  *)
Close(k, after) ==
  /\ lib = "avahi" /\ builtin[k] \in {"live", "freed"}
  /\ builtin' = [builtin EXCEPT ![k] = after]
  /\ twice' = (builtin[k] = "freed")
  /\ UNCHANGED <<threaded, object, procs, timers, again>> /\ UNCHANGED queueVars

ClientClose        == Close("client", "freed")
EntryGroupClose    == Close("group", "freed")
BrowserClose       == Close("browser", "freed")
TypeBrowserClose   == Close("typebrowser", "freed")
DomainBrowserClose == Close("domainbrowser", "freed")
ResolverClose      == Close("resolver", "none")

(* avahi-poll-timeout keeps the procedure and sets the timeout.            *)
PollTimeout(p) ==
  /\ lib = "avahi" /\ procs[p] < MaxTimeouts
  /\ procs' = [procs EXCEPT ![p] = @ + 1] /\ timers' = [timers EXCEPT ![p] = @ + 1]
  /\ again' = IF procs[p] > 0 THEN again \cup {p} ELSE again
  /\ UNCHANGED <<threaded, object, builtin, twice>> /\ UNCHANGED queueVars

TimeoutCallback(p) ==
  /\ lib = "avahi" /\ timers[p] > 0 /\ timers' = [timers EXCEPT ![p] = @ - 1]
  /\ CallOrRegister([kind |-> "timeout", arity |-> 0, proc |-> p])
  /\ UNCHANGED <<threaded, object, builtin, again, twice>>

-----------------------------------------------------------------------------
(* bgl_avahi_invoke_callbacks: the index is read before the lock ...       *)
InvokeRead ==
  /\ lib = "avahi" /\ service.at = "unlocked"
  /\ service' = [service EXCEPT !.at = "indexed", !.index = Len(callbacks)]
  /\ UNCHANGED <<lib, mutex, callbacks, length, emitter, events, got, dropped>>
  /\ UNCHANGED avahiVars

(* Mutant: the index of the array is not reset.                            *)
CopyKeepsIndex ==
  /\ lib = "avahi" /\ service.at = "indexed" /\ mutex = Nobody
  /\ service' = [service EXCEPT !.at = "invoking", !.batch = SubSeq(callbacks, 1, service.index)]
  /\ UNCHANGED <<lib, mutex, callbacks, length, emitter, events, got, dropped>>
  /\ UNCHANGED avahiVars

(* ... so that what was registered in between is cleared without a call.   *)
InvokeCopy ==
  /\ lib = "avahi" /\ service.at = "indexed" /\ mutex = Nobody
  /\ service' = [service EXCEPT !.at = "invoking", !.batch = SubSeq(callbacks, 1, service.index)]
  /\ callbacks' = <<>>
  /\ dropped' = dropped \cup Numbers(SubSeq(callbacks, service.index + 1, Len(callbacks)))
  /\ UNCHANGED <<lib, mutex, length, emitter, events, got>>
  /\ UNCHANGED avahiVars

ApplyLast ==
  /\ lib = "avahi" /\ service.at = "invoking" /\ service.batch # <<>>
  /\ service' = [Calling(Last(service.batch)) EXCEPT !.batch = Front(@)]
  /\ procs' = Kept(Last(service.batch).data)
  /\ UNCHANGED <<lib, mutex, callbacks, length, emitter, events, got, dropped>>
  /\ UNCHANGED <<threaded, object, builtin, timers, again, twice>>

(* The thread goes back to the wait without a look at the array.           *)
ApplyEnd ==
  /\ lib = "avahi" /\ service.at = "invoking" /\ service.batch = <<>>
  /\ service' = [service EXCEPT !.at = "new"]
  /\ UNCHANGED <<lib, mutex, callbacks, length, emitter, events, got, dropped>>
  /\ UNCHANGED avahiVars

AvahiInvoke ==
  /\ lib = "avahi" /\ service.at = "calling" /\ service.call.data.arity \in Applicable
  /\ Return(Applied(service.call.n, service.call.data))
  /\ UNCHANGED avahiVars

(* A procedure raises, or the arity has no case, as for domain browsers.   *)
AvahiRaises == lib = "avahi" /\ Raise /\ UNCHANGED avahiVars

-----------------------------------------------------------------------------
(* The procedure of a timeout that is set, or whose callback waits, is     *)
(* kept from the collector, provided that it was not given to two timeouts *)
(* at a time.                                                              *)
TimeoutKept ==
  lib = "avahi" => \A p \in Timeouts \ again :
    (timers[p] > 0 \/ \E c \in Range(callbacks \o service.batch) \cup Range(emitter) :
                        c.n > 0 /\ c.data.kind = "timeout" /\ c.data.proc = p)
       => procs[p] > 0
=============================================================================
