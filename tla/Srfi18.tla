------------------------------- MODULE Srfi18 --------------------------------
(***************************************************************************)
(* Native threads: api/pthread/src/Posix/bglpthread.c with the methods of  *)
(* api/pthread/src/Llib/pthread.scm that call it.  The sections under the  *)
(* internal mutex of a thread never block inside and are one step; only    *)
(* who died holding that mutex is remembered.                              *)
(***************************************************************************)
EXTENDS Naturals, FiniteSets, Sequences

CONSTANTS
  Threads,
  Main,       \* the thread that runs the program
  Nil,        \* no thread, no mutex
  Victims,    \* threads that are terminated
  Callers     \* threads that start, join and terminate others

VARIABLES
  status,     \* status of each bglpthread: 0 new, 1 started, 2 terminated
  detached,   \* detachedp
  pthread,    \* the pthread: "none", "live", "gone" until joined, "freed"
  cancel,     \* a pthread_cancel is pending
  ended,      \* end-result: the body returned
  exc,        \* end-exception
  pc,         \* where each thread is
  arg,        \* the thread it joins or terminates, or whose list it changes;
              \* the mutex that it abandons
  orphan,     \* the dead thread that holds the internal mutex of this one
  told        \* auxiliary: how joining each thread ended

threads == <<status, detached, pthread, cancel, ended, exc, pc, arg, orphan, told>>

InitThreads ==
  /\ status = [t \in Threads |-> 0]
  /\ detached = [t \in Threads |-> FALSE]
  /\ pthread = [t \in Threads |-> IF t = Main THEN "live" ELSE "none"]
  /\ cancel = [t \in Threads |-> FALSE]
  /\ ended = [t \in Threads |-> FALSE]
  /\ exc = [t \in Threads |-> "none"]
  /\ pc = [t \in Threads |-> IF t = Main THEN "run" ELSE "new"]
  /\ arg = [t \in Threads |-> Nil]
  /\ orphan = [t \in Threads |-> Nil]
  /\ told = [t \in Threads |-> "none"]

(* Inside an operation on a mutex, and inside the loop that abandons them. *)
Busy == {"locking", "marking", "clearing", "releasing", "unmarking", "sleeping"}
Abandoning == {"abandon", "clear", "name", "free"}
Points == {"new", "init", "run", "joinwait", "join", "set", "look", "wait", "relock",
           "cleanup", "exit", "dead"} \cup Busy \cup Abandoning

TypeOKThreads ==
  /\ status \in [Threads -> 0 .. 2]
  /\ pthread \in [Threads -> {"none", "live", "gone", "freed"}]
  /\ pc \in [Threads -> Points]
  /\ told \in [Threads -> {"none", "value", "exception", "nothing"}]
  /\ \A t \in Threads : pc[t] \in {"joinwait", "join", "set"} => arg[t] \in Threads

(* The internal mutex of t can be taken.                                   *)
Unlocked(t) == orphan[t] = Nil

-----------------------------------------------------------------------------
(* thread-start! and thread-start-joinable!; pthread_create may fail.      *)
BglpthThreadStart(c, t, dt) ==
  /\ pc[c] = "run" /\ pc[t] = "new" /\ pthread[t] = "none"
  /\ \A d \in Threads : pc[d] = "joinwait" /\ arg[d] = t => ~ dt
  /\ detached' = [detached EXCEPT ![t] = dt]
  /\ \/ /\ pthread' = [pthread EXCEPT ![t] = "live"]
        /\ pc' = [pc EXCEPT ![t] = "init"]
     \/ UNCHANGED <<pthread, pc>>
  /\ UNCHANGED <<status, cancel, ended, exc, arg, orphan, told>>

(* Mutant: the start is not broadcast.                                     *)
RunSilently(t) ==
  /\ pc[t] = "init" /\ Unlocked(t)
  /\ status' = [status EXCEPT ![t] = 1]
  /\ pc' = [pc EXCEPT ![t] = "run"]
  /\ UNCHANGED <<detached, pthread, cancel, ended, exc, arg, orphan, told>>

(* bglpth_thread_run up to the user code: the broadcast wakes who waits    *)
(* for the start.                                                          *)
BglpthThreadRun(t) ==
  /\ pc[t] = "init" /\ Unlocked(t)
  /\ status' = [status EXCEPT ![t] = 1]
  /\ pc' = [u \in Threads |-> IF u = t THEN "run"
                              ELSE IF pc[u] = "joinwait" /\ arg[u] = t THEN "join" ELSE pc[u]]
  /\ UNCHANGED <<detached, pthread, cancel, ended, exc, arg, orphan, told>>

(* The body returns or raises.                                             *)
BodyEnds(t) ==
  /\ t # Main /\ pc[t] = "run"
  /\ pc' = [pc EXCEPT ![t] = "cleanup"]
  /\ \/ ended' = [ended EXCEPT ![t] = TRUE] /\ UNCHANGED exc
     \/ exc' = [exc EXCEPT ![t] = "uncaught"] /\ UNCHANGED ended
  /\ UNCHANGED <<status, detached, pthread, cancel, arg, orphan, told>>

(* A cancellation point of the body.                                       *)
CancelActs(t) ==
  /\ cancel[t] /\ pc[t] \in {"run", "join"}
  /\ pc' = [pc EXCEPT ![t] = "cleanup"]
  /\ UNCHANGED <<status, detached, pthread, cancel, ended, exc, arg, orphan, told>>

(* pthread_cond_wait in bglpth_thread_join takes the mutex again before    *)
(* the cleanup handlers, which do not release it.                          *)
CancelInJoin(t) ==
  /\ cancel[t] /\ pc[t] = "joinwait" /\ Unlocked(arg[t])
  /\ orphan' = [orphan EXCEPT ![arg[t]] = t]
  /\ pc' = [pc EXCEPT ![t] = "cleanup"]
  /\ arg' = [arg EXCEPT ![t] = Nil]
  /\ UNCHANGED <<status, detached, pthread, cancel, ended, exc, told>>

(* bglpth_thread_cleanup, then the user cleanup.                           *)
BglpthThreadCleanup(t) ==
  /\ pc[t] = "cleanup" /\ Unlocked(t)
  /\ status' = [status EXCEPT ![t] = 2]
  /\ pc' = [pc EXCEPT ![t] = "abandon"]
  /\ UNCHANGED <<detached, pthread, cancel, ended, exc, arg, orphan, told>>

(* The pthread ends.                                                       *)
ThreadExit(t) ==
  /\ pc[t] = "exit"
  /\ pc' = [pc EXCEPT ![t] = "dead"]
  /\ pthread' = [pthread EXCEPT ![t] = IF detached[t] THEN "freed" ELSE "gone"]
  /\ UNCHANGED <<status, detached, cancel, ended, exc, arg, orphan, told>>

-----------------------------------------------------------------------------
(* thread-join! up to pthread_join.  The wait for the start is an IF.      *)
BglpthThreadJoin(c, t) ==
  /\ pc[c] = "run" /\ c # t /\ t # Main
  /\ ~ detached[t] /\ pthread[t] # "freed" /\ Unlocked(t)
  /\ \A d \in Threads : ~ (pc[d] \in {"joinwait", "join"} /\ arg[d] = t)
  /\ arg' = [arg EXCEPT ![c] = t]
  /\ pc' = [pc EXCEPT ![c] = IF status[t] = 0 THEN "joinwait" ELSE "join"]
  /\ UNCHANGED <<status, detached, pthread, cancel, ended, exc, orphan, told>>

(* Mutant: thread-join! does not wait for the end of the thread.           *)
JoinTooSoon(c) ==
  /\ pc[c] = "join"
  /\ LET t == arg[c] IN
     told' = [told EXCEPT ![t] = IF exc[t] # "none" THEN "exception"
                                 ELSE IF ended[t] THEN "value" ELSE "nothing"]
  /\ pc' = [pc EXCEPT ![c] = "run"]
  /\ arg' = [arg EXCEPT ![c] = Nil]
  /\ UNCHANGED <<status, detached, pthread, cancel, ended, exc, orphan>>

(* pthread_join returns, and thread-join! answers.                         *)
JoinReturns(c) ==
  /\ pc[c] = "join" /\ pthread[arg[c]] = "gone"
  /\ LET t == arg[c] IN
     /\ pthread' = [pthread EXCEPT ![t] = "freed"]
     /\ told' = [told EXCEPT ![t] = IF exc[t] # "none" THEN "exception"
                                    ELSE IF ended[t] THEN "value" ELSE "nothing"]
  /\ pc' = [pc EXCEPT ![c] = "run"]
  /\ arg' = [arg EXCEPT ![c] = Nil]
  /\ UNCHANGED <<status, detached, cancel, ended, exc, orphan>>

(* The timeout of thread-join! is over: it raises.                         *)
JoinTimeout(c) ==
  /\ pc[c] = "join"
  /\ pc' = [pc EXCEPT ![c] = "run"]
  /\ arg' = [arg EXCEPT ![c] = Nil]
  /\ UNCHANGED <<status, detached, pthread, cancel, ended, exc, orphan, told>>

(* thread-terminate!: bglpth_thread_terminate, then end-exception is set.  *)
BglpthThreadTerminate(c, t) ==
  /\ pc[c] = "run" /\ c # t /\ t \in Victims /\ pthread[t] # "none" /\ Unlocked(t)
  /\ IF status[t] # 2
     THEN /\ cancel' = [cancel EXCEPT ![t] = TRUE]
          /\ pc' = [pc EXCEPT ![c] = "set"]
          /\ arg' = [arg EXCEPT ![c] = t]
     ELSE UNCHANGED <<cancel, pc, arg>>
  /\ UNCHANGED <<status, detached, pthread, ended, exc, orphan, told>>

SetEndException(c) ==
  /\ pc[c] = "set"
  /\ exc' = [exc EXCEPT ![arg[c]] = "terminated"]
  /\ pc' = [pc EXCEPT ![c] = "run"]
  /\ arg' = [arg EXCEPT ![c] = Nil]
  /\ UNCHANGED <<status, detached, pthread, cancel, ended, orphan, told>>

-----------------------------------------------------------------------------
(* While status is not 2, the pthread of a started thread exists: the      *)
(* pthread_cancel of bglpth_thread_terminate never gets the identifier of  *)
(* a pthread that has ended, which may be that of another one.             *)
CancelAlive ==
  \A t \in Threads \ {Main} : status[t] # 2 => pthread[t] \in {"none", "live"}

(* thread-join! answers with the value of a body that returned or raises   *)
(* the exception of one that did not, after the thread has ended; only one *)
(* that is being terminated may look as if it had returned nothing.        *)
JoinTells ==
  \A t \in Threads : /\ told[t] = "value" => ended[t]
                     /\ told[t] = "exception" => exc[t] # "none"
                     /\ told[t] = "nothing" => cancel[t]
                     /\ told[t] # "none" => pc[t] = "dead"

-----------------------------------------------------------------------------
(***************************************************************************)
(* The mutexes and condition variables of api/srfi18/src/Posix on these    *)
(* threads.  A thread keeps the mutexes that it has locked in a doubly     *)
(* linked list, to abandon them when it ends.  An operation writes the     *)
(* list, the locked field and the pthread_mutex in steps of their own, and *)
(* any thread may unlock: when two threads are inside operations on one    *)
(* mutex or on one list, nothing is known of the outcome (raced).          *)
(***************************************************************************)
CONSTANTS
  Mutexes,
  Lockers,    \* pairs of a thread and a mutex that it locks and unlocks
  Waiters,    \* threads that wait on the condition variable
  Lookers     \* pairs of a thread and a mutex whose state it asks for

VARIABLES
  pm,         \* who holds each pthread_mutex
  locked,     \* locked field
  thread,     \* thread field
  next, prev, \* the links of the list
  mutexes,    \* the head of the list of each thread
  on,         \* the mutex of an operation or of a wait
  look,       \* a call of mutex-state: its mutex, the locked that it has
              \* read, and (auxiliary) who has held the mutex since
  raced       \* auxiliary: two operations met

(* The names are distinct, and the strings of mutex-state name no thread.  *)
Distinct ==
  /\ Main \in Threads /\ Nil \notin Threads \cup Mutexes
  /\ Threads \cap {"not-owned", "abandoned", "not-abandoned"} = {}
  /\ IsFiniteSet(Mutexes)

locks == <<pm, locked, thread, next, prev, mutexes, on, look, raced>>
links == <<thread, next, prev, mutexes>>
srfiVars == <<threads, locks>>

NoLook == [on |-> Nil, locked |-> FALSE, held |-> {}]

InitLocks ==
  /\ pm = [m \in Mutexes |-> Nil]
  /\ locked = [m \in Mutexes |-> FALSE]
  /\ thread = [m \in Mutexes |-> Nil]
  /\ next = [m \in Mutexes |-> Nil]
  /\ prev = [m \in Mutexes |-> Nil]
  /\ mutexes = [t \in Threads |-> Nil]
  /\ on = [t \in Threads |-> Nil]
  /\ look = NoLook
  /\ raced = FALSE

SrfiInit == InitThreads /\ InitLocks

SrfiTypeOK ==
  /\ TypeOKThreads
  /\ pm \in [Mutexes -> Threads \cup {Nil}]
  /\ thread \in [Mutexes -> Threads \cup {Nil}]
  /\ look.on \in Mutexes \cup {Nil}
  /\ \A t \in Threads : pc[t] \in Busy \cup {"wait", "relock"} => on[t] \in Mutexes

-----------------------------------------------------------------------------
(* t is inside an operation on m.                                          *)
Operating(t, m) ==
  \/ pc[t] \in Busy /\ on[t] = m
  \/ pc[t] \in {"clear", "name", "free"} /\ arg[t] = m

(* t begins one while another thread is inside one.                        *)
Meets(t, m) == \E u \in Threads \ {t} : Operating(u, m)

(* t changes the list of l while another thread may be changing it.        *)
ListMeets(t, l) ==
  \E u \in Threads \ {t} :
    \/ u = l /\ pc[u] \in {"locking", "marking", "unmarking", "sleeping"} \cup Abandoning
    \/ pc[u] = "clearing" /\ arg[u] = l

(* t gets the pthread_mutex of m.                                          *)
Takes(t, m) ==
  /\ pm[m] = Nil
  /\ pm' = [pm EXCEPT ![m] = t]
  /\ look' = IF look.on = m THEN [look EXCEPT !.held = @ \cup {t}] ELSE look

(* unregister_mutex.                                                       *)
Unregister(m) ==
  LET p == prev[m]
      n == next[m]
      cut == [next EXCEPT ![m] = Nil]
      bare == [prev EXCEPT ![m] = Nil]
  IN /\ next' = IF p # Nil THEN [cut EXCEPT ![p] = n] ELSE cut
     /\ mutexes' = IF p = Nil /\ thread[m] # Nil
                   THEN [mutexes EXCEPT ![thread[m]] = n] ELSE mutexes
     /\ prev' = IF n # Nil THEN [bare EXCEPT ![n] = p] ELSE bare
     /\ thread' = [thread EXCEPT ![m] = Nil]

-----------------------------------------------------------------------------
Srfi18MutexLock(t, m) ==
  /\ pc[t] = "run" /\ <<t, m>> \in Lockers
  /\ Takes(t, m)
  /\ raced' = Meets(t, m)
  /\ pc' = [pc EXCEPT ![t] = "locking"]
  /\ on' = [on EXCEPT ![t] = m]
  /\ UNCHANGED <<status, detached, pthread, cancel, ended, exc, arg, orphan, told, locked, links>>

(* mutex-lock! with a timeout, which is over while somebody holds m.       *)
Srfi18MutexTimedLock(t, m) ==
  \/ Srfi18MutexLock(t, m)
  \/ pc[t] = "run" /\ <<t, m>> \in Lockers /\ pm[m] # Nil /\ UNCHANGED srfiVars

(* srfi18_mutex_mark_locked and register_mutex.  A mutex that is marked    *)
(* locked by somebody else is an error.                                    *)
MarkLocked(t) ==
  LET m == on[t]
      h == mutexes[t]
  IN /\ pc[t] = "locking"
     /\ raced' = ListMeets(t, t)
     /\ IF thread[m] = t \/ locked[m] THEN UNCHANGED links
        ELSE /\ thread' = [thread EXCEPT ![m] = t]
             /\ next' = IF h # Nil THEN [next EXCEPT ![m] = h] ELSE next
             /\ prev' = IF h # Nil THEN [prev EXCEPT ![h] = m] ELSE prev
             /\ mutexes' = [mutexes EXCEPT ![t] = m]
     /\ pc' = [pc EXCEPT ![t] = IF locked[m] /\ thread[m] # t THEN "run" ELSE "marking"]
     /\ UNCHANGED <<status, detached, pthread, cancel, ended, exc, arg, orphan, told,
                    pm, locked, on, look>>

(* Then locked = 1.                                                        *)
SetLocked(t) ==
  /\ pc[t] = "marking"
  /\ locked' = [locked EXCEPT ![on[t]] = TRUE]
  /\ pc' = [pc EXCEPT ![t] = "run"]
  /\ on' = [on EXCEPT ![t] = Nil]
  /\ UNCHANGED <<status, detached, pthread, cancel, ended, exc, arg, orphan, told,
                 pm, links, look, raced>>

(* srfi18_mutex_unlock of any mutex by any thread.  A pthread_mutex with   *)
(* default attributes accepts it, so that the marks are not put back.      *)
Srfi18MutexUnlock(t, m) ==
  /\ pc[t] = "run" /\ <<t, m>> \in Lockers
  /\ raced' = (Meets(t, m) \/ ListMeets(t, thread[m]))
  /\ Unregister(m)
  /\ pc' = [pc EXCEPT ![t] = "clearing"]
  /\ on' = [on EXCEPT ![t] = m]
  /\ arg' = [arg EXCEPT ![t] = thread[m]]
  /\ UNCHANGED <<status, detached, pthread, cancel, ended, exc, orphan, told, pm, locked, look>>

ClearLocked(t) ==
  /\ pc[t] = "clearing"
  /\ locked' = [locked EXCEPT ![on[t]] = FALSE]
  /\ pc' = [pc EXCEPT ![t] = "releasing"]
  /\ arg' = [arg EXCEPT ![t] = Nil]
  /\ UNCHANGED <<status, detached, pthread, cancel, ended, exc, orphan, told,
                 pm, links, on, look, raced>>

Release(t) ==
  /\ pc[t] = "releasing"
  /\ pm' = [pm EXCEPT ![on[t]] = Nil]
  /\ pc' = [pc EXCEPT ![t] = "run"]
  /\ on' = [on EXCEPT ![t] = Nil]
  /\ UNCHANGED <<status, detached, pthread, cancel, ended, exc, arg, orphan, told,
                 locked, links, look, raced>>

(* The loop of srfi18_mutexes_abandon: the mutexes of the list in turn.    *)
Srfi18MutexesAbandon(t) ==
  LET w == mutexes[t] IN
  /\ pc[t] = "abandon"
  /\ raced' = (w # Nil /\ (Meets(t, w) \/ ListMeets(t, t)))
  /\ IF w # Nil THEN Unregister(w) ELSE UNCHANGED links
  /\ pc' = [pc EXCEPT ![t] = IF w # Nil THEN "clear" ELSE "exit"]
  /\ arg' = [arg EXCEPT ![t] = w]
  /\ UNCHANGED <<status, detached, pthread, cancel, ended, exc, orphan, told, pm, locked, on, look>>

(* srfi18_mutex_unlock_sans_thread: locked, the name of the dead thread,   *)
(* and the pthread_mutex.                                                  *)
ClearAbandoned(t) ==
  /\ pc[t] = "clear"
  /\ locked' = [locked EXCEPT ![arg[t]] = FALSE]
  /\ pc' = [pc EXCEPT ![t] = "name"]
  /\ UNCHANGED <<status, detached, pthread, cancel, ended, exc, arg, orphan, told,
                 pm, links, on, look, raced>>

NameDead(t) ==
  /\ pc[t] = "name"
  /\ thread' = [thread EXCEPT ![arg[t]] = t]
  /\ pc' = [pc EXCEPT ![t] = "free"]
  /\ UNCHANGED <<status, detached, pthread, cancel, ended, exc, arg, orphan, told,
                 pm, locked, next, prev, mutexes, on, look, raced>>

(* Mutant: the next mutex is read from one that has left the list.         *)
FreeFirst(t) ==
  /\ pc[t] = "free"
  /\ pm' = [pm EXCEPT ![arg[t]] = Nil]
  /\ pc' = [pc EXCEPT ![t] = "exit"]
  /\ arg' = [arg EXCEPT ![t] = Nil]
  /\ UNCHANGED <<status, detached, pthread, cancel, ended, exc, orphan, told,
                 locked, links, on, look, raced>>

FreeAbandoned(t) ==
  /\ pc[t] = "free"
  /\ pm' = [pm EXCEPT ![arg[t]] = Nil]
  /\ pc' = [pc EXCEPT ![t] = "abandon"]
  /\ arg' = [arg EXCEPT ![t] = Nil]
  /\ UNCHANGED <<status, detached, pthread, cancel, ended, exc, orphan, told,
                 locked, links, on, look, raced>>

-----------------------------------------------------------------------------
(* srfi18_condvar_wait: locked = 0, then the mark of the owner, then the   *)
(* wait, which releases the mutex; pthread_cond_wait wants it held.        *)
Srfi18CondvarWait(t, m) ==
  /\ pc[t] = "run" /\ t \in Waiters /\ pm[m] = t
  /\ raced' = Meets(t, m)
  /\ locked' = [locked EXCEPT ![m] = FALSE]
  /\ pc' = [pc EXCEPT ![t] = "unmarking"]
  /\ on' = [on EXCEPT ![t] = m]
  /\ UNCHANGED <<status, detached, pthread, cancel, ended, exc, arg, orphan, told,
                 pm, links, look>>

Unmark(t) ==
  /\ pc[t] = "unmarking"
  /\ raced' = ListMeets(t, t)
  /\ Unregister(on[t])
  /\ pc' = [pc EXCEPT ![t] = "sleeping"]
  /\ UNCHANGED <<status, detached, pthread, cancel, ended, exc, arg, orphan, told,
                 pm, locked, on, look>>

Sleep(t) ==
  /\ pc[t] = "sleeping"
  /\ pm' = [pm EXCEPT ![on[t]] = Nil]
  /\ pc' = [pc EXCEPT ![t] = "wait"]
  /\ UNCHANGED <<status, detached, pthread, cancel, ended, exc, arg, orphan, told,
                 locked, links, on, look, raced>>

(* The timed wait adds milliseconds to tv_nsec without a carry: the call   *)
(* may refuse the time before it releases the mutex.                       *)
WaitRefused(t) ==
  /\ pc[t] = "sleeping"
  /\ pc' = [pc EXCEPT ![t] = "locking"]
  /\ UNCHANGED <<status, detached, pthread, cancel, ended, exc, arg, orphan, told, locks>>

(* A signal, a broadcast, a timeout or a spurious wake-up.                 *)
Wake(woken) ==
  /\ woken # {}
  /\ pc' = [t \in Threads |-> IF t \in woken THEN "relock" ELSE pc[t]]
  /\ UNCHANGED <<status, detached, pthread, cancel, ended, exc, arg, orphan, told, locks>>

Waiting == {t \in Threads : pc[t] = "wait"}
BglpthCondvarSignal == \E t \in Waiting : Wake({t})
BglpthCondvarBroadcast == Wake(Waiting)

(* The end of the wait; the marks come back as for a lock.                 *)
CondvarRelock(t) ==
  /\ pc[t] = "relock"
  /\ Takes(t, on[t])
  /\ raced' = Meets(t, on[t])
  /\ pc' = [pc EXCEPT ![t] = "locking"]
  /\ UNCHANGED <<status, detached, pthread, cancel, ended, exc, arg, orphan, told,
                 locked, links, on>>

(* pthread_cond_wait takes the mutex again before the cleanup handlers of  *)
(* a cancelled thread; the mutex is not in the list of the thread.         *)
CancelInWait(t) ==
  /\ cancel[t] /\ pc[t] \in {"wait", "relock"}
  /\ Takes(t, on[t])
  /\ pc' = [pc EXCEPT ![t] = "cleanup"]
  /\ UNCHANGED <<status, detached, pthread, cancel, ended, exc, arg, orphan, told, locked,
                 links, on, raced>>

-----------------------------------------------------------------------------
(* mutex-state reads locked, then thread, without the mutex.               *)
Srfi18MutexState(m, l) ==
  IF l THEN IF thread[m] # Nil THEN thread[m] ELSE "not-owned"
  ELSE IF thread[m] # Nil THEN "abandoned" ELSE "not-abandoned"

MutexStateReads(t, m) ==
  /\ pc[t] = "run" /\ <<t, m>> \in Lookers /\ look.on = Nil
  /\ look' = [on |-> m, locked |-> locked[m], held |-> {pm[m]} \ {Nil}]
  /\ pc' = [pc EXCEPT ![t] = "look"]
  /\ UNCHANGED <<status, detached, pthread, cancel, ended, exc, arg, orphan, told,
                 pm, locked, links, on, raced>>

MutexStateAnswers(t) ==
  /\ pc[t] = "look"
  /\ look' = NoLook
  /\ pc' = [pc EXCEPT ![t] = "run"]
  /\ UNCHANGED <<status, detached, pthread, cancel, ended, exc, arg, orphan, told,
                 pm, locked, links, on, raced>>

-----------------------------------------------------------------------------
(* The steps inside the operations on the mutexes.                         *)
MutexStep(t) ==
  \/ MarkLocked(t) \/ SetLocked(t) \/ ClearLocked(t) \/ Release(t)
  \/ Srfi18MutexesAbandon(t) \/ ClearAbandoned(t) \/ NameDead(t) \/ FreeAbandoned(t)
  \/ Unmark(t) \/ Sleep(t)

(* What a thread does by itself once it runs nothing of its own.           *)
Own(t) ==
  /\ ~ raced
  /\ \/ BglpthThreadRun(t) /\ UNCHANGED locks
     \/ BglpthThreadCleanup(t) /\ UNCHANGED locks
     \/ MutexStep(t) \/ MutexStateAnswers(t)
     \/ ThreadExit(t) /\ UNCHANGED locks
     \/ JoinReturns(t) /\ UNCHANGED locks
     \/ SetEndException(t) /\ UNCHANGED locks

SomeBodyEnds == \E t \in Threads : ~ raced /\ BodyEnds(t) /\ UNCHANGED locks

Act(t) ==
  \/ /\ \/ CancelActs(t) \/ CancelInJoin(t) \/ JoinTimeout(t)
        \/ \E u \in Threads : /\ t \in Callers
                              /\ \/ \E dt \in BOOLEAN : BglpthThreadStart(t, u, dt)
                                 \/ BglpthThreadJoin(t, u)
                                 \/ BglpthThreadTerminate(t, u)
     /\ UNCHANGED locks
  \/ \E m \in Mutexes : \/ Srfi18MutexTimedLock(t, m) \/ Srfi18MutexUnlock(t, m)
                        \/ Srfi18CondvarWait(t, m) \/ MutexStateReads(t, m)
  \/ WaitRefused(t) \/ CondvarRelock(t) \/ CancelInWait(t)

SrfiNext ==
  /\ ~ raced
  /\ \/ \E t \in Threads : Own(t) \/ Act(t)
     \/ SomeBodyEnds
     \/ BglpthCondvarSignal \/ BglpthCondvarBroadcast

(* The kernel runs every thread, and no body goes on for ever: a body ends *)
(* once, so that the last condition is as if each thread had its own.      *)
SrfiSpec ==
  /\ SrfiInit /\ [][SrfiNext]_srfiVars
  /\ \A t \in Threads : WF_srfiVars(Own(t))
  /\ SF_srfiVars(SomeBodyEnds)

-----------------------------------------------------------------------------
(* m is in the list of t: it is marked locked, or about to be, or no more. *)
InList(m, t) ==
  thread[m] = t /\ (locked[m] \/ (pc[t] \in {"marking", "unmarking"} /\ on[t] = m))

(* A sequence that goes through the list of t both ways.                   *)
Linked(t) ==
  \E s \in UNION {[1 .. n -> Mutexes] : n \in 0 .. Cardinality(Mutexes)} :
    /\ IF s = <<>> THEN mutexes[t] = Nil
       ELSE /\ mutexes[t] = s[1] /\ next[s[Len(s)]] = Nil /\ prev[s[1]] = Nil
    /\ \A i \in 1 .. Len(s) - 1 : next[s[i]] = s[i + 1] /\ prev[s[i + 1]] = s[i]
    /\ {s[i] : i \in 1 .. Len(s)} = {m \in Mutexes : InList(m, t)}

Over == Abandoning \cup {"exit", "dead"}

(* Once nobody is inside an operation on m: its end has abandoned what a   *)
(* thread had locked, and mutex-state is exact.  The owner it names holds  *)
(* the pthread_mutex and has not ended, an abandoned mutex is one whose    *)
(* owner is ending or has ended, and who holds one that is not locked is a *)
(* thread that was cancelled in a wait on it.                              *)
StateExact(m) ==
  LET state == Srfi18MutexState(m, locked[m]) IN
  /\ state # "not-owned"
  /\ locked[m] => pm[m] = state /\ pc[state] \notin {"exit", "dead"}
  /\ state = "abandoned" => pc[thread[m]] \in Over
  /\ ~ locked[m] /\ pm[m] # Nil => cancel[pm[m]] /\ on[pm[m]] = m

(* A call that spans operations may find what was never so together: it    *)
(* says "abandoned" of a mutex that is being locked, or "not-owned".  But  *)
(* the owner it names has held the mutex during the call, and "abandoned"  *)
(* is only said of a mutex that was abandoned or locked during the call.   *)
LookTells ==
  LET m == look.on IN
  m # Nil /\ thread[m] # Nil =>
    thread[m] \in look.held \/ (~ look.locked /\ pc[thread[m]] \in Over)

(* thread-join! comes back with the end of the thread, never before it,    *)
(* and thread-terminate! never cancels a thread that is gone.              *)
JoinsTell == SrfiTypeOK /\ CancelAlive /\ JoinTells

(* The list of a thread is well linked and holds exactly its mutexes, also *)
(* between the steps of an operation and when others unlock them, so that  *)
(* its end abandons them all; and mutex-state tells what it can.           *)
MutexesAbandoned ==
  ~ raced => /\ \A t \in Threads : Linked(t)
             /\ \A m \in Mutexes : (\E t \in Threads : Operating(t, m)) \/ StateExact(m)
             /\ LookTells

(* The program comes back from joining a thread that was started: the      *)
(* broadcast of the start is not missed and the thread gets to its end,    *)
(* unless that thread itself waits for somebody, or a joiner was cancelled *)
(* while it waited for the start.                                          *)
Joining == pc[Main] \in {"joinwait", "join"} /\ pc[arg[Main]] # "new"
Excused ==
  LET t == arg[Main] IN
  orphan[t] # Nil \/ pc[t] \in {"join", "joinwait", "wait", "relock"}
JoinEnds == []<>(~ Joining \/ Excused \/ raced)
=============================================================================
