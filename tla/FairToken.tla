------------------------------ MODULE FairToken ------------------------------
(***************************************************************************)
(* How a fair scheduler serialises native threads (api/fthread,            *)
(* _pthread.scm, _scheduler.scm, _thread.scm, scheduler.scm).  Every fair  *)
(* thread and the scheduler own a native mutex and a condition variable;   *)
(* a token names the one that executes cooperative code.  A switch locks   *)
(* the mutex of the next process, writes the token and signals that        *)
(* process's condition variable.  The scheduler's mutex and condition      *)
(* variable also protect what other native threads give it:                *)
(* async-runnable, the threads that come back from the body of an          *)
(* asynchronous signal, and tobroadcast, the signals emitted from outside. *)
(*                                                                         *)
(* One step of a process touches one shared object, as far as another      *)
(* process can see.  Which thread comes next is a choice among the         *)
(* runnable ones: queues, signals and thread-terminate! are the subject of *)
(* FairThreads.                                                            *)
(***************************************************************************)
CONSTANTS
  Threads,     \* the fair threads
  Scdl,        \* the scheduler
  Externals,   \* native threads outside of the scheduler that broadcast to it
  NoToken      \* the value of current-token before the first switch

ASSUME ScdlAssumption == Scdl \notin Threads /\ Scdl \notin Externals

ASSUME DisjointAssumption == Threads \cap Externals = {}

ASSUME NoTokenAssumption ==
  NoToken \notin Threads \cup Externals \cup {Scdl}

Procs == Threads \cup {Scdl}     \* who may receive the token
Natives == Procs \cup Externals  \* who may own a mutex

VARIABLES
  token,       \* current-token
  pc,          \* where each native thread is
  next,        \* whom a process switches to (Scdl while it does not)
  after,       \* what a process does once it has given the token away
  owner,       \* the owner of each process's mutex, NoToken when it is free
  asleep,      \* the processes blocked in their own condition variable
  runnable,    \* threads-runnable, as a set
  later,       \* tostart and threads-yield: to be run at the next instant
  async,       \* async-runnable
  tobroadcast  \* the externals whose signal is pending

vars == <<token, pc, next, after, owner, asleep, runnable, later, async,
          tobroadcast>>

(* Where a process may be.  "wait.*" is %pthread-wait, "switch.*" is       *)
(* %pthread-switch, "take.*" is %scheduler-get-async-runnable, "add.*" is  *)
(* %scheduler-add-async-runnable!, "bcast.*" is %scheduler-broadcast*!,    *)
(* "idle.*" is the 'await case of no-busy-waiting-next-instant and "ext.*" *)
(* is %scheduler-add-broadcast!.                                           *)
WaitPC == {"wait.lock", "wait.test", "wait.cond", "wait.sleep"}
SwitchPC == {"next", "take.lock", "take.body", "switch.lock", "switch.set"}
AddPC == {"add.lock", "add.body", "add.notify"}
ThreadPC == WaitPC \cup SwitchPC \cup AddPC
              \cup {"coop", "switch.signal", "thunk", "dead"}
IdlePC == {"idle.lock", "idle.test", "idle.cond", "idle.sleep", "idle.unlock"}
ScdlPC == WaitPC \cup SwitchPC \cup IdlePC
            \cup {"coop", "switch.signal", "bcast.lock", "bcast.body", "left"}
ExtPC == {"ext.out", "ext.lock", "ext.body", "ext.notify"}

TypeOK ==
  /\ token \in Procs \cup {NoToken}
  /\ pc \in [Natives -> ThreadPC \cup ScdlPC \cup ExtPC]
  /\ \A t \in Threads : pc[t] \in ThreadPC
  /\ pc[Scdl] \in ScdlPC
  /\ \A e \in Externals : pc[e] \in ExtPC
  /\ next \in [Procs -> Procs]
  /\ after \in [Procs -> {"wait.lock", "thunk", "dead"}]
  /\ after[Scdl] = "wait.lock"
  /\ owner \in [Procs -> Natives \cup {NoToken}]
  /\ asleep \in SUBSET Procs
  /\ runnable \in SUBSET Threads
  /\ later \in SUBSET Threads
  /\ async \in SUBSET Threads
  /\ tobroadcast \in SUBSET Externals

(* The threads have been started: their native threads are about to wait   *)
(* for the token and they are in tostart.                                  *)
Init ==
  /\ token = NoToken
  /\ pc = [p \in Natives |-> IF p = Scdl THEN "coop"
                             ELSE IF p \in Threads THEN "wait.lock"
                             ELSE "ext.out"]
  /\ next = [p \in Procs |-> Scdl]
  /\ after = [p \in Procs |-> "wait.lock"]
  /\ owner = [p \in Procs |-> NoToken]
  /\ asleep = {}
  /\ runnable = {}
  /\ later = Threads
  /\ async = {}
  /\ tobroadcast = {}

-----------------------------------------------------------------------------
(* Control, mutexes and condition variables.                               *)

Goto(p, from, to) == pc[p] = from /\ pc' = [pc EXCEPT ![p] = to]

Lock(p, m) == owner[m] = NoToken /\ owner' = [owner EXCEPT ![m] = p]
Unlock(m) == owner' = [owner EXCEPT ![m] = NoToken]

queues == <<runnable, later, async, tobroadcast>>
switch == <<next, after>>

-----------------------------------------------------------------------------
(* %pthread-wait: lock, test the token, sleep until it is signalled.       *)

WaitLock(p) ==
  /\ Goto(p, "wait.lock", "wait.test")
  /\ Lock(p, p)
  /\ UNCHANGED <<token, switch, asleep, queues>>

(* Mutant: the token is not tested after the wait.                         *)
WaitDoneUntested(p) ==
  /\ Goto(p, "wait.test", "coop")
  /\ Unlock(p)
  /\ UNCHANGED <<token, switch, asleep, queues>>

WaitDone(p) ==
  /\ token = p
  /\ Goto(p, "wait.test", "coop")
  /\ Unlock(p)
  /\ UNCHANGED <<token, switch, asleep, queues>>

WaitMore(p) ==
  /\ token # p
  /\ Goto(p, "wait.test", "wait.cond")
  /\ UNCHANGED <<token, switch, owner, asleep, queues>>

(* condition-variable-wait!: release the mutex and sleep.                  *)
WaitSleep(p) ==
  /\ Goto(p, "wait.cond", "wait.sleep")
  /\ Unlock(p)
  /\ asleep' = asleep \cup {p}
  /\ UNCHANGED <<token, switch, queues>>

(* A signalled process takes its mutex back before it tests again.         *)
WaitWake(p) ==
  /\ p \notin asleep
  /\ Goto(p, "wait.sleep", "wait.test")
  /\ Lock(p, p)
  /\ UNCHANGED <<token, switch, asleep, queues>>

(* POSIX lets a condition wait return without a signal.                    *)
SpuriousWakeup(p) ==
  /\ p \in asleep
  /\ asleep' = asleep \ {p}
  /\ UNCHANGED <<token, pc, switch, owner, queues>>

-----------------------------------------------------------------------------
(* %scheduler-next-thread and %pthread-switch.                             *)

(* There is another runnable thread.                                       *)
NextRunnable(p) ==
  \E t \in runnable :
    /\ Goto(p, "next", "switch.lock")
    /\ next' = [next EXCEPT ![p] = t]
    /\ runnable' = runnable \ {t}
    /\ UNCHANGED <<token, after, owner, asleep, later, async, tobroadcast>>

(* There is none: look at the asynchronous threads, under their lock.      *)
NextNone(p) ==
  /\ runnable = {}
  /\ Goto(p, "next", "take.lock")
  /\ UNCHANGED <<token, switch, owner, asleep, queues>>

TakeLock(p) ==
  /\ Goto(p, "take.lock", "take.body")
  /\ Lock(p, Scdl)
  /\ UNCHANGED <<token, switch, asleep, queues>>

TakeAsync(p) ==
  /\ \E t \in async : /\ next' = [next EXCEPT ![p] = t]
                      /\ runnable' = async \ {t}
  /\ Goto(p, "take.body", "switch.lock")
  /\ Unlock(Scdl)
  /\ async' = {}
  /\ UNCHANGED <<token, after, asleep, later, tobroadcast>>

(* Mutant: there is nobody to switch to.                                   *)
TakeNobody(p) ==
  /\ async = {}
  /\ Goto(p, "take.body", "switch.lock")
  /\ next' = [next EXCEPT ![p] = NoToken]
  /\ Unlock(Scdl)
  /\ UNCHANGED <<token, after, asleep, queues>>

(* Nobody can run: the token goes back to the scheduler.                   *)
TakeNone(p) ==
  /\ async = {}
  /\ Goto(p, "take.body", "switch.lock")
  /\ next' = [next EXCEPT ![p] = Scdl]
  /\ Unlock(Scdl)
  /\ UNCHANGED <<token, after, asleep, queues>>

(* Mutant: the token is set and signalled without the mutex.               *)
SwitchUnlocked(p) ==
  /\ Goto(p, "switch.lock", "switch.set")
  /\ UNCHANGED <<token, switch, owner, asleep, queues>>

SwitchLock(p) ==
  /\ Goto(p, "switch.lock", "switch.set")
  /\ Lock(p, next[p])
  /\ UNCHANGED <<token, switch, asleep, queues>>

SwitchSet(p) ==
  /\ Goto(p, "switch.set", "switch.signal")
  /\ token' = next[p]
  /\ UNCHANGED <<switch, owner, asleep, queues>>

(* Mutant: the condition variable is not signalled.                        *)
SwitchSilently(p) ==
  /\ Goto(p, "switch.signal", after[p])
  /\ Unlock(next[p])
  /\ next' = [next EXCEPT ![p] = Scdl]
  /\ UNCHANGED <<token, after, asleep, queues>>

SwitchSignal(p) ==
  /\ Goto(p, "switch.signal", after[p])
  /\ asleep' = asleep \ {next[p]}
  /\ Unlock(next[p])
  /\ next' = [next EXCEPT ![p] = Scdl]
  /\ UNCHANGED <<token, after, queues>>

-----------------------------------------------------------------------------
(* What a thread does while it has the token.                              *)

Leave(t, how) ==
  /\ Goto(t, "coop", "next")
  /\ after' = [after EXCEPT ![t] = how]
  /\ UNCHANGED <<token, next, owner, asleep, async, tobroadcast>>

(* %thread-yield! and %thread-timeout!: run again at a later instant.      *)
ThreadYield(t) ==
  /\ Leave(t, "wait.lock")
  /\ later' = later \cup {t}
  /\ UNCHANGED runnable

(* thread-await! on an absent signal: wait until somebody emits it.        *)
ThreadBlock(t) ==
  /\ Leave(t, "wait.lock")
  /\ UNCHANGED <<runnable, later>>

(* %thread-asynchronize!: leave the scheduler to run the body of a signal. *)
ThreadAsynchronize(t) ==
  /\ Leave(t, "thunk")
  /\ UNCHANGED <<runnable, later>>

(* %thread-kill!                                                           *)
ThreadKill(t) ==
  /\ Leave(t, "dead")
  /\ UNCHANGED <<runnable, later>>

Parked(p) ==
  pc[p] \in WaitPC \/ (pc[p] = "switch.signal" /\ after[p] = "wait.lock")

(* The threads that wait for a signal.                                     *)
Blocked ==
  {t \in Threads : /\ Parked(t)
                   /\ token # t
                   /\ t \notin runnable \cup later \cup async}

(* broadcast! by the running thread awakes the threads that wait for it.   *)
ThreadBroadcast(t) ==
  /\ pc[t] = "coop"
  /\ \E woken \in SUBSET Blocked \ {{}} : runnable' = runnable \cup woken
  /\ UNCHANGED <<token, pc, switch, owner, asleep, later, async, tobroadcast>>

-----------------------------------------------------------------------------
(* %thread-synchronize!: the body has ended, come back to the scheduler.   *)

ThunkEnd(t) ==
  /\ Goto(t, "thunk", "add.lock")
  /\ UNCHANGED <<token, switch, owner, asleep, queues>>

AddLock(t) ==
  /\ Goto(t, "add.lock", "add.body")
  /\ Lock(t, Scdl)
  /\ UNCHANGED <<token, switch, asleep, queues>>

AddAsyncRunnable(t) ==
  /\ Goto(t, "add.body", "add.notify")
  /\ async' = async \cup {t}
  /\ UNCHANGED <<token, switch, owner, asleep, runnable, later, tobroadcast>>

(* Mutant: the scheduler is not notified.                                  *)
AddSilently(t) ==
  /\ Goto(t, "add.notify", "wait.lock")
  /\ Unlock(Scdl)
  /\ UNCHANGED <<token, switch, asleep, queues>>

AddNotify(t) ==
  /\ Goto(t, "add.notify", "wait.lock")
  /\ asleep' = asleep \ {Scdl}
  /\ Unlock(Scdl)
  /\ UNCHANGED <<token, switch, queues>>

-----------------------------------------------------------------------------
(* %scheduler-add-broadcast!, called by a native thread that is not under  *)
(* the scheduler's control: scheduler-broadcast!, or the end of a spawned  *)
(* asynchronous signal.                                                    *)

ExtStart(e) ==
  /\ e \notin tobroadcast
  /\ Goto(e, "ext.out", "ext.lock")
  /\ UNCHANGED <<token, switch, owner, asleep, queues>>

ExtLock(e) ==
  /\ Goto(e, "ext.lock", "ext.body")
  /\ Lock(e, Scdl)
  /\ UNCHANGED <<token, switch, asleep, queues>>

ExtAddBroadcast(e) ==
  /\ Goto(e, "ext.body", "ext.notify")
  /\ tobroadcast' = tobroadcast \cup {e}
  /\ UNCHANGED <<token, switch, owner, asleep, runnable, later, async>>

(* Mutant: the scheduler is not notified.                                  *)
ExtSilently(e) ==
  /\ Goto(e, "ext.notify", "ext.out")
  /\ Unlock(Scdl)
  /\ UNCHANGED <<token, switch, asleep, queues>>

ExtNotify(e) ==
  /\ Goto(e, "ext.notify", "ext.out")
  /\ asleep' = asleep \ {Scdl}
  /\ Unlock(Scdl)
  /\ UNCHANGED <<token, switch, queues>>

-----------------------------------------------------------------------------
(* The scheduler: %schedule-instant and no-busy-waiting-next-instant.      *)

Dead(t) == after[t] = "dead"

(* scheduler-state is ready, or the scheduler has just been entered: the   *)
(* threads of the last instant become runnable.                            *)
StartInstant ==
  /\ later # {}
  /\ Goto(Scdl, "coop", "bcast.lock")
  /\ runnable' = later
  /\ later' = {}
  /\ UNCHANGED <<token, switch, owner, asleep, async, tobroadcast>>

(* scheduler-state is done.                                                *)
ScdlLeave ==
  /\ \A t \in Threads : Dead(t)
  /\ Goto(Scdl, "coop", "left")
  /\ UNCHANGED <<token, switch, owner, asleep, queues>>

(* scheduler-state is await: sleep, unless something arrived since.        *)
ScdlAwait ==
  /\ later = {}
  /\ \E t \in Threads : ~ Dead(t)
  /\ Goto(Scdl, "coop", "idle.lock")
  /\ UNCHANGED <<token, switch, owner, asleep, queues>>

IdleLock ==
  /\ Goto(Scdl, "idle.lock", "idle.test")
  /\ Lock(Scdl, Scdl)
  /\ UNCHANGED <<token, switch, asleep, queues>>

(* Mutant: what arrived since scheduler-state is not looked at.            *)
IdleUntested ==
  /\ Goto(Scdl, "idle.test", "idle.cond")
  /\ UNCHANGED <<token, switch, owner, asleep, queues>>

IdleTest ==
  /\ tobroadcast = {} /\ async = {}
  /\ Goto(Scdl, "idle.test", "idle.cond")
  /\ UNCHANGED <<token, switch, owner, asleep, queues>>

IdleSleep ==
  /\ Goto(Scdl, "idle.cond", "idle.sleep")
  /\ Unlock(Scdl)
  /\ asleep' = asleep \cup {Scdl}
  /\ UNCHANGED <<token, switch, queues>>

IdleSkip ==
  /\ tobroadcast # {} \/ async # {}
  /\ Goto(Scdl, "idle.test", "idle.unlock")
  /\ UNCHANGED <<token, switch, owner, asleep, queues>>

IdleWake ==
  /\ Scdl \notin asleep
  /\ Goto(Scdl, "idle.sleep", "idle.unlock")
  /\ Lock(Scdl, Scdl)
  /\ UNCHANGED <<token, switch, asleep, queues>>

IdleUnlock ==
  /\ Goto(Scdl, "idle.unlock", "bcast.lock")
  /\ Unlock(Scdl)
  /\ UNCHANGED <<token, switch, asleep, queues>>

BcastLock ==
  /\ Goto(Scdl, "bcast.lock", "bcast.body")
  /\ Lock(Scdl, Scdl)
  /\ UNCHANGED <<token, switch, asleep, queues>>

(* %scheduler-broadcast*!: the pending signals awake who waits for them.   *)
BcastBody ==
  /\ Goto(Scdl, "bcast.body", "next")
  /\ \E woken \in SUBSET Blocked :
       /\ woken = {} \/ tobroadcast # {}
       /\ runnable' = runnable \cup woken
  /\ tobroadcast' = {}
  /\ after' = [after EXCEPT ![Scdl] = "wait.lock"]
  /\ Unlock(Scdl)
  /\ UNCHANGED <<token, next, asleep, later, async>>

-----------------------------------------------------------------------------
WaitStep(p) ==
  WaitLock(p) \/ WaitDone(p) \/ WaitMore(p) \/ WaitSleep(p) \/ WaitWake(p)

SwitchStep(p) ==
  \/ NextRunnable(p) \/ NextNone(p) \/ TakeLock(p) \/ TakeAsync(p)
  \/ TakeNone(p) \/ SwitchLock(p) \/ SwitchSet(p) \/ SwitchSignal(p)

CoopStep(t) ==
  ThreadYield(t) \/ ThreadBlock(t) \/ ThreadAsynchronize(t) \/ ThreadKill(t)

AsyncStep(t) ==
  ThunkEnd(t) \/ AddLock(t) \/ AddAsyncRunnable(t) \/ AddNotify(t)

ExtStep(e) ==
  ExtLock(e) \/ ExtAddBroadcast(e) \/ ExtNotify(e)

ScdlStep ==
  \/ StartInstant \/ ScdlLeave \/ ScdlAwait \/ IdleLock \/ IdleTest \/ IdleSleep
  \/ IdleSkip \/ IdleWake \/ IdleUnlock \/ BcastLock \/ BcastBody

Next ==
  \/ \E p \in Procs : WaitStep(p) \/ SwitchStep(p) \/ SpuriousWakeup(p)
  \/ \E t \in Threads : CoopStep(t) \/ ThreadBroadcast(t) \/ AsyncStep(t)
  \/ \E e \in Externals : ExtStart(e) \/ ExtStep(e)
  \/ ScdlStep

Spec == Init /\ [][Next]_vars

(* Native threads are scheduled by the operating system, so a thread that  *)
(* can go on does; the body of an asynchronous signal ends; and fair       *)
(* threads are cooperative: one that has the token gives it away.  The     *)
(* scheduler's mutex, which the returning asynchronous threads compete     *)
(* for, does not starve them.                                              *)
Fairness ==
  /\ \A p \in Procs : WF_vars(WaitStep(p)) /\ WF_vars(SwitchStep(p))
  /\ \A t \in Threads : /\ WF_vars(CoopStep(t))
                        /\ WF_vars(AsyncStep(t))
                        /\ SF_vars(AddLock(t))
  /\ \A e \in Externals : WF_vars(ExtStep(e))
  /\ WF_vars(ScdlStep)

FairSpec == Spec /\ Fairness

-----------------------------------------------------------------------------
CoopPC == SwitchPC \cup IdlePC \cup {"coop", "bcast.lock", "bcast.body", "left"}

Coop(p) == pc[p] \in CoopPC

(* Two native threads never execute cooperative code at the same time: the *)
(* token makes %pthread-wait let one process through.                      *)
MutualExclusion ==
  \A p, q \in Procs : Coop(p) /\ Coop(q) => p = q

(* %pthread-switch never signals too early: a process that has been given  *)
(* the token and sleeps in %pthread-wait is about to be signalled.         *)
NoLostToken ==
  \A p \in Procs :
    token = p /\ pc[p] = "wait.sleep" /\ p \in asleep
      => \E q \in Procs : pc[q] = "switch.signal" /\ next[q] = p

(* The scheduler of scheduler-start! does not sleep in                     *)
(* %async-scheduler-wait over a returning asynchronous thread or a pending *)
(* external signal, unless who brought it is about to notify.              *)
NoLostNotify ==
  pc[Scdl] = "idle.sleep" /\ Scdl \in asleep /\ (async # {} \/ tobroadcast # {})
    => \/ \E t \in Threads : pc[t] = "add.notify"
       \/ \E e \in Externals : pc[e] = "ext.notify"

(* Every instant ends: threads do not awake each other for ever in it.     *)
InstantsEnd == []<>(pc[Scdl] \in IdlePC \cup {"coop", "left"})

(* A thread that runs an asynchronous signal becomes cooperative again     *)
(* (thread-await! on a signal of make-asynchronous-signal returns).        *)
AsyncReturns ==
  InstantsEnd => \A t \in Threads : pc[t] = "thunk" ~> pc[t] = "coop"

(* What scheduler-broadcast! gives to the scheduler is broadcast, as long  *)
(* as threads are alive.                                                   *)
ExternalsAreHeard ==
  InstantsEnd => (tobroadcast # {} ~> tobroadcast = {} \/ pc[Scdl] = "left")

-----------------------------------------------------------------------------
(* The token protocol implements the exclusive baton of FairBaton.         *)

StatusOf(p) ==
  IF Coop(p) THEN "coop"
  ELSE IF Parked(p) THEN "parked"
  ELSE IF Dead(p) THEN "dead"
  ELSE "free"

Baton == INSTANCE FairBaton
           WITH holder <- token, status <- [p \in Procs |-> StatusOf(p)]

(* Safety: every step is a step of the baton or leaves it alone.           *)
BatonSpec == Baton!Spec

(* And a process that is given the token enters cooperative code.          *)
BatonFairSpec == Baton!FairSpec

(* Native threads are served: a fair thread that left for asynchronous     *)
(* code comes back, and what a native thread asks for is heard.            *)
NativesServed == AsyncReturns /\ ExternalsAreHeard

-----------------------------------------------------------------------------
(* The specification for TLC: once every thread is dead and the external   *)
(* threads have nothing left to say, the program stops.                    *)
Stop == ~ ENABLED Next /\ pc[Scdl] = "left" /\ UNCHANGED vars

StoppingSpec == Init /\ [][Next \/ Stop]_vars /\ Fairness
=============================================================================
