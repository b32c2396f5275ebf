--------------------------- MODULE FairTokenProofs ---------------------------
(***************************************************************************)
(* Proofs about FairToken for any set of fair threads and of external      *)
(* threads: the token is exclusive, neither a token nor a notification is  *)
(* lost, and the protocol implements FairBaton.                            *)
(***************************************************************************)
EXTENDS FairToken, TLAPS

(* The mutex a native thread holds at each point of its code.              *)
Holds(p, m) ==
  \/ pc[p] \in {"wait.test", "wait.cond"} /\ m = p
  \/ pc[p] \in {"switch.set", "switch.signal"} /\ m = next[p]
  \/ /\ pc[p] \in {"take.body", "add.body", "add.notify", "idle.test",
                   "idle.cond", "idle.unlock", "bcast.body", "ext.body",
                   "ext.notify"}
     /\ m = Scdl

OwnerInv ==
  \A p \in Natives : \A m \in Procs : Holds(p, m) => owner[m] = p

TokenInv ==
  \A p \in Procs : Coop(p) => token = p \/ (p = Scdl /\ token = NoToken)

(* The tests made under a mutex are still true when the wait begins.       *)
TestInv ==
  /\ \A p \in Procs : pc[p] = "wait.cond" => token # p
  /\ pc[Scdl] = "idle.cond" => async = {} /\ tobroadcast = {}

SafetyInv ==
  TypeOK /\ OwnerInv /\ TokenInv /\ TestInv /\ NoLostToken /\ NoLostNotify

Switching(p) == pc[p] \in {"switch.lock", "switch.set"}

Targeted(t) == token = t \/ \E p \in Procs : Switching(p) /\ next[p] = t

(* A dead thread gives the token away and does nothing else.               *)
DeadInv ==
  \A t \in Threads :
    /\ pc[t] = "dead" => Dead(t)
    /\ Dead(t) => pc[t] \in SwitchPC \cup {"switch.signal", "dead"}

Away(t) ==
  \/ pc[t] \in {"thunk", "add.lock", "add.body"}
  \/ pc[t] = "switch.signal" /\ after[t] = "thunk"

(* Nobody gives the token to a thread that runs an asynchronous signal.    *)
AwayInv ==
  \A t \in Threads :
    /\ pc[t] \in AddPC \cup {"thunk"} => after[t] = "thunk"
    /\ Away(t) => ~ Targeted(t)

(* A thread is in at most one queue, only while it is parked or on its way *)
(* there, and nobody is switching to it.                                   *)
QueueInv ==
  /\ runnable \cap later = {}
  /\ runnable \cap async = {}
  /\ later \cap async = {}
  /\ \A t \in runnable \cup async :
       (Parked(t) \/ pc[t] = "add.notify") /\ ~ Targeted(t)
  /\ \A t \in later :
       \/ Parked(t) /\ ~ Targeted(t)
       \/ pc[t] \in SwitchPC /\ after[t] = "wait.lock"

(* The token is only given to a process that waits or is about to.         *)
TargetInv ==
  \A p \in Procs :
    Switching(p) => \/ Parked(next[p])
                    \/ next[p] \in Threads /\ pc[next[p]] = "add.notify"
                    \/ next[p] = Scdl /\ p = Scdl

IInv == SafetyInv /\ DeadInv /\ AwayInv /\ QueueInv /\ TargetInv

-----------------------------------------------------------------------------
(* Every action keeps the types.                                           *)
LEMMA TypePreserved ==
  TypeOK /\ [Next]_vars => TypeOK'
<1> SUFFICES ASSUME TypeOK, [Next]_vars PROVE TypeOK'
  OBVIOUS
<1> USE DEF TypeOK, Procs, Natives, ThreadPC, ScdlPC, ExtPC, WaitPC,
   SwitchPC, AddPC, IdlePC
<1>1. ASSUME NEW p \in Procs, WaitStep(p) PROVE TypeOK'
  BY ScdlAssumption, DisjointAssumption, <1>1 DEF WaitStep, WaitLock, Goto,
     Lock, queues, switch, WaitDone, Unlock, WaitMore, WaitSleep, WaitWake
<1>2. ASSUME NEW p \in Procs, SpuriousWakeup(p) PROVE TypeOK'
  BY ScdlAssumption, DisjointAssumption, <1>2 DEF SpuriousWakeup, queues,
     switch
<1>3. ASSUME NEW p \in Procs, SwitchStep(p) PROVE TypeOK'
  BY ScdlAssumption, DisjointAssumption, <1>3 DEF SwitchStep, NextRunnable,
     Goto, switch, NextNone, queues, TakeLock, Lock, TakeAsync, Unlock,
     TakeNone, SwitchLock, SwitchSet, SwitchSignal
<1>4. ASSUME NEW t \in Threads, CoopStep(t) PROVE TypeOK'
  BY ScdlAssumption, DisjointAssumption, <1>4 DEF CoopStep, ThreadYield,
     Leave, Goto, ThreadBlock, ThreadAsynchronize, ThreadKill
<1>5. ASSUME NEW t \in Threads, ThreadBroadcast(t) PROVE TypeOK'
  BY ScdlAssumption, DisjointAssumption, <1>5 DEF ThreadBroadcast, Blocked,
     switch, Parked
<1>6. ASSUME NEW t \in Threads, AsyncStep(t) PROVE TypeOK'
  BY ScdlAssumption, DisjointAssumption, <1>6 DEF AsyncStep, ThunkEnd, Goto,
     queues, switch, AddLock, Lock, AddAsyncRunnable, AddNotify, Unlock
<1>7. ASSUME NEW e \in Externals, ExtStart(e) PROVE TypeOK'
  BY ScdlAssumption, DisjointAssumption, <1>7 DEF ExtStart, Goto, queues,
     switch
<1>8. ASSUME NEW e \in Externals, ExtStep(e) PROVE TypeOK'
  BY ScdlAssumption, DisjointAssumption, <1>8 DEF ExtStep, ExtLock, Goto,
     Lock, queues, switch, ExtAddBroadcast, ExtNotify, Unlock
<1>9. ASSUME ScdlStep PROVE TypeOK'
  BY ScdlAssumption, DisjointAssumption, <1>9 DEF ScdlStep, StartInstant,
     Goto, switch, ScdlLeave, Dead, queues, ScdlAwait, IdleLock, Lock,
     IdleTest, IdleSleep, Unlock, IdleSkip, IdleWake, IdleUnlock, BcastLock,
     BcastBody, Blocked, Parked
<1>10. CASE UNCHANGED vars
  BY <1>10 DEF vars
<1> QED BY <1>1, <1>2, <1>3, <1>4, <1>5, <1>6, <1>7, <1>8, <1>9, <1>10 DEF
   Next

(* A mutex is held by at most one native thread: lock waits until it is    *)
(* free.                                                                   *)
LEMMA OwnerPreserved ==
  TypeOK /\ OwnerInv /\ [Next]_vars => OwnerInv'
<1> SUFFICES ASSUME TypeOK /\ OwnerInv, [Next]_vars PROVE OwnerInv'
  OBVIOUS
<1> USE DEF TypeOK, OwnerInv, Holds, Procs, Natives, ThreadPC, ScdlPC,
   ExtPC, WaitPC, SwitchPC, AddPC, IdlePC
<1>1. ASSUME NEW p \in Procs, WaitStep(p) PROVE OwnerInv'
  BY ScdlAssumption, DisjointAssumption, NoTokenAssumption, <1>1 DEF
     WaitStep, WaitLock, Goto, Lock, queues, switch, WaitDone, Unlock,
     WaitMore, WaitSleep, WaitWake
<1>2. ASSUME NEW p \in Procs, SpuriousWakeup(p) PROVE OwnerInv'
  BY ScdlAssumption, DisjointAssumption, NoTokenAssumption, <1>2 DEF
     SpuriousWakeup, queues, switch
<1>3. ASSUME NEW p \in Procs, SwitchStep(p) PROVE OwnerInv'
  BY ScdlAssumption, DisjointAssumption, NoTokenAssumption, <1>3 DEF
     SwitchStep, NextRunnable, Goto, switch, NextNone, queues, TakeLock,
     Lock, TakeAsync, Unlock, TakeNone, SwitchLock, SwitchSet, SwitchSignal
<1>4. ASSUME NEW t \in Threads, CoopStep(t) PROVE OwnerInv'
  BY ScdlAssumption, DisjointAssumption, NoTokenAssumption, <1>4 DEF
     CoopStep, ThreadYield, Leave, Goto, ThreadBlock, ThreadAsynchronize,
     ThreadKill
<1>5. ASSUME NEW t \in Threads, ThreadBroadcast(t) PROVE OwnerInv'
  BY ScdlAssumption, DisjointAssumption, NoTokenAssumption, <1>5 DEF
     ThreadBroadcast, Blocked, switch, Parked
<1>6. ASSUME NEW t \in Threads, AsyncStep(t) PROVE OwnerInv'
  BY ScdlAssumption, DisjointAssumption, NoTokenAssumption, <1>6 DEF
     AsyncStep, ThunkEnd, Goto, queues, switch, AddLock, Lock,
     AddAsyncRunnable, AddNotify, Unlock
<1>7. ASSUME NEW e \in Externals, ExtStart(e) PROVE OwnerInv'
  BY ScdlAssumption, DisjointAssumption, NoTokenAssumption, <1>7 DEF
     ExtStart, Goto, queues, switch
<1>8. ASSUME NEW e \in Externals, ExtStep(e) PROVE OwnerInv'
  BY ScdlAssumption, DisjointAssumption, NoTokenAssumption, <1>8 DEF
     ExtStep, ExtLock, Goto, Lock, queues, switch, ExtAddBroadcast,
     ExtNotify, Unlock
<1>9. ASSUME ScdlStep PROVE OwnerInv'
  BY ScdlAssumption, DisjointAssumption, NoTokenAssumption, <1>9 DEF
     ScdlStep, StartInstant, Goto, switch, ScdlLeave, Dead, queues,
     ScdlAwait, IdleLock, Lock, IdleTest, IdleSleep, Unlock, IdleSkip,
     IdleWake, IdleUnlock, BcastLock, BcastBody, Blocked, Parked
<1>10. CASE UNCHANGED vars
  BY <1>10 DEF vars
<1> QED BY <1>1, <1>2, <1>3, <1>4, <1>5, <1>6, <1>7, <1>8, <1>9, <1>10 DEF
   Next

(* Whoever executes cooperative code is named by the token: %pthread-wait  *)
(* lets only the token's process through, and SwitchSet renounces it.      *)
LEMMA TokenPreserved ==
  TypeOK /\ TokenInv /\ [Next]_vars => TokenInv'
<1> SUFFICES ASSUME TypeOK /\ TokenInv, [Next]_vars PROVE TokenInv'
  OBVIOUS
<1> USE DEF TypeOK, Procs, Natives, ThreadPC, ScdlPC, ExtPC, WaitPC,
   SwitchPC, AddPC, IdlePC, Coop, CoopPC, TokenInv
<1>1. ASSUME NEW p \in Procs, WaitStep(p) PROVE TokenInv'
  BY ScdlAssumption, DisjointAssumption, NoTokenAssumption, <1>1 DEF
     WaitStep, WaitLock, Goto, Lock, queues, switch, WaitDone, Unlock,
     WaitMore, WaitSleep, WaitWake
<1>2. ASSUME NEW p \in Procs, SpuriousWakeup(p) PROVE TokenInv'
  BY ScdlAssumption, DisjointAssumption, NoTokenAssumption, <1>2 DEF
     SpuriousWakeup, queues, switch
<1>3. ASSUME NEW p \in Procs, SwitchStep(p) PROVE TokenInv'
  BY ScdlAssumption, DisjointAssumption, NoTokenAssumption, <1>3 DEF
     SwitchStep, NextRunnable, Goto, switch, NextNone, queues, TakeLock,
     Lock, TakeAsync, Unlock, TakeNone, SwitchLock, SwitchSet, SwitchSignal
<1>4. ASSUME NEW t \in Threads, CoopStep(t) PROVE TokenInv'
  BY ScdlAssumption, DisjointAssumption, NoTokenAssumption, <1>4 DEF
     CoopStep, ThreadYield, Leave, Goto, ThreadBlock, ThreadAsynchronize,
     ThreadKill
<1>5. ASSUME NEW t \in Threads, ThreadBroadcast(t) PROVE TokenInv'
  BY ScdlAssumption, DisjointAssumption, NoTokenAssumption, <1>5 DEF
     ThreadBroadcast, Blocked, switch, Parked
<1>6. ASSUME NEW t \in Threads, AsyncStep(t) PROVE TokenInv'
  BY ScdlAssumption, DisjointAssumption, NoTokenAssumption, <1>6 DEF
     AsyncStep, ThunkEnd, Goto, queues, switch, AddLock, Lock,
     AddAsyncRunnable, AddNotify, Unlock
<1>7. ASSUME NEW e \in Externals, ExtStart(e) PROVE TokenInv'
  BY ScdlAssumption, DisjointAssumption, NoTokenAssumption, <1>7 DEF
     ExtStart, Goto, queues, switch
<1>8. ASSUME NEW e \in Externals, ExtStep(e) PROVE TokenInv'
  BY ScdlAssumption, DisjointAssumption, NoTokenAssumption, <1>8 DEF
     ExtStep, ExtLock, Goto, Lock, queues, switch, ExtAddBroadcast,
     ExtNotify, Unlock
<1>9. ASSUME ScdlStep PROVE TokenInv'
  BY ScdlAssumption, DisjointAssumption, NoTokenAssumption, <1>9 DEF
     ScdlStep, StartInstant, Goto, switch, ScdlLeave, Dead, queues,
     ScdlAwait, IdleLock, Lock, IdleTest, IdleSleep, Unlock, IdleSkip,
     IdleWake, IdleUnlock, BcastLock, BcastBody, Blocked, Parked
<1>10. CASE UNCHANGED vars
  BY <1>10 DEF vars
<1> QED BY <1>1, <1>2, <1>3, <1>4, <1>5, <1>6, <1>7, <1>8, <1>9, <1>10 DEF
   Next

(* What was tested under a mutex stays true until the wait begins, because *)
(* the token of p and the scheduler's queues only change under the mutexes *)
(* of p and of the scheduler.                                              *)
LEMMA TestPreserved ==
  TypeOK /\ OwnerInv /\ TestInv /\ [Next]_vars => TestInv'
<1> SUFFICES ASSUME TypeOK /\ OwnerInv /\ TestInv, [Next]_vars PROVE TestInv'
  OBVIOUS
<1> USE DEF TypeOK, Procs, Natives, ThreadPC, ScdlPC, ExtPC, WaitPC,
   SwitchPC, AddPC, IdlePC, TestInv, OwnerInv, Holds
<1>1. ASSUME NEW p \in Procs, WaitStep(p) PROVE TestInv'
  BY ScdlAssumption, DisjointAssumption, NoTokenAssumption, <1>1 DEF
     WaitStep, WaitLock, Goto, Lock, queues, switch, WaitDone, Unlock,
     WaitMore, WaitSleep, WaitWake
<1>2. ASSUME NEW p \in Procs, SpuriousWakeup(p) PROVE TestInv'
  BY ScdlAssumption, DisjointAssumption, NoTokenAssumption, <1>2 DEF
     SpuriousWakeup, queues, switch
<1>3. ASSUME NEW p \in Procs, SwitchStep(p) PROVE TestInv'
  BY ScdlAssumption, DisjointAssumption, NoTokenAssumption, <1>3 DEF
     SwitchStep, NextRunnable, Goto, switch, NextNone, queues, TakeLock,
     Lock, TakeAsync, Unlock, TakeNone, SwitchLock, SwitchSet, SwitchSignal
<1>4. ASSUME NEW t \in Threads, CoopStep(t) PROVE TestInv'
  BY ScdlAssumption, DisjointAssumption, NoTokenAssumption, <1>4 DEF
     CoopStep, ThreadYield, Leave, Goto, ThreadBlock, ThreadAsynchronize,
     ThreadKill
<1>5. ASSUME NEW t \in Threads, ThreadBroadcast(t) PROVE TestInv'
  BY ScdlAssumption, DisjointAssumption, NoTokenAssumption, <1>5 DEF
     ThreadBroadcast, Blocked, switch, Parked
<1>6. ASSUME NEW t \in Threads, AsyncStep(t) PROVE TestInv'
  BY ScdlAssumption, DisjointAssumption, NoTokenAssumption, <1>6 DEF
     AsyncStep, ThunkEnd, Goto, queues, switch, AddLock, Lock,
     AddAsyncRunnable, AddNotify, Unlock
<1>7. ASSUME NEW e \in Externals, ExtStart(e) PROVE TestInv'
  BY ScdlAssumption, DisjointAssumption, NoTokenAssumption, <1>7 DEF
     ExtStart, Goto, queues, switch
<1>8. ASSUME NEW e \in Externals, ExtStep(e) PROVE TestInv'
  BY ScdlAssumption, DisjointAssumption, NoTokenAssumption, <1>8 DEF
     ExtStep, ExtLock, Goto, Lock, queues, switch, ExtAddBroadcast,
     ExtNotify, Unlock
<1>9. ASSUME ScdlStep PROVE TestInv'
  BY ScdlAssumption, DisjointAssumption, NoTokenAssumption, <1>9 DEF
     ScdlStep, StartInstant, Goto, switch, ScdlLeave, Dead, queues,
     ScdlAwait, IdleLock, Lock, IdleTest, IdleSleep, Unlock, IdleSkip,
     IdleWake, IdleUnlock, BcastLock, BcastBody, Blocked, Parked
<1>10. CASE UNCHANGED vars
  BY <1>10 DEF vars
<1> QED BY <1>1, <1>2, <1>3, <1>4, <1>5, <1>6, <1>7, <1>8, <1>9, <1>10 DEF
   Next

(* A switch to a sleeping process ends with a signal to it.                *)
LEMMA NoLostTokenPreserved ==
  TypeOK /\ TestInv /\ NoLostToken /\ [Next]_vars => NoLostToken'
<1> SUFFICES ASSUME TypeOK /\ TestInv /\ NoLostToken, [Next]_vars PROVE NoLostToken'
  OBVIOUS
<1> USE DEF TypeOK, Procs, Natives, ThreadPC, ScdlPC, ExtPC, WaitPC,
   SwitchPC, AddPC, IdlePC, TestInv, NoLostToken
<1>1. ASSUME NEW p \in Procs, WaitStep(p) PROVE NoLostToken'
  BY ScdlAssumption, DisjointAssumption, NoTokenAssumption, <1>1 DEF
     WaitStep, WaitLock, Goto, Lock, queues, switch, WaitDone, Unlock,
     WaitMore, WaitSleep, WaitWake
<1>2. ASSUME NEW p \in Procs, SpuriousWakeup(p) PROVE NoLostToken'
  BY ScdlAssumption, DisjointAssumption, NoTokenAssumption, <1>2 DEF
     SpuriousWakeup, queues, switch
<1>3. ASSUME NEW p \in Procs, SwitchStep(p) PROVE NoLostToken'
  BY ScdlAssumption, DisjointAssumption, NoTokenAssumption, <1>3 DEF
     SwitchStep, NextRunnable, Goto, switch, NextNone, queues, TakeLock,
     Lock, TakeAsync, Unlock, TakeNone, SwitchLock, SwitchSet, SwitchSignal
<1>4. ASSUME NEW t \in Threads, CoopStep(t) PROVE NoLostToken'
  BY ScdlAssumption, DisjointAssumption, NoTokenAssumption, <1>4 DEF
     CoopStep, ThreadYield, Leave, Goto, ThreadBlock, ThreadAsynchronize,
     ThreadKill
<1>5. ASSUME NEW t \in Threads, ThreadBroadcast(t) PROVE NoLostToken'
  BY ScdlAssumption, DisjointAssumption, NoTokenAssumption, <1>5 DEF
     ThreadBroadcast, Blocked, switch, Parked
<1>6. ASSUME NEW t \in Threads, AsyncStep(t) PROVE NoLostToken'
  BY ScdlAssumption, DisjointAssumption, NoTokenAssumption, <1>6 DEF
     AsyncStep, ThunkEnd, Goto, queues, switch, AddLock, Lock,
     AddAsyncRunnable, AddNotify, Unlock
<1>7. ASSUME NEW e \in Externals, ExtStart(e) PROVE NoLostToken'
  BY ScdlAssumption, DisjointAssumption, NoTokenAssumption, <1>7 DEF
     ExtStart, Goto, queues, switch
<1>8. ASSUME NEW e \in Externals, ExtStep(e) PROVE NoLostToken'
  BY ScdlAssumption, DisjointAssumption, NoTokenAssumption, <1>8 DEF
     ExtStep, ExtLock, Goto, Lock, queues, switch, ExtAddBroadcast,
     ExtNotify, Unlock
<1>9. ASSUME ScdlStep PROVE NoLostToken'
  BY ScdlAssumption, DisjointAssumption, NoTokenAssumption, <1>9 DEF
     ScdlStep, StartInstant, Goto, switch, ScdlLeave, Dead, queues,
     ScdlAwait, IdleLock, Lock, IdleTest, IdleSleep, Unlock, IdleSkip,
     IdleWake, IdleUnlock, BcastLock, BcastBody, Blocked, Parked
<1>10. CASE UNCHANGED vars
  BY <1>10 DEF vars
<1> QED BY <1>1, <1>2, <1>3, <1>4, <1>5, <1>6, <1>7, <1>8, <1>9, <1>10 DEF
   Next

(* Adding to the scheduler's queues ends with a notification.              *)
LEMMA NoLostNotifyPreserved ==
  TypeOK /\ TestInv /\ NoLostNotify /\ [Next]_vars => NoLostNotify'
<1> SUFFICES ASSUME TypeOK /\ TestInv /\ NoLostNotify, [Next]_vars PROVE NoLostNotify'
  OBVIOUS
<1> USE DEF TypeOK, Procs, Natives, ThreadPC, ScdlPC, ExtPC, WaitPC,
   SwitchPC, AddPC, IdlePC, TestInv, NoLostNotify
<1>1. ASSUME NEW p \in Procs, WaitStep(p) PROVE NoLostNotify'
  BY ScdlAssumption, DisjointAssumption, NoTokenAssumption, <1>1 DEF
     WaitStep, WaitLock, Goto, Lock, queues, switch, WaitDone, Unlock,
     WaitMore, WaitSleep, WaitWake
<1>2. ASSUME NEW p \in Procs, SpuriousWakeup(p) PROVE NoLostNotify'
  BY ScdlAssumption, DisjointAssumption, NoTokenAssumption, <1>2 DEF
     SpuriousWakeup, queues, switch
<1>3. ASSUME NEW p \in Procs, SwitchStep(p) PROVE NoLostNotify'
  BY ScdlAssumption, DisjointAssumption, NoTokenAssumption, <1>3 DEF
     SwitchStep, NextRunnable, Goto, switch, NextNone, queues, TakeLock,
     Lock, TakeAsync, Unlock, TakeNone, SwitchLock, SwitchSet, SwitchSignal
<1>4. ASSUME NEW t \in Threads, CoopStep(t) PROVE NoLostNotify'
  BY ScdlAssumption, DisjointAssumption, NoTokenAssumption, <1>4 DEF
     CoopStep, ThreadYield, Leave, Goto, ThreadBlock, ThreadAsynchronize,
     ThreadKill
<1>5. ASSUME NEW t \in Threads, ThreadBroadcast(t) PROVE NoLostNotify'
  BY ScdlAssumption, DisjointAssumption, NoTokenAssumption, <1>5 DEF
     ThreadBroadcast, Blocked, switch, Parked
<1>6. ASSUME NEW t \in Threads, AsyncStep(t) PROVE NoLostNotify'
  BY ScdlAssumption, DisjointAssumption, NoTokenAssumption, <1>6 DEF
     AsyncStep, ThunkEnd, Goto, queues, switch, AddLock, Lock,
     AddAsyncRunnable, AddNotify, Unlock
<1>7. ASSUME NEW e \in Externals, ExtStart(e) PROVE NoLostNotify'
  BY ScdlAssumption, DisjointAssumption, NoTokenAssumption, <1>7 DEF
     ExtStart, Goto, queues, switch
<1>8. ASSUME NEW e \in Externals, ExtStep(e) PROVE NoLostNotify'
  BY ScdlAssumption, DisjointAssumption, NoTokenAssumption, <1>8 DEF
     ExtStep, ExtLock, Goto, Lock, queues, switch, ExtAddBroadcast,
     ExtNotify, Unlock
<1>9. ASSUME ScdlStep PROVE NoLostNotify'
  BY ScdlAssumption, DisjointAssumption, NoTokenAssumption, <1>9 DEF
     ScdlStep, StartInstant, Goto, switch, ScdlLeave, Dead, queues,
     ScdlAwait, IdleLock, Lock, IdleTest, IdleSleep, Unlock, IdleSkip,
     IdleWake, IdleUnlock, BcastLock, BcastBody, Blocked, Parked
<1>10. CASE UNCHANGED vars
  BY <1>10 DEF vars
<1> QED BY <1>1, <1>2, <1>3, <1>4, <1>5, <1>6, <1>7, <1>8, <1>9, <1>10 DEF
   Next

(* A killed thread never waits again.                                      *)
LEMMA DeadPreserved ==
  TypeOK /\ DeadInv /\ [Next]_vars => DeadInv'
<1> SUFFICES ASSUME TypeOK /\ DeadInv, [Next]_vars PROVE DeadInv'
  OBVIOUS
<1> USE DEF TypeOK, Procs, Natives, ThreadPC, ScdlPC, ExtPC, WaitPC,
   SwitchPC, AddPC, IdlePC, DeadInv, Dead
<1>1. ASSUME NEW p \in Procs, WaitStep(p) PROVE DeadInv'
  BY ScdlAssumption, DisjointAssumption, NoTokenAssumption, <1>1 DEF
     WaitStep, WaitLock, Goto, Lock, queues, switch, WaitDone, Unlock,
     WaitMore, WaitSleep, WaitWake
<1>2. ASSUME NEW p \in Procs, SpuriousWakeup(p) PROVE DeadInv'
  BY ScdlAssumption, DisjointAssumption, NoTokenAssumption, <1>2 DEF
     SpuriousWakeup, queues, switch
<1>3. ASSUME NEW p \in Procs, SwitchStep(p) PROVE DeadInv'
  BY ScdlAssumption, DisjointAssumption, NoTokenAssumption, <1>3 DEF
     SwitchStep, NextRunnable, Goto, switch, NextNone, queues, TakeLock,
     Lock, TakeAsync, Unlock, TakeNone, SwitchLock, SwitchSet, SwitchSignal
<1>4. ASSUME NEW t \in Threads, CoopStep(t) PROVE DeadInv'
  BY ScdlAssumption, DisjointAssumption, NoTokenAssumption, <1>4 DEF
     CoopStep, ThreadYield, Leave, Goto, ThreadBlock, ThreadAsynchronize,
     ThreadKill
<1>5. ASSUME NEW t \in Threads, ThreadBroadcast(t) PROVE DeadInv'
  BY ScdlAssumption, DisjointAssumption, NoTokenAssumption, <1>5 DEF
     ThreadBroadcast, Blocked, switch, Parked
<1>6. ASSUME NEW t \in Threads, AsyncStep(t) PROVE DeadInv'
  BY ScdlAssumption, DisjointAssumption, NoTokenAssumption, <1>6 DEF
     AsyncStep, ThunkEnd, Goto, queues, switch, AddLock, Lock,
     AddAsyncRunnable, AddNotify, Unlock
<1>7. ASSUME NEW e \in Externals, ExtStart(e) PROVE DeadInv'
  BY ScdlAssumption, DisjointAssumption, NoTokenAssumption, <1>7 DEF
     ExtStart, Goto, queues, switch
<1>8. ASSUME NEW e \in Externals, ExtStep(e) PROVE DeadInv'
  BY ScdlAssumption, DisjointAssumption, NoTokenAssumption, <1>8 DEF
     ExtStep, ExtLock, Goto, Lock, queues, switch, ExtAddBroadcast,
     ExtNotify, Unlock
<1>9. ASSUME ScdlStep PROVE DeadInv'
  BY ScdlAssumption, DisjointAssumption, NoTokenAssumption, <1>9 DEF
     ScdlStep, StartInstant, Goto, switch, ScdlLeave, Dead, queues,
     ScdlAwait, IdleLock, Lock, IdleTest, IdleSleep, Unlock, IdleSkip,
     IdleWake, IdleUnlock, BcastLock, BcastBody, Blocked, Parked
<1>10. CASE UNCHANGED vars
  BY <1>10 DEF vars
<1> QED BY <1>1, <1>2, <1>3, <1>4, <1>5, <1>6, <1>7, <1>8, <1>9, <1>10 DEF
   Next

(* The token goes to queued threads only, and those that run an            *)
(* asynchronous signal are in no queue.                                    *)
LEMMA AwayPreserved ==
  TypeOK /\ TokenInv /\ DeadInv /\ AwayInv /\ QueueInv /\ TargetInv /\ [Next]_vars => AwayInv'
<1> SUFFICES ASSUME TypeOK /\ TokenInv /\ DeadInv /\ AwayInv /\ QueueInv /\ TargetInv, [Next]_vars PROVE AwayInv'
  OBVIOUS
<1> USE DEF TypeOK, Procs, Natives, ThreadPC, ScdlPC, ExtPC, WaitPC,
   SwitchPC, AddPC, IdlePC, Coop, CoopPC, TokenInv, QueueInv, TargetInv,
   DeadInv, AwayInv, Away, Targeted, Switching, Dead, Parked
<1>1. ASSUME NEW p \in Procs, WaitStep(p) PROVE AwayInv'
  BY ScdlAssumption, DisjointAssumption, NoTokenAssumption, <1>1 DEF
     WaitStep, WaitLock, Goto, Lock, queues, switch, WaitDone, Unlock,
     WaitMore, WaitSleep, WaitWake
<1>2. ASSUME NEW p \in Procs, SpuriousWakeup(p) PROVE AwayInv'
  BY ScdlAssumption, DisjointAssumption, NoTokenAssumption, <1>2 DEF
     SpuriousWakeup, queues, switch
<1>3. ASSUME NEW p \in Procs, SwitchStep(p) PROVE AwayInv'
  BY ScdlAssumption, DisjointAssumption, NoTokenAssumption, <1>3 DEF
     SwitchStep, NextRunnable, Goto, switch, NextNone, queues, TakeLock,
     Lock, TakeAsync, Unlock, TakeNone, SwitchLock, SwitchSet, SwitchSignal
<1>4. ASSUME NEW t \in Threads, CoopStep(t) PROVE AwayInv'
  BY ScdlAssumption, DisjointAssumption, NoTokenAssumption, <1>4 DEF
     CoopStep, ThreadYield, Leave, Goto, ThreadBlock, ThreadAsynchronize,
     ThreadKill
<1>5. ASSUME NEW t \in Threads, ThreadBroadcast(t) PROVE AwayInv'
  BY ScdlAssumption, DisjointAssumption, NoTokenAssumption, <1>5 DEF
     ThreadBroadcast, Blocked, switch, Parked
<1>6. ASSUME NEW t \in Threads, AsyncStep(t) PROVE AwayInv'
  BY ScdlAssumption, DisjointAssumption, NoTokenAssumption, <1>6 DEF
     AsyncStep, ThunkEnd, Goto, queues, switch, AddLock, Lock,
     AddAsyncRunnable, AddNotify, Unlock
<1>7. ASSUME NEW e \in Externals, ExtStart(e) PROVE AwayInv'
  BY ScdlAssumption, DisjointAssumption, NoTokenAssumption, <1>7 DEF
     ExtStart, Goto, queues, switch
<1>8. ASSUME NEW e \in Externals, ExtStep(e) PROVE AwayInv'
  BY ScdlAssumption, DisjointAssumption, NoTokenAssumption, <1>8 DEF
     ExtStep, ExtLock, Goto, Lock, queues, switch, ExtAddBroadcast,
     ExtNotify, Unlock
<1>9. ASSUME ScdlStep PROVE AwayInv'
  BY ScdlAssumption, DisjointAssumption, NoTokenAssumption, <1>9 DEF
     ScdlStep, StartInstant, Goto, switch, ScdlLeave, Dead, queues,
     ScdlAwait, IdleLock, Lock, IdleTest, IdleSleep, Unlock, IdleSkip,
     IdleWake, IdleUnlock, BcastLock, BcastBody, Blocked, Parked
<1>10. CASE UNCHANGED vars
  BY <1>10 DEF vars
<1> QED BY <1>1, <1>2, <1>3, <1>4, <1>5, <1>6, <1>7, <1>8, <1>9, <1>10 DEF
   Next

(* The next thread comes from a queue, so it is parked or about to be.     *)
LEMMA TargetPreserved ==
  TypeOK /\ TokenInv /\ DeadInv /\ AwayInv /\ QueueInv /\ TargetInv /\ [Next]_vars => TargetInv'
<1> SUFFICES ASSUME TypeOK /\ TokenInv /\ DeadInv /\ AwayInv /\ QueueInv /\ TargetInv, [Next]_vars PROVE TargetInv'
  OBVIOUS
<1> USE DEF TypeOK, Procs, Natives, ThreadPC, ScdlPC, ExtPC, WaitPC,
   SwitchPC, AddPC, IdlePC, Coop, CoopPC, TokenInv, QueueInv, TargetInv,
   DeadInv, AwayInv, Away, Targeted, Switching, Dead, Parked
<1>1. ASSUME NEW p \in Procs, WaitStep(p) PROVE TargetInv'
  BY ScdlAssumption, DisjointAssumption, NoTokenAssumption, <1>1 DEF
     WaitStep, WaitLock, Goto, Lock, queues, switch, WaitDone, Unlock,
     WaitMore, WaitSleep, WaitWake
<1>2. ASSUME NEW p \in Procs, SpuriousWakeup(p) PROVE TargetInv'
  BY ScdlAssumption, DisjointAssumption, NoTokenAssumption, <1>2 DEF
     SpuriousWakeup, queues, switch
<1>3. ASSUME NEW p \in Procs, SwitchStep(p) PROVE TargetInv'
  BY ScdlAssumption, DisjointAssumption, NoTokenAssumption, <1>3 DEF
     SwitchStep, NextRunnable, Goto, switch, NextNone, queues, TakeLock,
     Lock, TakeAsync, Unlock, TakeNone, SwitchLock, SwitchSet, SwitchSignal
<1>4. ASSUME NEW t \in Threads, CoopStep(t) PROVE TargetInv'
  BY ScdlAssumption, DisjointAssumption, NoTokenAssumption, <1>4 DEF
     CoopStep, ThreadYield, Leave, Goto, ThreadBlock, ThreadAsynchronize,
     ThreadKill
<1>5. ASSUME NEW t \in Threads, ThreadBroadcast(t) PROVE TargetInv'
  BY ScdlAssumption, DisjointAssumption, NoTokenAssumption, <1>5 DEF
     ThreadBroadcast, Blocked, switch, Parked
<1>6. ASSUME NEW t \in Threads, AsyncStep(t) PROVE TargetInv'
  BY ScdlAssumption, DisjointAssumption, NoTokenAssumption, <1>6 DEF
     AsyncStep, ThunkEnd, Goto, queues, switch, AddLock, Lock,
     AddAsyncRunnable, AddNotify, Unlock
<1>7. ASSUME NEW e \in Externals, ExtStart(e) PROVE TargetInv'
  BY ScdlAssumption, DisjointAssumption, NoTokenAssumption, <1>7 DEF
     ExtStart, Goto, queues, switch
<1>8. ASSUME NEW e \in Externals, ExtStep(e) PROVE TargetInv'
  BY ScdlAssumption, DisjointAssumption, NoTokenAssumption, <1>8 DEF
     ExtStep, ExtLock, Goto, Lock, queues, switch, ExtAddBroadcast,
     ExtNotify, Unlock
<1>9. ASSUME ScdlStep PROVE TargetInv'
  BY ScdlAssumption, DisjointAssumption, NoTokenAssumption, <1>9 DEF
     ScdlStep, StartInstant, Goto, switch, ScdlLeave, Dead, queues,
     ScdlAwait, IdleLock, Lock, IdleTest, IdleSleep, Unlock, IdleSkip,
     IdleWake, IdleUnlock, BcastLock, BcastBody, Blocked, Parked
<1>10. CASE UNCHANGED vars
  BY <1>10 DEF vars
<1> QED BY <1>1, <1>2, <1>3, <1>4, <1>5, <1>6, <1>7, <1>8, <1>9, <1>10 DEF
   Next

(* Threads enter one queue at a time and leave it when they are chosen.    *)
LEMMA QueuePreserved ==
  TypeOK /\ TokenInv /\ DeadInv /\ AwayInv /\ QueueInv /\ TargetInv /\ [Next]_vars => QueueInv'
<1> SUFFICES ASSUME TypeOK /\ TokenInv /\ DeadInv /\ AwayInv /\ QueueInv /\ TargetInv, [Next]_vars PROVE QueueInv'
  OBVIOUS
<1> USE DEF TypeOK, Procs, Natives, ThreadPC, ScdlPC, ExtPC, WaitPC,
   SwitchPC, AddPC, IdlePC, Coop, CoopPC, TokenInv, QueueInv, TargetInv,
   DeadInv, AwayInv, Away, Targeted, Switching, Dead, Parked
<1>1. ASSUME NEW p \in Procs, WaitStep(p) PROVE QueueInv'
  BY ScdlAssumption, DisjointAssumption, NoTokenAssumption, <1>1 DEF
     WaitStep, WaitLock, Goto, Lock, queues, switch, WaitDone, Unlock,
     WaitMore, WaitSleep, WaitWake
<1>2. ASSUME NEW p \in Procs, SpuriousWakeup(p) PROVE QueueInv'
  BY ScdlAssumption, DisjointAssumption, NoTokenAssumption, <1>2 DEF
     SpuriousWakeup, queues, switch
<1>3. ASSUME NEW p \in Procs, SwitchStep(p) PROVE QueueInv'
  BY ScdlAssumption, DisjointAssumption, NoTokenAssumption, <1>3 DEF
     SwitchStep, NextRunnable, Goto, switch, NextNone, queues, TakeLock,
     Lock, TakeAsync, Unlock, TakeNone, SwitchLock, SwitchSet, SwitchSignal
<1>4. ASSUME NEW t \in Threads, CoopStep(t) PROVE QueueInv'
  BY ScdlAssumption, DisjointAssumption, NoTokenAssumption, <1>4 DEF
     CoopStep, ThreadYield, Leave, Goto, ThreadBlock, ThreadAsynchronize,
     ThreadKill
<1>5. ASSUME NEW t \in Threads, ThreadBroadcast(t) PROVE QueueInv'
  BY ScdlAssumption, DisjointAssumption, NoTokenAssumption, <1>5 DEF
     ThreadBroadcast, Blocked, switch, Parked
<1>6. ASSUME NEW t \in Threads, AsyncStep(t) PROVE QueueInv'
  BY ScdlAssumption, DisjointAssumption, NoTokenAssumption, <1>6 DEF
     AsyncStep, ThunkEnd, Goto, queues, switch, AddLock, Lock,
     AddAsyncRunnable, AddNotify, Unlock
<1>7. ASSUME NEW e \in Externals, ExtStart(e) PROVE QueueInv'
  BY ScdlAssumption, DisjointAssumption, NoTokenAssumption, <1>7 DEF
     ExtStart, Goto, queues, switch
<1>8. ASSUME NEW e \in Externals, ExtStep(e) PROVE QueueInv'
  BY ScdlAssumption, DisjointAssumption, NoTokenAssumption, <1>8 DEF
     ExtStep, ExtLock, Goto, Lock, queues, switch, ExtAddBroadcast,
     ExtNotify, Unlock
<1>9. ASSUME ScdlStep PROVE QueueInv'
  BY ScdlAssumption, DisjointAssumption, NoTokenAssumption, <1>9 DEF
     ScdlStep, StartInstant, Goto, switch, ScdlLeave, Dead, queues,
     ScdlAwait, IdleLock, Lock, IdleTest, IdleSleep, Unlock, IdleSkip,
     IdleWake, IdleUnlock, BcastLock, BcastBody, Blocked, Parked
<1>10. CASE UNCHANGED vars
  BY <1>10 DEF vars
<1> QED BY <1>1, <1>2, <1>3, <1>4, <1>5, <1>6, <1>7, <1>8, <1>9, <1>10 DEF
   Next

-----------------------------------------------------------------------------
LEMMA InitIInv == Init => IInv
  BY ScdlAssumption, DisjointAssumption, NoTokenAssumption, ZenonT(40)
     DEF Init, IInv, SafetyInv, TypeOK, OwnerInv, Holds, TokenInv, TestInv,
         NoLostToken, NoLostNotify, DeadInv, AwayInv, QueueInv, TargetInv,
         Dead, Away, Targeted, Switching, Parked, Coop, CoopPC, Procs,
         Natives, ThreadPC, ScdlPC, ExtPC, WaitPC, SwitchPC, AddPC, IdlePC

LEMMA IInvPreserved == IInv /\ [Next]_vars => IInv'
  BY TypePreserved, OwnerPreserved, TokenPreserved, TestPreserved,
     NoLostTokenPreserved, NoLostNotifyPreserved, DeadPreserved,
     AwayPreserved, QueuePreserved, TargetPreserved DEF IInv, SafetyInv

LEMMA Invariance == Spec => []IInv
  BY InitIInv, IInvPreserved, PTL DEF Spec

(* Every variable of the token protocol keeps its type, whatever the       *)
(* threads, the scheduler and the external native threads do.              *)
THEOREM Typing == Spec => []TypeOK
<1>1. IInv => TypeOK
  BY DEF IInv, SafetyInv
<1> QED BY <1>1, Invariance, PTL

(* Cooperative code is never executed by two native threads at once:       *)
(* %pthread-wait lets nobody through but the process the token names.      *)
THEOREM Exclusion == Spec => []MutualExclusion
<1>1. IInv => MutualExclusion
  BY NoTokenAssumption DEF IInv, SafetyInv, TokenInv, MutualExclusion, Procs
<1> QED BY <1>1, Invariance, PTL

(* %pthread-switch loses no wake-up: a sleeping process that the token     *)
(* names is about to be signalled.                                         *)
THEOREM TokenNotLost == Spec => []NoLostToken
<1>1. IInv => NoLostToken
  BY DEF IInv, SafetyInv
<1> QED BY <1>1, Invariance, PTL

(* no-busy-waiting-next-instant never sleeps over an asynchronous thread   *)
(* or an external signal that nobody is about to notify.                   *)
THEOREM NotifyNotLost == Spec => []NoLostNotify
<1>1. IInv => NoLostNotify
  BY DEF IInv, SafetyInv
<1> QED BY <1>1, Invariance, PTL

-----------------------------------------------------------------------------
(* The steps of the protocol as the baton sees them.                       *)

LEMMA BatonInit == Init => Baton!Init
  BY ScdlAssumption
     DEF Init, Baton!Init, StatusOf, Coop, CoopPC, Parked, Procs, Natives,
         WaitPC, SwitchPC, IdlePC

(* One process changes its status.                                         *)
LEMMA StatusChange ==
  ASSUME NEW p \in Procs, NEW s,
         \A q \in Procs : StatusOf(q)' = IF q = p THEN s ELSE StatusOf(q)
  PROVE  [q \in Procs |-> StatusOf(q)']
           = [[q \in Procs |-> StatusOf(q)] EXCEPT ![p] = s]
  OBVIOUS

LEMMA EnterStep ==
  ASSUME NEW p \in Procs, StatusOf(p) = "parked", token = p, token' = token,
         \A q \in Procs : StatusOf(q)' = IF q = p THEN "coop" ELSE StatusOf(q)
  PROVE  [Baton!Next]_(Baton!vars)
<1>1. Baton!Enter(p)
  BY StatusChange DEF Baton!Enter
<1> QED BY <1>1 DEF Baton!Next

LEMMA ParkStep ==
  ASSUME NEW p \in Procs, StatusOf(p) = "free", token' = token,
         \A q \in Procs : StatusOf(q)' = IF q = p THEN "parked" ELSE StatusOf(q)
  PROVE  [Baton!Next]_(Baton!vars)
<1>1. Baton!Park(p)
  BY StatusChange DEF Baton!Park
<1> QED BY <1>1 DEF Baton!Next

LEMMA PassStep ==
  ASSUME NEW p \in Procs, NEW q \in Procs, StatusOf(p) = "coop",
         StatusOf(q) # "dead", token' = q,
         NEW s \in {"parked", "free", "dead"},
         \A r \in Procs : StatusOf(r)' = IF r = p THEN s ELSE StatusOf(r)
  PROVE  [Baton!Next]_(Baton!vars)
<1>1. [r \in Procs |-> StatusOf(r)']
        = [[r \in Procs |-> StatusOf(r)] EXCEPT ![p] = s]
  BY StatusChange
<1>2. Baton!Pass(p, q)
  BY <1>1 DEF Baton!Pass, Baton!Status
<1> QED BY <1>2 DEF Baton!Next

LEMMA BatonStep ==
  IInv /\ [Next]_vars => [Baton!Next]_(Baton!vars)
<1> SUFFICES ASSUME IInv, [Next]_vars PROVE [Baton!Next]_(Baton!vars)
  OBVIOUS
<1> USE DEF TypeOK, Procs, Natives, ThreadPC, ScdlPC, ExtPC, WaitPC,
   SwitchPC, AddPC, IdlePC, StatusOf, Coop, CoopPC, Parked, Dead, IInv,
   SafetyInv, TokenInv, DeadInv, AwayInv, TargetInv, Switching
<1>1. ASSUME NEW p \in Procs, WaitStep(p) PROVE [Baton!Next]_(Baton!vars)
  <2>1. CASE WaitLock(p)
    BY ScdlAssumption, DisjointAssumption, NoTokenAssumption, <2>1 DEF Baton!vars,
       WaitLock, Goto, queues, switch
  <2>2. CASE WaitDone(p)
    <3>1. /\ StatusOf(p) = "parked" /\ token = p /\ token' = token
          /\ \A q \in Procs :
               StatusOf(q)' = IF q = p THEN "coop" ELSE StatusOf(q)
      BY ScdlAssumption, DisjointAssumption, <2>2 DEF WaitDone, Goto, switch
    <3> QED BY ONLY p \in Procs, <3>1, EnterStep
  <2>3. CASE WaitMore(p)
    BY ScdlAssumption, DisjointAssumption, NoTokenAssumption, <2>3 DEF Baton!vars,
       WaitMore, Goto, queues, switch
  <2>4. CASE WaitSleep(p)
    BY ScdlAssumption, DisjointAssumption, NoTokenAssumption, <2>4 DEF Baton!vars,
       WaitSleep, Goto, queues, switch
  <2>5. CASE WaitWake(p)
    BY ScdlAssumption, DisjointAssumption, NoTokenAssumption, <2>5 DEF Baton!vars,
       WaitWake, Goto, queues, switch
  <2> QED BY <1>1, <2>1, <2>2, <2>3, <2>4, <2>5 DEF WaitStep
<1>2. ASSUME NEW p \in Procs, SpuriousWakeup(p) PROVE [Baton!Next]_(Baton!vars)
  BY ScdlAssumption, DisjointAssumption, NoTokenAssumption, <1>2 DEF Baton!vars,
     SpuriousWakeup, queues, switch
<1>3. ASSUME NEW p \in Procs, SwitchStep(p) PROVE [Baton!Next]_(Baton!vars)
  <2>1. CASE NextRunnable(p)
    BY ScdlAssumption, DisjointAssumption, NoTokenAssumption, <2>1 DEF Baton!vars,
       NextRunnable, Goto, switch
  <2>2. CASE NextNone(p)
    BY ScdlAssumption, DisjointAssumption, NoTokenAssumption, <2>2 DEF Baton!vars,
       NextNone, Goto, queues, switch
  <2>3. CASE TakeLock(p)
    BY ScdlAssumption, DisjointAssumption, NoTokenAssumption, <2>3 DEF Baton!vars,
       TakeLock, Goto, queues, switch
  <2>4. CASE TakeAsync(p)
    BY ScdlAssumption, DisjointAssumption, NoTokenAssumption, <2>4 DEF Baton!vars,
       TakeAsync, Goto, switch
  <2>5. CASE TakeNone(p)
    BY ScdlAssumption, DisjointAssumption, NoTokenAssumption, <2>5 DEF Baton!vars,
       TakeNone, Goto, queues, switch
  <2>6. CASE SwitchLock(p)
    BY ScdlAssumption, DisjointAssumption, NoTokenAssumption, <2>6 DEF Baton!vars,
       SwitchLock, Goto, queues, switch
  <2>7. CASE SwitchSet(p)
    <3> DEFINE how == IF after[p] = "wait.lock" THEN "parked"
                      ELSE IF after[p] = "thunk" THEN "free" ELSE "dead"
    <3>1. /\ StatusOf(p) = "coop" /\ next[p] \in Procs
          /\ StatusOf(next[p]) # "dead" /\ token' = next[p]
      BY ScdlAssumption, DisjointAssumption, NoTokenAssumption, <2>7
         DEF Baton!vars, SwitchSet, Goto, switch
    <3>2. how \in {"parked", "free", "dead"}
      OBVIOUS
    <3>3. \A q \in Procs : StatusOf(q)' = IF q = p THEN how ELSE StatusOf(q)
      BY ScdlAssumption, DisjointAssumption, <2>7 DEF SwitchSet, Goto, switch
    <3> HIDE DEF how
    <3> QED BY ONLY p \in Procs, <3>1, <3>2, <3>3, PassStep
  <2>8. CASE SwitchSignal(p)
    BY ScdlAssumption, DisjointAssumption, NoTokenAssumption, <2>8 DEF Baton!vars,
       SwitchSignal, Goto, queues, switch
  <2> QED BY <1>3, <2>1, <2>2, <2>3, <2>4, <2>5, <2>6, <2>7, <2>8 DEF
     SwitchStep
<1>4. ASSUME NEW t \in Threads, CoopStep(t) PROVE [Baton!Next]_(Baton!vars)
  BY ScdlAssumption, DisjointAssumption, NoTokenAssumption, <1>4 DEF Baton!vars,
     CoopStep, ThreadYield, Leave, Goto, ThreadBlock, ThreadAsynchronize,
     ThreadKill
<1>5. ASSUME NEW t \in Threads, ThreadBroadcast(t) PROVE [Baton!Next]_(Baton!vars)
  BY ScdlAssumption, DisjointAssumption, NoTokenAssumption, <1>5 DEF Baton!vars,
     ThreadBroadcast, Blocked, switch, Parked
<1>6. ASSUME NEW t \in Threads, AsyncStep(t) PROVE [Baton!Next]_(Baton!vars)
  <2>1. CASE ThunkEnd(t)
    BY ScdlAssumption, DisjointAssumption, NoTokenAssumption, <2>1 DEF Baton!vars,
       ThunkEnd, Goto, queues, switch
  <2>2. CASE AddLock(t)
    BY ScdlAssumption, DisjointAssumption, NoTokenAssumption, <2>2 DEF Baton!vars,
       AddLock, Goto, queues, switch
  <2>3. CASE AddAsyncRunnable(t)
    BY ScdlAssumption, DisjointAssumption, NoTokenAssumption, <2>3 DEF Baton!vars,
       AddAsyncRunnable, Goto, switch
  <2>4. CASE AddNotify(t)
    <3>1. /\ StatusOf(t) = "free" /\ token' = token
          /\ \A q \in Procs :
               StatusOf(q)' = IF q = t THEN "parked" ELSE StatusOf(q)
      BY ScdlAssumption, DisjointAssumption, <2>4
         DEF AddNotify, Goto, switch, queues
    <3>2. t \in Procs
      OBVIOUS
    <3> QED BY ONLY <3>1, <3>2, ParkStep
  <2> QED BY <1>6, <2>1, <2>2, <2>3, <2>4 DEF AsyncStep
<1>7. ASSUME NEW e \in Externals, ExtStart(e) PROVE [Baton!Next]_(Baton!vars)
  BY ScdlAssumption, DisjointAssumption, NoTokenAssumption, <1>7 DEF Baton!vars,
     ExtStart, Goto, queues, switch
<1>8. ASSUME NEW e \in Externals, ExtStep(e) PROVE [Baton!Next]_(Baton!vars)
  BY ScdlAssumption, DisjointAssumption, NoTokenAssumption, <1>8 DEF Baton!vars,
     ExtStep, ExtLock, Goto, queues, switch, ExtAddBroadcast, ExtNotify
<1>9. ASSUME ScdlStep PROVE [Baton!Next]_(Baton!vars)
  BY ScdlAssumption, DisjointAssumption, NoTokenAssumption, <1>9 DEF Baton!vars,
     ScdlStep, StartInstant, Goto, switch, ScdlLeave, Dead, queues,
     ScdlAwait, IdleLock, IdleTest, IdleSleep, IdleSkip, IdleWake,
     IdleUnlock, BcastLock, BcastBody, Blocked, Parked
<1>10. CASE UNCHANGED vars
  BY <1>10 DEF vars, Baton!vars
<1> QED BY <1>1, <1>2, <1>3, <1>4, <1>5, <1>6, <1>7, <1>8, <1>9, <1>10 DEF
   Next

(* The token protocol implements the baton of FairBaton: the token moves   *)
(* from the process that executes cooperative code to a live one, which    *)
(* alone enters cooperative code.                                          *)
THEOREM Refinement == Spec => BatonSpec
  BY BatonInit, BatonStep, Invariance, PTL DEF Spec, BatonSpec, Baton!Spec
=============================================================================
