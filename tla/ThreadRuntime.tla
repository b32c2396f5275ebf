---------------------------- MODULE ThreadRuntime ----------------------------
(***************************************************************************)
(* The services that the runtime gives to threads: the mutexes and         *)
(* condition variables of runtime/Clib/cthread.c, which do nothing until   *)
(* the pthread library registers those of api/pthread/src/Posix            *)
(* (bglpmutex.c, bglpcondvar.c), and the dynamic environments.  A mutex is *)
(* unlocked by the thread that has locked it.                              *)
(***************************************************************************)
EXTENDS Integers, FiniteSets, Sequences

CONSTANTS
  Tasks,      \* threads
  Mutexes,
  NoTask,
  MaxDepth    \* bound on locking again what one holds

VARIABLES
  probes,     \* BGL_POSIX_CONDV_TIMEDWAIT: mutex-state probes the pthread_mutex
  ready,      \* the pthread library has registered its constructors
  kind,       \* the functions of each mutex: "none" (not made), "nothread", "pthread", "spin"
  holder,     \* who holds each pthread_mutex
  count,      \* how many times
  locked,     \* the field locked, in a build that does not probe
  at,         \* what each task is doing, and to which lock
  depth,      \* auxiliary: how many times each task believes it has each lock
  free, held, \* auxiliary: what was true of the lock during a call of mutex-state
  said        \* auxiliary: the answer of the last mutex-state of each task

(* NoTask is no thread.                                                    *)
TaskConstants == NoTask \notin Tasks /\ MaxDepth \in Nat

lockVars == <<probes, ready, kind, holder, count, locked, at, depth, free, held, said>>

Running == [pc |-> "run"]
Doing(pc, l) == [pc |-> pc, lock |-> l]
Runs(t) == at[t] = Running
Is(t, pc, l) == at[t] = Doing(pc, l)

InitLocks ==
  /\ probes \in BOOLEAN
  /\ ready = FALSE
  /\ kind = [l \in Mutexes |-> "none"]
  /\ holder = [l \in Mutexes |-> NoTask]
  /\ count = [l \in Mutexes |-> 0]
  /\ locked = [l \in Mutexes |-> 0]
  /\ at = [t \in Tasks |-> Running]
  /\ depth = [t \in Tasks |-> [l \in Mutexes |-> 0]]
  /\ free = [t \in Tasks |-> FALSE]
  /\ held = [t \in Tasks |-> FALSE]
  /\ said = [t \in Tasks |-> "nothing"]

-----------------------------------------------------------------------------
(* bglpth_setup_mutex: from now on mutexes are pthread mutexes.            *)
BglMutexInitRegister ==
  /\ ~ ready
  /\ ready' = TRUE
  /\ UNCHANGED <<probes, kind, holder, count, locked, at, depth, free, held, said>>

Make(l, k) ==
  /\ kind[l] = "none"
  /\ kind' = [kind EXCEPT ![l] = k]
  /\ UNCHANGED <<probes, ready, holder, count, locked, at, depth, free, held, said>>

(* make-mutex, make-spinlock.                                              *)
BglMakeMutex(l) == Make(l, IF ready THEN "pthread" ELSE "nothread")
BglMakeSpinlock(l) == Make(l, IF ready THEN "spin" ELSE "nothread")

-----------------------------------------------------------------------------
(* pthread_mutex_lock succeeds at once: PTHREAD_MUTEX_RECURSIVE.           *)
Lockable(t, l) ==
  \/ holder[l] = NoTask
  \/ holder[l] = t /\ kind[l] = "pthread"

Acquire(t, l) ==
  /\ holder' = [holder EXCEPT ![l] = t]
  /\ count' = [count EXCEPT ![l] = @ + 1]

Release(l) ==
  /\ count' = [count EXCEPT ![l] = @ - 1]
  /\ holder' = [holder EXCEPT ![l] = IF count[l] = 1 THEN NoTask ELSE @]

Believe(t, l, d) == depth' = [depth EXCEPT ![t][l] = @ + d]

(* The rest of a call that has acquired l: without probes locked is        *)
(* incremented by a later instruction.                                     *)
HasLocked(t, l) ==
  IF probes \/ kind[l] = "spin"
  THEN Believe(t, l, 1) /\ UNCHANGED at
  ELSE at' = [at EXCEPT ![t] = Doing("locked++", l)] /\ UNCHANGED depth

BglpthMutexLock(t, l) ==
  /\ Runs(t) /\ kind[l] \in {"pthread", "spin"} /\ depth[t][l] < MaxDepth
  /\ Lockable(t, l)
  /\ Acquire(t, l) /\ HasLocked(t, l)
  /\ UNCHANGED <<probes, ready, kind, locked, free, held, said>>

(* Mutant: a lock that comes too late is believed.                         *)
TimedLockBelieved(t, l) ==
  /\ Runs(t) /\ kind[l] = "pthread" /\ depth[t][l] < MaxDepth
  /\ IF Lockable(t, l)
     THEN Acquire(t, l) /\ HasLocked(t, l)
     ELSE Believe(t, l, 1) /\ UNCHANGED <<holder, count, at>>
  /\ UNCHANGED <<probes, ready, kind, locked, free, held, said>>

(* mutex-lock! with a timeout, and a trylock, of a mutex that somebody     *)
(* holds: they fail, sooner or later.                                      *)
BglpthMutexTimedLock(t, l) ==
  /\ Runs(t) /\ kind[l] = "pthread" /\ depth[t][l] < MaxDepth
  /\ IF Lockable(t, l)
     THEN Acquire(t, l) /\ HasLocked(t, l)
     ELSE UNCHANGED <<holder, count, at, depth>>
  /\ UNCHANGED <<probes, ready, kind, locked, free, held, said>>

LockedIncremented(t, l) ==
  /\ Is(t, "locked++", l)
  /\ locked' = [locked EXCEPT ![l] = @ + 1]
  /\ Believe(t, l, 1)
  /\ at' = [at EXCEPT ![t] = Running]
  /\ UNCHANGED <<probes, ready, kind, holder, count, free, held, said>>

(* Mutant: an unlock leaves the count of a mutex as it is.                 *)
UnlockKeepsCount(t, l) ==
  /\ Runs(t) /\ kind[l] \in {"pthread", "spin"} /\ depth[t][l] > 0
  /\ Believe(t, l, -1)
  /\ at' = [at EXCEPT ![t] = Doing("unlock", l)]
  /\ UNCHANGED <<probes, ready, kind, holder, count, locked, free, held, said>>

(* mutex-unlock!: locked is decremented first.                             *)
BglpthMutexUnlock(t, l) ==
  /\ Runs(t) /\ kind[l] \in {"pthread", "spin"} /\ depth[t][l] > 0
  /\ Believe(t, l, -1)
  /\ at' = [at EXCEPT ![t] = Doing("unlock", l)]
  /\ locked' = IF probes \/ kind[l] = "spin" THEN locked ELSE [locked EXCEPT ![l] = @ - 1]
  /\ UNCHANGED <<probes, ready, kind, holder, count, free, held, said>>

PthreadMutexUnlock(t, l) ==
  /\ Is(t, "unlock", l)
  /\ Release(l)
  /\ at' = [at EXCEPT ![t] = Running]
  /\ UNCHANGED <<probes, ready, kind, locked, depth, free, held, said>>

(* A mutex made before the library was there: every lock succeeds, every   *)
(* lock with a timeout fails.                                              *)
BglActDefault(t, l) ==
  /\ Runs(t) /\ kind[l] = "nothread"
  /\ \/ depth[t][l] < MaxDepth /\ Believe(t, l, 1)
     \/ depth[t][l] > 0 /\ Believe(t, l, -1)
  /\ UNCHANGED <<probes, ready, kind, holder, count, locked, at, free, held, said>>

-----------------------------------------------------------------------------
Taken(l) == \E t \in Tasks : depth[t][l] > 0

Answer(t, state) ==
  /\ said' = [said EXCEPT ![t] = state]
  /\ at' = [at EXCEPT ![t] = Running]

(* mutex-state without probes.  A waiting task counts.                     *)
StateByCount(t, l) ==
  /\ ~ probes /\ Runs(t) /\ kind[l] = "pthread"
  /\ Answer(t, IF locked[l] > 0 THEN "locked" ELSE "unlocked")
  /\ free' = [free EXCEPT ![t] = ~ Taken(l)]
  /\ held' = [held EXCEPT ![t] = Taken(l)]
  /\ UNCHANGED <<probes, ready, kind, holder, count, locked, depth>>

(* bglpth_mutex_state with probes: trylock, unlock, then a wait that is    *)
(* over before it starts, which only the holder may call.                  *)
BglpthMutexState(t, l) ==
  /\ probes /\ Runs(t) /\ kind[l] = "pthread"
  /\ free' = [free EXCEPT ![t] = holder[l] = NoTask]
  /\ held' = [held EXCEPT ![t] = holder[l] # NoTask]
  /\ IF Lockable(t, l)
     THEN /\ Acquire(t, l)
          /\ at' = [at EXCEPT ![t] = Doing("unprobe", l)]
          /\ UNCHANGED said
     ELSE Answer(t, "locked") /\ UNCHANGED <<holder, count>>
  /\ UNCHANGED <<probes, ready, kind, locked, depth>>

StateUnlocks(t, l) ==
  /\ Is(t, "unprobe", l)
  /\ Release(l)
  /\ at' = [at EXCEPT ![t] = Doing("probe", l)]
  /\ UNCHANGED <<probes, ready, kind, locked, depth, free, held, said>>

(* Mutant: EPERM is taken for a held mutex.                                *)
StateInverted(t, l) ==
  /\ Is(t, "probe", l)
  /\ IF holder[l] = t
     THEN Release(l) /\ at' = [at EXCEPT ![t] = Doing("reprobe", l)] /\ UNCHANGED said
     ELSE Answer(t, "locked") /\ UNCHANGED <<holder, count>>
  /\ UNCHANGED <<probes, ready, kind, locked, depth, free, held>>

(* pthread_cond_timedwait: EPERM, or the mutex is released once...         *)
StateWaits(t, l) ==
  /\ Is(t, "probe", l)
  /\ IF holder[l] = t
     THEN Release(l) /\ at' = [at EXCEPT ![t] = Doing("reprobe", l)] /\ UNCHANGED said
     ELSE Answer(t, "unlocked") /\ UNCHANGED <<holder, count>>
  /\ UNCHANGED <<probes, ready, kind, locked, depth, free, held>>

(* ... and taken again: ETIMEDOUT.                                         *)
StateTimedOut(t, l) ==
  /\ Is(t, "reprobe", l) /\ Lockable(t, l)
  /\ Acquire(t, l)
  /\ Answer(t, "locked")
  /\ UNCHANGED <<probes, ready, kind, locked, depth, free, held>>

-----------------------------------------------------------------------------
(* condition-variable-wait!: pthread_cond_wait releases the mutex once;    *)
(* locked does not change.  A mutex locked twice stays locked.             *)
BglpthCondvarWait(t, l) ==
  /\ Runs(t) /\ kind[l] = "pthread" /\ depth[t][l] > 0
  /\ Release(l)
  /\ at' = [at EXCEPT ![t] = Doing("wait", l)]
  /\ UNCHANGED <<probes, ready, kind, locked, depth, free, held, said>>

(* A signal, a broadcast, the timeout: the mutex is taken again.           *)
BglpthCondvarWoken(t, l) ==
  /\ Is(t, "wait", l) /\ Lockable(t, l)
  /\ Acquire(t, l)
  /\ at' = [at EXCEPT ![t] = Running]
  /\ UNCHANGED <<probes, ready, kind, locked, depth, free, held, said>>

(* bglpth_condvar_timed_wait adds milliseconds without a carry: the call   *)
(* refuses a tv_nsec of a second or more before it releases the mutex, and *)
(* nothing changes.  The condition variables of cthread.c never wait.      *)
BglpthCondvarTimedWait(t, l) ==
  BglpthCondvarWait(t, l) \/ (Runs(t) /\ depth[t][l] > 0 /\ UNCHANGED lockVars)

LockNext ==
  \/ BglMutexInitRegister
  \/ \E l \in Mutexes :
     \/ BglMakeMutex(l) \/ BglMakeSpinlock(l)
     \/ \E t \in Tasks :
        \/ BglpthMutexLock(t, l) \/ BglpthMutexTimedLock(t, l) \/ LockedIncremented(t, l)
        \/ BglpthMutexUnlock(t, l) \/ PthreadMutexUnlock(t, l) \/ BglActDefault(t, l)
        \/ StateByCount(t, l) \/ BglpthMutexState(t, l) \/ StateUnlocks(t, l)
        \/ StateWaits(t, l) \/ StateTimedOut(t, l)
        \/ BglpthCondvarTimedWait(t, l) \/ BglpthCondvarWoken(t, l)

-----------------------------------------------------------------------------
(* A task that waits, or asks the state of what it holds, has let go of    *)
(* the mutex for a while.                                                  *)
Inside(t, l) == depth[t][l] > 0 /\ ~ Is(t, "wait", l) /\ ~ Is(t, "reprobe", l)

(* Two tasks are never inside the same mutex, once the library is there; a *)
(* task that believes it is outside does not hold it; and what mutex-state *)
(* answers was true at some moment of the call.  The exceptions are the    *)
(* code's: mutex-state lets go of a mutex that its caller holds, a mutex   *)
(* made too early excludes nobody, and without probes a mutex counts as    *)
(* locked by those who wait.                                               *)
MutexesExact ==
  /\ \A l \in Mutexes : kind[l] # "nothread" =>
       /\ Cardinality({t \in Tasks : Inside(t, l)}) <= 1
       /\ \A t \in Tasks : Inside(t, l) => holder[l] = t
       /\ holder[l] # NoTask /\ Runs(holder[l]) => count[l] = depth[holder[l]][l]
       /\ kind[l] = "pthread" /\ ~ probes => (locked[l] > 0 <=> Taken(l))
  /\ \A t \in Tasks : Runs(t) => /\ said[t] = "unlocked" => free[t]
                                 /\ said[t] = "locked" => held[t]
-----------------------------------------------------------------------------
(* Dynamic environments: structures shared by reference, one per thread.   *)

CONSTANT
  EnvValues   \* what a program stores in its environment

VARIABLES
  heap,       \* the environments made so far
  local,      \* the environment of each thread that runs
  given,      \* the environment in the structure of a thread that was started
  expected    \* auxiliary: what each thread must find

envVars == <<heap, local, given, expected>>

NoEnv == 0
Default == "unspecified"

(* The fields that bgl_dup_dynamic_env copies (ports, display, interrupt   *)
(* notifier, module, signal handlers...), those that it leaves fresh (exit *)
(* and error handlers, traces, multiple values, parameters...), and        *)
(* current_thread.                                                         *)
MakeDynamicEnv == [copied |-> Default, fresh |-> Default, thread |-> NoTask]

BglDupDynamicEnv(o) ==
  [MakeDynamicEnv EXCEPT !.copied = o.copied, !.thread = o.thread]

InitEnvs ==
  \E main \in Tasks :
    /\ heap = <<[MakeDynamicEnv EXCEPT !.thread = main]>>
    /\ local = [t \in Tasks |-> IF t = main THEN 1 ELSE NoEnv]
    /\ given = local
    /\ expected = [t \in Tasks |-> heap[1]]

(* Mutant: a thread gets the environment of its creator.                   *)
EnvShared(c, t) ==
  /\ local[c] # NoEnv /\ given[t] = NoEnv
  /\ given' = [given EXCEPT ![t] = local[c]]
  /\ expected' = [expected EXCEPT ![t] = [BglDupDynamicEnv(expected[c]) EXCEPT !.thread = t]]
  /\ UNCHANGED <<heap, local>>

(* The environment of t, made by the thread that starts it.                *)
BglpthThreadEnvCreate(c, t) ==
  /\ local[c] # NoEnv /\ given[t] = NoEnv
  /\ heap' = Append(heap, BglDupDynamicEnv(heap[local[c]]))
  /\ given' = [given EXCEPT ![t] = Len(heap) + 1]
  /\ expected' = [expected EXCEPT ![t] = [BglDupDynamicEnv(expected[c]) EXCEPT !.thread = t]]
  /\ UNCHANGED local

(* bglpth_thread_init and bglpth_dynamic_env_set, by the new thread.       *)
BglpthThreadInit(t) ==
  /\ local[t] = NoEnv /\ given[t] # NoEnv
  /\ local' = [local EXCEPT ![t] = given[t]]
  /\ heap' = [heap EXCEPT ![given[t]].thread = t]
  /\ UNCHANGED <<given, expected>>

(* The program changes a field.                                            *)
EnvSet(t, v) ==
  /\ local[t] # NoEnv
  /\ \/ /\ heap' = [heap EXCEPT ![local[t]].copied = v]
        /\ expected' = [expected EXCEPT ![t].copied = v]
     \/ /\ heap' = [heap EXCEPT ![local[t]].fresh = v]
        /\ expected' = [expected EXCEPT ![t].fresh = v]
  /\ UNCHANGED <<local, given>>

EnvNext ==
  \E t \in Tasks : \/ \E c \in Tasks : BglpthThreadEnvCreate(c, t)
                    \/ BglpthThreadInit(t)
                    \/ \E v \in EnvValues : EnvSet(t, v)

(* A thread finds in its environment what it stored there itself, else     *)
(* what its creator had when it started it, or a fresh value: never what   *)
(* another thread stores meanwhile.                                        *)
EnvironmentsOwn == \A t \in Tasks : local[t] # NoEnv => heap[local[t]] = expected[t]
-----------------------------------------------------------------------------
(* Both at once: locks and environments share no state.                    *)
threadVars == <<lockVars, envVars>>
ThreadSpec ==
  /\ InitLocks /\ InitEnvs
  /\ [][(LockNext /\ UNCHANGED envVars) \/ (EnvNext /\ UNCHANGED lockVars)]_threadVars

(* The locks of the runtime exclude, and threads have environments of      *)
(* their own.                                                              *)
LocksExact == MutexesExact /\ EnvironmentsOwn
=============================================================================
