----------------------------- MODULE FairThreads -----------------------------
(***************************************************************************)
(* The fair scheduler of api/fthread: instants, run queues, signals,       *)
(* timeouts, suspension, termination and asynchronous signals, as          *)
(* _scheduler.scm, _thread.scm, thread.scm, scheduler.scm, signal.scm and  *)
(* env.scm implement them.                                                 *)
(*                                                                         *)
(* Cooperative code is sequential (FairToken): one action is what the      *)
(* process with the token does between two points where it either gives    *)
(* control to user code or to another process.  Native threads outside of  *)
(* the scheduler only touch tobroadcast and async-runnable, under a mutex. *)
(* Instants are numbered in the code; here a signal remembers whether it   *)
(* was emitted "now", at the previous instant ("prev"), before ("old") or  *)
(* "never", which is all that the comparisons of stamps tell apart.        *)
(***************************************************************************)
EXTENDS Integers, Sequences, SequencesExt

CONSTANTS
  Threads,      \* fair threads, numbered by %ident
  Signals,      \* ordinary signals
  Asyncs,       \* signals of make-asynchronous-signal
  Scdl,         \* the scheduler, and the main program that runs it
  Programs,     \* what the programs of a run do, see ProgramAssumption
  MaxTimeout,   \* bound on the timeouts programs use
  MaxTimers,    \* bound on threads-timeout, which may hold duplicates
  MaxVals,      \* bound on the values of a signal in one instant
  MaxPending    \* bound on tobroadcast and on tosuspend/resume

ASSUME IdentAssumption == Threads \subseteq Nat

ASSUME BoundAssumption ==
  /\ MaxTimeout \in Nat \ {0} /\ MaxVals \in Nat \ {0}
  /\ MaxTimers \in Nat /\ MaxPending \in Nat

(* Thread t, as a signal, is the %sigjoin that its termination emits.      *)
Ids == Signals \cup Asyncs \cup Threads

VARIABLES
  program,      \* the program that is run, fixed at the start
  token,        \* the process that executes cooperative code
  phase,        \* where the scheduler is in %schedule-instant
  mode,         \* how it was entered: react, iterate (a number of
                \* instants), until (a predicate holds) or start
  switching,    \* the token's owner is about to choose the next thread
  pc,           \* what each thread is doing
  on,           \* the signals a blocked thread asked for
  state,        \* %state
  exc,          \* %exc-result: "none", "uncaught" or "terminated"
  timeout,      \* %timeout
  suspend,      \* %is-suspend
  signals,      \* %signals: the signals a thread is registered on
  awake,        \* %awake-signal
  runnable,     \* threads-runnable
  lastPair,     \* threads-runnable-last-pair: "nil", "tail" (of runnable)
                \* or "stale" (a pair of a list that is not runnable)
  yield,        \* threads-yield
  timers,       \* threads-timeout
  saved,        \* the two lists %terminate-threads restores
  ready,        \* %threads-ready
  live,         \* %live-thread-number
  tostart, toterminate,
  tosuspend,    \* tosuspend/resume
  tobroadcast,  \* signals emitted from outside
  asyncRunnable,\* async-runnable
  env,          \* %signals of the environment
  lastEnv,      \* %last-signals of the environment
  kept,         \* the signal objects that are in both
  body,         \* the body of an asynchronous signal: "none" before the
                \* signal is made, "tospawn", run by the "thread" that
                \* awaits it or by a "native" thread, or "ended"
  count,        \* auxiliary: how often each signal was emitted now
  lastCount,    \* auxiliary: and at the previous instant
  heard,        \* auxiliary: a signal of on was emitted since t blocked
  left          \* auxiliary: instants left in a yield or sleep (-1: late)

thread == <<pc, on, state, exc, timeout, suspend, signals, awake>>
queues == <<runnable, lastPair, yield, timers, saved, ready, live>>
requests == <<tostart, toterminate, tosuspend>>
outside == <<tobroadcast, asyncRunnable, body>>
envs == <<env, lastEnv, kept>>
aux == <<count, lastCount, heard, left>>
control == <<program, token, phase, mode, switching>>

vars == <<control, thread, queues, requests, outside, envs, aux>>

Unbound == [vals |-> 0, stamp |-> "unbound", waiters |-> <<>>]
Stamps == {"now", "prev", "old", "never"}

Ops == {"yield", "sleep", "await", "awaitN", "await*", "await*N", "await*0",
        "join", "broadcast", "start", "terminate", "suspend", "end", "raise",
        "async", "outside"}

(* A program: can[p] are the operations that p uses, modes how the main    *)
(* program runs the scheduler, and strict is strict-order?.                *)
ASSUME ProgramAssumption ==
  \A name \in DOMAIN Programs :
    /\ Programs[name].can \in [Threads \cup {Scdl} -> SUBSET Ops]
    /\ Programs[name].modes \subseteq {"react", "iterate", "until", "start"}
    /\ Programs[name].strict \in BOOLEAN

Can == Programs[program].can
Modes == Programs[program].modes
StrictOrder == Programs[program].strict

Waits == {"yield", "sleep", "await", "awaitN", "await*", "await*N"}
PCs == Waits \cup {"new", "boot", "run", "thunk", "back", "exit", "kill", "gone"}
Phases == {"out", "init", "terminate", "restore", "suspend", "select", "start",
           "broadcast", "react", "spawn", "next", "idle"}
States == {"unattached", "started", "toterminate", "terminated", "dead"}

TypeOK ==
  /\ program \in DOMAIN Programs
  /\ token \in Threads \cup {Scdl}
  /\ phase \in Phases
  /\ mode \in {"react", "iterate", "until", "start"}
  /\ switching \in BOOLEAN
  /\ pc \in [Threads -> PCs]
  /\ on \in [Threads -> SUBSET Ids]
  /\ state \in [Threads -> States]
  /\ exc \in [Threads -> {"none", "uncaught", "terminated"}]
  /\ timeout \in [Threads -> 0 .. MaxTimeout]
  /\ suspend \in [Threads -> BOOLEAN]
  /\ signals \in [Threads -> SUBSET Ids]
  /\ awake \in [Threads -> Ids \cup {Scdl}]
  /\ \A q \in {runnable, yield, timers, tostart, toterminate, asyncRunnable} :
       q \in Seq(Threads)
  /\ lastPair \in {"nil", "tail", "stale"}
  /\ saved.yield \in Seq(Threads) /\ saved.timers \in Seq(Threads)
  /\ ready \in BOOLEAN
  /\ live \in Nat
  /\ tosuspend \in Seq(Threads \X BOOLEAN)
  /\ tobroadcast \in Seq(Signals \cup Asyncs)
  /\ \A e \in {env, lastEnv} : \A i \in Ids :
       e[i] # Unbound => /\ e[i].vals \in Nat
                         /\ e[i].stamp \in Stamps
                         /\ e[i].waiters \in Seq(Threads)
  /\ kept \in SUBSET Ids
  /\ body \in [Asyncs -> {"none", "tospawn", "thread", "native", "ended"}]
  /\ count \in [Ids -> Nat] /\ lastCount \in [Ids -> Nat]
  /\ heard \in [Threads -> BOOLEAN]
  /\ left \in [Threads -> -1 .. MaxTimeout]

(* The scheduler has been created and not entered; no thread is attached.  *)
Init ==
  /\ program \in DOMAIN Programs
  /\ token = Scdl /\ phase = "out" /\ mode = "react" /\ switching = FALSE
  /\ pc = [t \in Threads |-> "new"]
  /\ on = [t \in Threads |-> {}]
  /\ state = [t \in Threads |-> "unattached"]
  /\ exc = [t \in Threads |-> "none"]
  /\ timeout = [t \in Threads |-> 1]
  /\ suspend = [t \in Threads |-> FALSE]
  /\ signals = [t \in Threads |-> {}]
  /\ awake = [t \in Threads |-> Scdl]
  /\ runnable = <<>> /\ lastPair = "nil" /\ yield = <<>> /\ timers = <<>>
  /\ saved = [yield |-> <<>>, timers |-> <<>>]
  /\ ready = FALSE /\ live = 0
  /\ tostart = <<>> /\ toterminate = <<>> /\ tosuspend = <<>>
  /\ tobroadcast = <<>> /\ asyncRunnable = <<>> /\ body = [s \in Asyncs |-> "none"]
  /\ env = [i \in Ids |-> Unbound] /\ lastEnv = env /\ kept = {}
  /\ count = [i \in Ids |-> 0] /\ lastCount = count
  /\ heard = [t \in Threads |-> FALSE]
  /\ left = [t \in Threads |-> 0]

-----------------------------------------------------------------------------
(* The environment and its signals (env.scm, signal.scm).                  *)

(* signal-lookup: the signal is present, i.e. emitted at this instant.     *)
Present(i) == env[i] # Unbound /\ env[i].stamp = "now"

(* signal-last-values, as a number of values.                              *)
LastValues(i) ==
  LET o == IF i \in kept THEN env[i] ELSE lastEnv[i]
  IN  IF o # Unbound /\ o.stamp = "prev" THEN o.vals ELSE 0

Without(q, S) == SelectSeq(q, LAMBDA t : t \notin S)

LastPairOf(q) == IF q = <<>> THEN "nil" ELSE "tail"

(* Mutant: the threads stay in the lists of the other signals.             *)
UnbindNone(e, S) == e

(* signal-unbind-thread! of the threads of S from all their signals.       *)
Unbind(e, S) ==
  [i \in Ids |->
    [e[i] EXCEPT !.waiters =
       SelectSeq(@, LAMBDA t : ~ (t \in S /\ i \in signals[t]))]]

(* signal-register-thread! on every signal of ids.                         *)
Register(t, ids) ==
  /\ env' = [i \in Ids |->
       IF i \notin ids THEN env[i]
       ELSE IF env[i] # Unbound
            THEN [env[i] EXCEPT !.waiters = <<t>> \o @]
            ELSE [vals |-> 0, stamp |-> "never", waiters |-> <<t>>]]
  /\ signals' = [signals EXCEPT ![t] = @ \cup ids]

(* Mutant: the awaken threads always replace threads-runnable.             *)
AwakeReplacing(ths) ==
  /\ timeout' = [t \in Threads |-> IF t \in ToSet(ths) THEN 1 ELSE timeout[t]]
  /\ runnable' = IF ths = <<>> THEN runnable ELSE ths
  /\ lastPair' = LastPairOf(runnable')

(* %thread-awake! of the threads ths, one after the other: they go behind  *)
(* threads-runnable-last-pair if there is one, else they replace           *)
(* threads-runnable.                                                       *)
Awake(ths) ==
  /\ timeout' = [t \in Threads |-> IF t \in ToSet(ths) THEN 1 ELSE timeout[t]]
  /\ runnable' = CASE lastPair = "tail" -> runnable \o ths
                   [] lastPair = "nil" /\ ths # <<>> -> ths
                   [] OTHER -> runnable
  /\ lastPair' = IF lastPair = "nil" THEN LastPairOf(ths) ELSE lastPair

(* Mutants: the emission is stamped with the previous instant; the first   *)
(* signal that awakes a thread is never replaced.                          *)
EmittedLate(o) == [vals |-> o.vals + 1, stamp |-> "prev", waiters |-> <<>>]
AwakeSignalsOnce(woken, i) ==
  [t \in Threads |-> IF t \in woken /\ awake[t] = Scdl THEN i ELSE awake[t]]

(* A signal object after an emission, and %awake-signal of who it awakes.  *)
Emitted(o) == [vals |-> o.vals + 1, stamp |-> "now", waiters |-> <<>>]
AwakeSignals(woken, i) == [t \in Threads |-> IF t \in woken THEN i ELSE awake[t]]

(* signal-emit, with signal-awake-threads.                                 *)
Emit(i) ==
  LET ths == SelectSeq(env[i].waiters, LAMBDA t : state[t] # "dead")
      woken == ToSet(ths)
  IN /\ env' = [Unbind(env, woken) EXCEPT ![i] = Emitted(env[i])]
     /\ Awake(ths)
     /\ awake' = AwakeSignals(woken, i)
     /\ signals' = [t \in Threads |-> IF t \in woken THEN {} ELSE signals[t]]
     /\ heard' = [t \in Threads |-> heard[t] \/ i \in on[t]]
     /\ count' = [count EXCEPT ![i] = @ + 1]
     /\ UNCHANGED <<lastEnv, kept, lastCount, left>>

-----------------------------------------------------------------------------
(* %scheduler-next-thread and the switch to the thread it returns.         *)

(* Mutants: suspended threads are eligible, or are not kept when skipped.  *)
EligibleSuspended(t) == state[t] # "dead"
SkippedNone(passed) == <<>>

Eligible(t) == ~ suspend[t] /\ state[t] # "dead"

(* The suspended threads it passes over go to threads-yield.               *)
Skipped(passed) == Reverse(SelectSeq(passed, LAMBDA t : suspend[t]))

NextThread ==
  LET i == SelectInSeq(runnable, Eligible)
      passed == IF i = 0 THEN runnable ELSE SubSeq(runnable, 1, i - 1)
  IN /\ switching
     /\ switching' = FALSE
     /\ yield' = Skipped(passed) \o yield
     /\ \/ /\ i # 0
           /\ token' = runnable[i]
           /\ runnable' = SubSeq(runnable, i + 1, Len(runnable))
           /\ lastPair' = IF runnable' = <<>> THEN "nil" ELSE lastPair
           /\ UNCHANGED asyncRunnable
        \/ /\ i = 0 /\ asyncRunnable # <<>>
           /\ token' = Head(asyncRunnable)
           /\ runnable' = Tail(asyncRunnable)
           /\ lastPair' = LastPairOf(runnable')
           /\ asyncRunnable' = <<>>
        \/ /\ i = 0 /\ asyncRunnable = <<>>
           /\ token' = Scdl
           /\ UNCHANGED <<runnable, lastPair, asyncRunnable>>
     /\ UNCHANGED <<phase, program, mode, thread, timers, saved, ready, live, requests,
                    tobroadcast, body, envs, aux>>

-----------------------------------------------------------------------------
(* The steps of %schedule-instant, in their order.                         *)

AtPhase(p, q) ==
  /\ token = Scdl /\ ~ switching
  /\ phase = p /\ phase' = q

(* Mutant: two instants pass at once.                                      *)
AgeTwice(stamp) == IF stamp = "now" THEN "old" ELSE stamp

(* %env-init-instant: a new instant, which keeps the signals with waiters. *)
Age(stamp) == CASE stamp = "now" -> "prev" [] stamp = "prev" -> "old"
                [] OTHER -> stamp

InitInstant ==
  /\ AtPhase("init", "terminate")
  /\ LET aged == [i \in Ids |-> [env[i] EXCEPT !.stamp = Age(@)]]
         waited == {i \in Ids : env[i].waiters # <<>>}
     IN /\ kept' = waited
        /\ lastEnv' = [i \in Ids |-> IF i \in waited THEN Unbound ELSE aged[i]]
        /\ env' = [i \in Ids |-> IF i \in waited THEN aged[i] ELSE Unbound]
  /\ lastCount' = count /\ count' = [i \in Ids |-> 0]
  /\ UNCHANGED <<token, program, mode, switching, thread, queues, requests, outside,
                 heard, left>>

(* %terminate-threads: the threads to terminate run in a phase of their    *)
(* own; threads-yield and threads-timeout are restored after it.           *)
TerminateThreads ==
  LET thds == SelectSeq(toterminate, LAMBDA t : state[t] = "toterminate")
  IN /\ toterminate # <<>>
     /\ AtPhase("terminate", "restore")
     /\ state' = [t \in Threads |->
          IF t \in ToSet(thds) THEN "terminated" ELSE state[t]]
     /\ toterminate' = <<>>
     /\ runnable' = thds
     /\ lastPair' = IF lastPair = "tail" THEN "stale" ELSE lastPair
     /\ saved' = [yield |-> yield, timers |-> timers]
     /\ switching' = TRUE
     /\ UNCHANGED <<token, program, mode, pc, on, exc, timeout, suspend, signals, awake,
                    yield, timers, ready, live, tostart, tosuspend,
                    outside, envs, aux>>

NoTermination ==
  /\ toterminate = <<>>
  /\ AtPhase("terminate", "suspend")
  /\ UNCHANGED <<token, program, mode, switching, thread, queues, requests, outside,
                 envs, aux>>

(* Mutant: the threads that had yielded are not restored.                  *)
RestoreForgetting ==
  /\ AtPhase("restore", "suspend")
  /\ yield' = <<>> /\ timers' = saved.timers
  /\ saved' = [yield |-> <<>>, timers |-> <<>>]
  /\ UNCHANGED <<token, program, mode, switching, thread, runnable, lastPair, ready,
                 live, requests, outside, envs, aux>>

(* The saved threads-runnable is restored too; %select-threads! overwrites *)
(* it before anybody reads it.                                             *)
RestoreThreads ==
  /\ AtPhase("restore", "suspend")
  /\ yield' = saved.yield
  /\ timers' = saved.timers
  /\ saved' = [yield |-> <<>>, timers |-> <<>>]
  /\ UNCHANGED <<token, program, mode, switching, thread, runnable, lastPair, ready,
                 live, requests, outside, envs, aux>>

(* Mutant: a resumed thread runs, whatever it waits for.                   *)
ResumeRunning ==
  /\ AtPhase("suspend", "select")
  /\ suspend' = FoldLeft(LAMBDA f, r : [f EXCEPT ![r[1]] = r[2]],
                         suspend, Reverse(tosuspend))
  /\ yield' = Without(Reverse([i \in DOMAIN tosuspend |-> tosuspend[i][1]]),
                      {t \in Threads : suspend'[t]}) \o yield
  /\ tosuspend' = <<>>
  /\ UNCHANGED <<token, program, mode, switching, pc, on, state, exc, timeout, signals,
                 awake, runnable, lastPair, timers, saved, ready, live, tostart,
                 toterminate, outside, envs, aux>>

(* %suspend/resume-threads: the last request for a thread decides.         *)
SuspendResumeThreads ==
  /\ AtPhase("suspend", "select")
  /\ suspend' = FoldLeft(LAMBDA f, r : [f EXCEPT ![r[1]] = r[2]],
                         suspend, Reverse(tosuspend))
  /\ tosuspend' = <<>>
  /\ UNCHANGED <<token, program, mode, switching, pc, on, state, exc, timeout, signals,
                 awake, queues, tostart, toterminate, outside, envs,
                 aux>>

(* Mutants: a thread is selected one instant early, stays in the list, or  *)
(* is taken for one that a signal has awaken.                              *)
CountDownEarly(acc, t) ==
  CASE acc.timeout[t] = 0 -> acc
    [] acc.timeout[t] \in {1, 2} -> [acc EXCEPT !.due = <<t>> \o @]
    [] OTHER -> [acc EXCEPT !.idle = Append(@, t), !.timeout[t] = @ - 1]
CountDownKeeping(acc, t) ==
  CASE acc.timeout[t] = 0 -> acc
    [] acc.timeout[t] = 1 -> [acc EXCEPT !.due = <<t>> \o @, !.idle = Append(@, t)]
    [] OTHER -> [acc EXCEPT !.idle = Append(@, t), !.timeout[t] = @ - 1]
CountDownForgetting(acc, t) ==
  IF acc.timeout[t] \in {0, 1} THEN acc
  ELSE [acc EXCEPT !.idle = Append(@, t), !.timeout[t] = @ - 1]

(* %select-threads!: the timeouts are counted down one entry at a time.    *)
CountDown(acc, t) ==
  CASE acc.timeout[t] = 0 -> acc
    [] acc.timeout[t] = 1 -> [acc EXCEPT !.due = <<t>> \o @]
    [] OTHER -> [acc EXCEPT !.idle = Append(@, t), !.timeout[t] = @ - 1]

(* Mutant: strict-order? is ignored.                                       *)
SortNone(q) == q

(* %sort-threads, if strict-order? asks for it.                            *)
SortThreads(q) == IF StrictOrder THEN SortSeq(q, LAMBDA a, b : a < b) ELSE q

SelectThreads ==
  LET acc == FoldLeft(CountDown,
                      [timeout |-> timeout, due |-> <<>>, idle |-> <<>>], timers)
      all == acc.due \o yield
  IN /\ AtPhase("select", "start")
     /\ runnable' = SortThreads(all)
     /\ lastPair' = LastPairOf(all)
     /\ yield' = <<>>
     /\ timers' = acc.idle
     /\ ready' = (acc.idle # <<>>)
     /\ timeout' = acc.timeout
     /\ env' = Unbind(env, ToSet(acc.due))
     /\ signals' = [t \in Threads |->
          IF t \in ToSet(acc.due) THEN {} ELSE signals[t]]
     /\ left' = [t \in Threads |-> IF left[t] >= 0 /\ pc[t] \in Waits
                                   THEN left[t] - 1 ELSE left[t]]
     /\ UNCHANGED <<token, program, mode, switching, pc, on, state, exc, suspend, awake,
                    saved, live, requests, outside, lastEnv, kept, count,
                    lastCount, heard>>

(* %start-new-threads                                                      *)
StartNewThreads ==
  /\ AtPhase("start", "broadcast")
  /\ runnable' = runnable \o Reverse(tostart)
  /\ lastPair' = IF tostart = <<>> THEN lastPair ELSE "tail"
  /\ tostart' = <<>>
  /\ UNCHANGED <<token, program, mode, switching, thread, yield, timers, saved, ready,
                 live, toterminate, tosuspend, outside, envs, aux>>

(* %scheduler-broadcast*!, one signal at a time with the mutex held.       *)
BroadcastExternal ==
  /\ AtPhase("broadcast", "broadcast")
  /\ tobroadcast # <<>>
  /\ Emit(Head(tobroadcast))
  /\ tobroadcast' = Tail(tobroadcast)
  /\ UNCHANGED <<token, program, mode, switching, pc, on, state, exc, suspend, yield,
                 timers, saved, ready, live, requests, asyncRunnable, body>>

(* The end of the broadcast and the switch to the first runnable thread.   *)
React ==
  /\ AtPhase("broadcast", "spawn")
  /\ tobroadcast = <<>>
  /\ switching' = TRUE
  /\ UNCHANGED <<token, program, mode, thread, queues, requests, outside, envs, aux>>

(* %spawn-async: start the asynchronous signals nobody awaited yet.        *)
SpawnAsync ==
  /\ AtPhase("spawn", "next")
  /\ body' = [s \in Asyncs |-> IF body[s] = "tospawn" THEN "native" ELSE body[s]]
  /\ UNCHANGED <<token, program, mode, switching, thread, queues, requests, tobroadcast,
                 asyncRunnable, envs, aux>>

(* Mutant: the threads that yielded or sleep are not ready.                *)
SchedulerStateHasty ==
  IF live = 0 THEN "done"
  ELSE IF tostart # <<>> \/ toterminate # <<>> \/ tosuspend # <<>>
  THEN "ready" ELSE "await"

(* scheduler-state                                                         *)
SchedulerState ==
  IF live = 0 THEN "done"
  ELSE IF ready \/ tostart # <<>> \/ toterminate # <<>> \/ tosuspend # <<>>
  THEN "ready" ELSE "await"

(* Mutant: the end of an asynchronous body is not looked at.               *)
PendingBroadcast == tobroadcast # <<>>

(* What native threads have left for the scheduler.                        *)
Pending == tobroadcast # <<>> \/ asyncRunnable # <<>>

(* The next-instant procedures of scheduler-react! and scheduler-start!:   *)
(* run another instant,                                                    *)
NextInstant ==
  /\ AtPhase("next", "init")
  /\ \/ mode = "iterate" /\ SchedulerState \in {"ready", "await"}
     \/ mode \in {"until", "start"} /\ SchedulerState = "ready"
     \/ mode \in {"until", "start"} /\ SchedulerState = "await" /\ Pending
  /\ UNCHANGED <<token, program, mode, switching, thread, queues, requests, outside,
                 envs, aux>>

(* wait for a native thread to notify (no-busy-waiting-next-instant),      *)
AwaitOutside ==
  /\ AtPhase("next", "idle")
  /\ mode \in {"until", "start"} /\ SchedulerState = "await"
  /\ ~ Pending
  /\ UNCHANGED <<token, program, mode, switching, thread, queues, requests, outside,
                 envs, aux>>

(* or return to the main program; a number of instants or a predicate      *)
(* stops scheduler-start! after any instant.                               *)
LeaveScheduler ==
  /\ AtPhase("next", "out")
  /\ mode # "start" \/ SchedulerState = "done"
  /\ UNCHANGED <<token, program, mode, switching, thread, queues, requests, outside,
                 envs, aux>>

(* scheduler-react! and scheduler-start!                                   *)
EnterScheduler ==
  /\ AtPhase("out", "init")
  /\ mode' \in Modes
  /\ UNCHANGED <<program, token, switching, thread, queues, requests, outside, envs, aux>>

-----------------------------------------------------------------------------
(* What fair threads and, for some operations, the main program do.        *)

(* p executes user code, with operation op in its program.                 *)
Calls(p, op) ==
  /\ op \in Can[p]
  /\ token = p /\ ~ switching
  /\ IF p = Scdl THEN phase = "out" ELSE pc[p] = "run"

(* thread-start!: an error if the thread is already attached.              *)
ThreadStart(p, t) ==
  /\ Calls(p, "start")
  /\ state[t] = "unattached"
  /\ state' = [state EXCEPT ![t] = "started"]
  /\ pc' = [pc EXCEPT ![t] = "boot"]
  /\ live' = live + 1
  /\ tostart' = <<t>> \o tostart
  /\ UNCHANGED <<control, on, exc, timeout, suspend, signals, awake, runnable,
                 lastPair, yield, timers, saved, ready, toterminate, tosuspend,
                 outside, envs, aux>>

(* thread-terminate!: nothing if the thread is dead or already asked to.   *)
ThreadTerminate(p, t) ==
  /\ Calls(p, "terminate")
  /\ state[t] \in {"started", "terminated"}
  /\ state' = [state EXCEPT ![t] = "toterminate"]
  /\ exc' = [exc EXCEPT ![t] = "terminated"]
  /\ toterminate' = <<t>> \o toterminate
  /\ UNCHANGED <<control, pc, on, timeout, suspend, signals, awake, queues,
                 tostart, tosuspend, outside, envs, aux>>

(* thread-suspend! and thread-resume!                                      *)
ThreadSuspendResume(p, t, b) ==
  /\ Calls(p, "suspend")
  /\ Len(tosuspend) < MaxPending
  /\ state[t] = "started"
  /\ tosuspend' = <<<<t, b>>>> \o tosuspend
  /\ UNCHANGED <<control, thread, queues, tostart, toterminate, outside, envs,
                 aux>>

(* broadcast!                                                              *)
Broadcast(t, s) ==
  /\ Calls(t, "broadcast")
  /\ env[s].vals < MaxVals
  /\ Emit(s)
  /\ UNCHANGED <<control, pc, on, state, exc, suspend, yield, timers, saved,
                 ready, live, requests, outside>>

(* %thread-cooperate up to the switch: t waits as its pc says.             *)
Cooperate(t, how, ids, n) ==
  /\ pc' = [pc EXCEPT ![t] = how]
  /\ on' = [on EXCEPT ![t] = ids]
  /\ heard' = [heard EXCEPT ![t] = FALSE]
  /\ left' = [left EXCEPT ![t] = n]
  /\ switching' = TRUE
  /\ UNCHANGED <<token, phase, program, mode, state, exc, suspend, awake, runnable,
                 lastPair, saved, live, requests, lastEnv, kept, count,
                 lastCount, tobroadcast, asyncRunnable>>

(* %thread-yield!, also the first half of thread-get-values!               *)
ThreadYield(t) ==
  /\ Calls(t, "yield")
  /\ yield' = <<t>> \o yield
  /\ ready' = TRUE
  /\ Cooperate(t, "yield", {}, 1)
  /\ UNCHANGED <<timeout, timers, signals, env, body>>

(* Mutant: one instant too many.                                           *)
TimeoutLater(t, n) ==
  /\ Len(timers) < MaxTimers
  /\ timeout' = [timeout EXCEPT ![t] = n + 1]
  /\ timers' = <<t>> \o timers
  /\ ready' = TRUE

(* %thread-timeout!                                                        *)
Timeout(t, n) ==
  /\ Len(timers) < MaxTimers
  /\ timeout' = [timeout EXCEPT ![t] = n]
  /\ timers' = <<t>> \o timers
  /\ ready' = TRUE

(* thread-sleep!                                                           *)
ThreadSleep(t, n) ==
  /\ Calls(t, "sleep")
  /\ n > 0
  /\ Timeout(t, n)
  /\ Cooperate(t, "sleep", {}, n)
  /\ UNCHANGED <<yield, signals, env, body>>

(* Mutant: thread-join! does not test whether the thread is dead.          *)
AwaitableDead(t, i) ==
  /\ ~ Present(i)
  /\ i \in Threads => Calls(t, "join")
  /\ i \in Asyncs => Calls(t, "async") /\ body[i] # "none"

(* thread-await! and thread-join! without timeout, when they block: the    *)
(* signal is absent and is not an asynchronous one still to be spawned.    *)
Awaitable(t, i) ==
  /\ ~ Present(i)
  /\ i \in Threads => Calls(t, "join") /\ state[i] \notin {"terminated", "dead"}
  /\ i \in Asyncs => Calls(t, "async") /\ body[i] # "none"

ThreadAwait(t, i) ==
  /\ Calls(t, "await") /\ Awaitable(t, i)
  /\ i \in Asyncs => body[i] # "tospawn"
  /\ Register(t, {i})
  /\ Cooperate(t, "await", {i}, -1)
  /\ UNCHANGED <<timeout, yield, timers, ready, body>>

(* Mutant: it yields as well.                                              *)
AwaitAsyncYielding(t, s) ==
  /\ Calls(t, "await") /\ Awaitable(t, s)
  /\ body[s] = "tospawn"
  /\ body' = [body EXCEPT ![s] = "thread"]
  /\ yield' = <<t>> \o yield
  /\ Cooperate(t, "thunk", {s}, -1)
  /\ UNCHANGED <<timeout, timers, ready, signals, env>>

(* thread-await! on an asynchronous signal that nobody has spawned: the    *)
(* thread leaves the scheduler to run its body (%thread-asynchronize!).    *)
ThreadAwaitAsync(t, s) ==
  /\ Calls(t, "await") /\ Awaitable(t, s)
  /\ body[s] = "tospawn"
  /\ body' = [body EXCEPT ![s] = "thread"]
  /\ Cooperate(t, "thunk", {s}, -1)
  /\ UNCHANGED <<timeout, yield, timers, ready, signals, env>>

(* thread-await! and thread-join! with a timeout.                          *)
ThreadAwaitN(t, i, n) ==
  /\ Calls(t, "awaitN") /\ Awaitable(t, i)
  /\ n > 0
  /\ Register(t, {i})
  /\ body' = [s \in Asyncs |->
       IF s = i /\ body[s] = "tospawn" THEN "native" ELSE body[s]]
  /\ Timeout(t, n)
  /\ Cooperate(t, "awaitN", {i}, n)
  /\ UNCHANGED yield

(* thread-await*!, without and with a timeout, which may be 0.             *)
ThreadAwaitAny(t, ids) ==
  /\ Calls(t, "await*")
  /\ ids # {} /\ \A i \in ids : ~ Present(i)
  /\ Register(t, ids)
  /\ Cooperate(t, "await*", ids, -1)
  /\ UNCHANGED <<timeout, yield, timers, ready, body>>

ThreadAwaitAnyN(t, ids, n) ==
  /\ Calls(t, IF n = 0 THEN "await*0" ELSE "await*N")
  /\ ids # {} /\ \A i \in ids : ~ Present(i)
  /\ Register(t, ids)
  /\ Timeout(t, n)
  /\ Cooperate(t, "await*N", ids, n)
  /\ UNCHANGED <<yield, body>>

(* make-asynchronous-signal                                                *)
MakeAsync(t, s) ==
  /\ Calls(t, "async")
  /\ body[s] = "none"
  /\ body' = [body EXCEPT ![s] = "tospawn"]
  /\ UNCHANGED <<control, thread, queues, requests, tobroadcast, asyncRunnable,
                 envs, aux>>

(* The body of the thread returns, or raises an uncaught exception.        *)
ThreadReturn(t) ==
  /\ \/ Calls(t, "end") /\ UNCHANGED exc
     \/ Calls(t, "raise") /\ exc' = [exc EXCEPT ![t] = "uncaught"]
  /\ pc' = [pc EXCEPT ![t] = "exit"]
  /\ UNCHANGED <<control, on, state, timeout, suspend, signals, awake, queues,
                 requests, outside, envs, aux>>

-----------------------------------------------------------------------------
(* A thread that receives the token goes on.                               *)

Goes(t, from) == token = t /\ ~ switching /\ pc[t] \in from

(* Mutant: %thread-cooperate does not test %state.                         *)
ResumedAlive(t) == "run"

(* %thread-cooperate tests whether the thread has been terminated, the     *)
(* start of a thread (%pthread-new) does not.                              *)
Resumed(t) == IF pc[t] # "boot" /\ state[t] = "terminated" THEN "exit" ELSE "run"

ThreadResume(t) ==
  /\ Goes(t, Waits \cup {"boot"})
  /\ pc' = [pc EXCEPT ![t] = Resumed(t)]
  /\ on' = [on EXCEPT ![t] = {}]
  /\ heard' = [heard EXCEPT ![t] = FALSE]
  /\ left' = [left EXCEPT ![t] = 0]
  /\ UNCHANGED <<control, state, exc, timeout, suspend, signals, awake, queues,
                 requests, outside, envs, count, lastCount>>

(* It is back from the body of an asynchronous signal, which it emits, or  *)
(* which raised an exception and ends the thread.                          *)
ThreadBack(t) ==
  /\ Goes(t, {"back"})
  /\ on[t] # {}
  /\ \A s \in on[t] : Emit(s) /\ body' = [body EXCEPT ![s] = "ended"]
  /\ pc' = [pc EXCEPT ![t] = "run"]
  /\ on' = [on EXCEPT ![t] = {}]
  /\ UNCHANGED <<control, state, exc, suspend, yield, timers, saved, ready,
                 live, requests, tobroadcast, asyncRunnable>>

ThreadBackRaised(t) ==
  /\ Goes(t, {"back"})
  /\ on[t] = {}
  /\ pc' = [pc EXCEPT ![t] = "exit"]
  /\ UNCHANGED <<control, on, state, exc, timeout, suspend, signals, awake,
                 queues, requests, outside, envs, aux>>

(* execute-thread after the body: broadcast the %sigjoin of the thread.    *)
ThreadExit(t) ==
  /\ Goes(t, {"exit"})
  /\ Emit(t)
  /\ pc' = [pc EXCEPT ![t] = "kill"]
  /\ UNCHANGED <<control, on, state, exc, suspend, yield, timers, saved, ready,
                 live, requests, outside>>

(* %thread-kill!                                                           *)
ThreadKill(t) ==
  /\ Goes(t, {"kill"})
  /\ pc' = [pc EXCEPT ![t] = "gone"]
  /\ state' = [state EXCEPT ![t] = "dead"]
  /\ live' = live - 1
  /\ runnable' = Without(runnable, {t})
  /\ lastPair' = LastPairOf(runnable')
  /\ env' = Unbind(env, {t})
  /\ signals' = [signals EXCEPT ![t] = {}]
  /\ switching' = TRUE
  /\ UNCHANGED <<token, phase, program, mode, on, exc, timeout, suspend, awake, yield,
                 timers, saved, ready, requests, outside, lastEnv, kept, aux>>

-----------------------------------------------------------------------------
(* Native threads outside of the scheduler's control.  They need its       *)
(* mutex, which %scheduler-broadcast*! holds, and notify it.               *)

(* Mutant: the scheduler is not notified.                                  *)
NotifyNone == phase # "broadcast" /\ UNCHANGED phase

Notify ==
  /\ phase # "broadcast"
  /\ phase' = IF phase = "idle" THEN "init" ELSE phase

(* Mutant: the thread is not put in async-runnable.                        *)
AddAsyncNone(t) == UNCHANGED asyncRunnable

(* %scheduler-add-async-runnable!                                          *)
AddAsyncRunnable(t) == asyncRunnable' = <<t>> \o asyncRunnable

(* %thread-synchronize!, when the body of the signal has ended or raised.  *)
ThunkEnd(t) ==
  /\ pc[t] = "thunk" /\ ~ (token = t /\ switching)
  /\ Notify
  /\ \/ UNCHANGED <<on, exc>>
     \/ /\ "raise" \in Can[t]
        /\ on' = [on EXCEPT ![t] = {}]
        /\ exc' = [exc EXCEPT ![t] = "uncaught"]
  /\ pc' = [pc EXCEPT ![t] = "back"]
  /\ AddAsyncRunnable(t)
  /\ UNCHANGED <<token, program, mode, switching, state, timeout, suspend, signals,
                 awake, queues, requests, tobroadcast, body, envs, aux>>

(* The end of a body spawned by %scheduler-spawn-async.                    *)
NativeEnd(s) ==
  /\ body[s] = "native"
  /\ Notify
  /\ body' = [body EXCEPT ![s] = "ended"]
  /\ tobroadcast' = <<s>> \o tobroadcast
  /\ UNCHANGED <<token, program, mode, switching, thread, queues, requests,
                 asyncRunnable, envs, aux>>

(* The body raises: its native thread dies and nothing is broadcast.       *)
NativeRaise(s) ==
  /\ \E t \in Threads : "raise" \in Can[t]
  /\ body[s] = "native"
  /\ body' = [body EXCEPT ![s] = "ended"]
  /\ UNCHANGED <<control, thread, queues, requests, tobroadcast, asyncRunnable,
                 envs, aux>>

(* scheduler-broadcast!                                                    *)
SchedulerBroadcast(s) ==
  /\ "outside" \in Can[Scdl]
  /\ Len(tobroadcast) < MaxPending
  /\ Notify
  /\ tobroadcast' = <<s>> \o tobroadcast
  /\ UNCHANGED <<token, program, mode, switching, thread, queues, requests,
                 asyncRunnable, body, envs, aux>>

-----------------------------------------------------------------------------
Instant ==
  \/ InitInstant \/ TerminateThreads \/ NoTermination \/ RestoreThreads
  \/ SuspendResumeThreads \/ SelectThreads \/ StartNewThreads
  \/ BroadcastExternal \/ React \/ SpawnAsync \/ NextInstant \/ AwaitOutside
  \/ LeaveScheduler

Request(p) ==
  \E t \in Threads : \/ ThreadStart(p, t) \/ ThreadTerminate(p, t)
                     \/ \E b \in BOOLEAN : ThreadSuspendResume(p, t, b)

(* The operations that give the token away.                                *)
Block(t) ==
  \/ ThreadYield(t)
  \/ \E n \in 1 .. MaxTimeout : ThreadSleep(t, n)
  \/ \E i \in Ids : ThreadAwait(t, i)
  \/ \E s \in Asyncs : ThreadAwaitAsync(t, s)
  \/ \E i \in Ids, n \in 1 .. MaxTimeout : ThreadAwaitN(t, i, n)
  \/ \E ids \in SUBSET Signals :
       \/ ThreadAwaitAny(t, ids)
       \/ \E n \in 0 .. MaxTimeout : ThreadAwaitAnyN(t, ids, n)
  \/ ThreadReturn(t)

GoOn(t) ==
  \/ ThreadResume(t) \/ ThreadBack(t) \/ ThreadBackRaised(t) \/ ThreadExit(t)
  \/ ThreadKill(t)

Next ==
  \/ NextThread \/ Instant \/ EnterScheduler
  \/ \E p \in Threads \cup {Scdl} : Request(p)
  \/ \E t \in Threads : \/ Block(t) \/ GoOn(t) \/ ThunkEnd(t)
                        \/ \E s \in Signals : Broadcast(t, s)
                        \/ \E s \in Asyncs : MakeAsync(t, s)
  \/ \E s \in Asyncs : NativeEnd(s) \/ NativeRaise(s)
  \/ \E s \in Signals : SchedulerBroadcast(s)

Spec == Init /\ [][Next]_vars

(* The scheduler and the threads go on when they can; fair threads are     *)
(* cooperative: one that has the token blocks or ends; bodies of           *)
(* asynchronous signals end; the main program comes back to the scheduler. *)
(* The end of a body takes the mutex of the scheduler, which is free again *)
(* and again and starves nobody: strong fairness.                          *)
Fairness ==
  /\ WF_vars(NextThread)
  /\ WF_vars(Instant)
  /\ WF_vars(EnterScheduler)
  /\ \A t \in Threads : /\ WF_vars(Block(t))
                        /\ WF_vars(GoOn(t))
                        /\ SF_vars(ThunkEnd(t))
  /\ \A s \in Asyncs : SF_vars(NativeEnd(s))

FairSpec == Spec /\ Fairness

-----------------------------------------------------------------------------
(* Threads and signals agree on who waits for what, and nobody waits for a *)
(* signal that is present: signal-register-thread! and                     *)
(* signal-unbind-thread! work on both lists.                               *)
Registration ==
  \A i \in Ids :
    /\ \A t \in Threads : t \in ToSet(env[i].waiters) <=> i \in signals[t]
    /\ Present(i) => env[i].waiters = <<>>

(* The values of a present signal are those of this instant and            *)
(* thread-get-values! returns those of the previous one, although          *)
(* %env-init-instant re-uses the signals somebody waits for.               *)
ValuesExact ==
  \A i \in Ids :
    /\ count[i] = IF Present(i) THEN env[i].vals ELSE 0
    /\ lastCount[i] = LastValues(i)

InQueues(t) == t \in ToSet(runnable) \cup ToSet(yield) \cup ToSet(timers)
                        \cup ToSet(tostart) \cup ToSet(asyncRunnable)

InSaved(t) == t \in ToSet(saved.yield) \cup ToSet(saved.timers)

(* No live thread is forgotten: one that does not have the token runs an   *)
(* asynchronous body, is in a queue, or waits for a signal.                *)
NoThreadLost ==
  \A t \in Threads :
    state[t] \notin {"unattached", "dead"} /\ token # t /\ pc[t] # "thunk"
      => InQueues(t) \/ InSaved(t) \/ signals[t] # {} \/ t \in ToSet(toterminate)

(* The thread that executes is nowhere else: the scheduler will not give   *)
(* it the token for something it no longer waits for.                      *)
RunnerIsNowhere ==
  \A t \in Threads :
    pc[t] \in {"run", "exit", "kill"} => ~ InQueues(t) /\ signals[t] = {}

(* The token is given to threads that take it: not to a dead one nor to    *)
(* one that is busy outside of the scheduler.                              *)
TokenIsTaken ==
  \A t \in Threads : token = t /\ ~ switching => pc[t] \notin {"gone", "thunk"}

(* %live-thread-number counts the threads started and not dead, on which   *)
(* scheduler-start! decides to return.                                     *)
LiveThreads == {t \in Threads : state[t] \notin {"unattached", "dead"}}

(* scheduler-start! sleeps or returns only when no thread can run.         *)
NoSleepOverWork ==
  /\ phase = "idle" => \A t \in LiveThreads :
       ~ suspend[t] => pc[t] = "thunk" \/ signals[t] # {}
  /\ phase = "next" /\ SchedulerState = "done" => LiveThreads = {}

Returns(t) == pc[t] \in Waits /\ pc'[t] = "run"

(* thread-await! and thread-await*! return when their signal has been      *)
(* broadcast, or when their timeout has elapsed, and not before.           *)
AwaitSound ==
  [][\A t \in Threads :
       Returns(t) => CASE pc[t] \in {"await", "await*"} -> heard[t]
                       [] pc[t] \in {"awaitN", "await*N"} -> heard[t] \/ left[t] = 0
                       [] OTHER -> TRUE]_vars

(* thread-yield! returns at the next instant and thread-sleep! after       *)
(* exactly timeout instants, in a program where no thread is suspended.    *)
SleepExact ==
  [][\A t \in Threads :
       /\ Returns(t) /\ pc[t] \in {"yield", "sleep"}
       /\ \A p \in DOMAIN Can : "suspend" \notin Can[p]
       => left[t] = 0]_vars

(* thread-await*! returns, as its second value, a signal it waited for     *)
(* (%awake-signal).                                                        *)
AwakeSignal ==
  [][\A t \in Threads :
       Returns(t) /\ pc[t] = "await*" => awake[t] \in on[t]]_vars

(* A thread awaken by a signal runs in the instant of the emission.        *)
SameInstant ==
  [][\A t \in Threads :
       Returns(t) /\ pc[t] \in {"await", "await*"}
         => \E i \in on[t] : Present(i)]_vars

(* A thread that the termination phase has marked executes no more of its  *)
(* body: when it gets the token, %thread-cooperate raises in it.           *)
TerminatedNeverRuns ==
  \A t \in Threads : state[t] = "terminated" => pc[t] # "run"

(* A suspended thread does not get the processor from the scheduler.       *)
SuspendedRests ==
  [][\A t \in Threads : token' = t /\ token # t => ~ suspend[t]]_vars

(* With strict-order? the threads that yielded or slept are scheduled in   *)
(* the order of their %ident in every instant, whoever yielded first.      *)
StrictlyOrdered ==
  [][\A t \in Threads :
       StrictOrder /\ token' = t /\ token # t /\ pc[t] \in {"yield", "sleep"}
         => \A u \in ToSet(runnable') : pc[u] \in {"yield", "sleep"} => t < u]_vars

(* A thread asked to terminate dies.                                       *)
TerminatedDies ==
  \A t \in Threads : state[t] = "toterminate" ~> state[t] = "dead"

(* A thread that yields or sleeps comes back.                              *)
SleeperReturns ==
  \A t \in Threads : pc[t] \in {"yield", "sleep"} ~> pc[t] \notin {"yield", "sleep"}

(* A thread that joins another one is notified of its death.               *)
JoinReturns ==
  \A t, u \in Threads :
    pc[t] = "await" /\ on[t] = {u} /\ state[u] = "dead" ~> pc[t] # "await"

(* A thread that runs an asynchronous body returns to cooperative code,    *)
(* even if the scheduler went to sleep in the meantime.                    *)
ThunkReturns ==
  \A t \in Threads : pc[t] = "thunk" ~> pc[t] \in {"run", "exit"}

(* thread-await! and thread-await*! with a timeout return.                 *)
TimedAwaitReturns ==
  \A t \in Threads : pc[t] \in {"awaitN", "await*N"}
                        ~> pc[t] \notin {"awaitN", "await*N"}

-----------------------------------------------------------------------------
(* The queues, the signals and the threads agree in every state of a       *)
(* program that yields, sleeps, waits, joins and broadcasts.               *)
QueuesSound ==
  TypeOK /\ ValuesExact /\ NoThreadLost /\ RunnerIsNowhere /\ NoSleepOverWork

(* Instants are counted exactly, a broadcast is heard in its instant, and  *)
(* sleepers and joiners come back.                                         *)
InstantsExact == SleepExact /\ SameInstant /\ SleeperReturns /\ JoinReturns

(* A suspended thread rests, and while threads suspend and resume each     *)
(* other nobody is lost, every wait returns for a signal that was          *)
(* broadcast, and strict-order? is respected.                              *)
SuspensionExact ==
  []NoThreadLost /\ SuspendedRests /\ AwaitSound /\ AwakeSignal /\ StrictlyOrdered

(* Timing out and terminating threads forget nobody, leave no thread       *)
(* registered on one side only and run no terminated thread.               *)
ControlSound == NoThreadLost /\ Registration /\ TerminatedNeverRuns

(* Waits return for a signal or at their time, sleeps last exactly, and    *)
(* threads that are asked to terminate die.                                *)
ControlExact == AwaitSound /\ SleepExact /\ TimedAwaitReturns /\ TerminatedDies

(* Threads that leave for an asynchronous body and come back are neither   *)
(* lost nor given the token while away, the scheduler waits for them, and  *)
(* they do come back.                                                      *)
AsyncServed == [](TokenIsTaken /\ NoThreadLost /\ NoSleepOverWork) /\ ThunkReturns
=============================================================================
