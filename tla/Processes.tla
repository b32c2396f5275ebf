------------------------------ MODULE Processes -------------------------------
(***************************************************************************)
(* The process table of runtime/Clib/cprocess.c (Unix).  A process object  *)
(* keeps its slot until a call finds out that the child is dead and        *)
(* unregisters it.  Only the table is under process_mutex: whether a child *)
(* was reaped, and by whom, is decided by the kernel between the steps of  *)
(* the threads, and the fields of a process are read and written without   *)
(* the mutex.  Each process is used by the thread that made it; make-      *)
(* process, when the table is full, and process-list look at all of them.  *)
(***************************************************************************)
EXTENDS Integers, FiniteSets, Sequences

CONSTANTS
  Threads, Procs,
  NoOne,        \* BUNSPEC in the table, and the mutex that nobody holds
  MaxProcNum    \* max_proc_num

(* There is a table, and NoOne is neither a thread nor a process.          *)
ProcessConstants == MaxProcNum \in Nat \ {0} /\ NoOne \notin Threads \cup Procs

VARIABLES
  kernel,       \* the children: running, zombie, reaped
  proc,         \* the process objects
  procArr, firstFree, lock,
  thread,       \* where each thread is in a call, and on which process
  told,         \* the statuses that process-exit-status returned
  raced         \* auxiliary: the processes that two threads were busy with at once

processVars == <<kernel, proc, procArr, firstFree, lock, thread, told, raced>>

Slots  == 0 .. MaxProcNum - 1
Code   == 7                 \* the exit code of every child
Idle   == [at |-> "idle"]
NoProc == [pid |-> FALSE, exited |-> FALSE, index |-> -2, status |-> 0, owner |-> NoOne]

InitProcesses ==
  /\ kernel = [p \in Procs |-> "none"] /\ proc = [p \in Procs |-> NoProc]
  /\ procArr = [i \in Slots |-> NoOne] /\ firstFree = 0 /\ lock = NoOne
  /\ thread = [t \in Threads |-> Idle] /\ told = {} /\ raced = {}

Goto(t, r) == thread' = [thread EXCEPT ![t] = r]

(* Auxiliary: the processes that a thread other than t is busy with.       *)
Busy(t, p) == \E u \in Threads \ {t} : thread[u].at \notin {"idle", "make", "purge"} /\ thread[u].p = p
Races(t, p) == raced' = IF Busy(t, p) THEN raced \cup {p} ELSE raced

(* A child exits or is killed.                                             *)
ChildExits(p) ==
  /\ kernel[p] = "running" /\ kernel' = [kernel EXCEPT ![p] = "zombie"]
  /\ UNCHANGED <<proc, procArr, firstFree, lock, thread, told, raced>>
-----------------------------------------------------------------------------
(* The objects that are not allocated: one is as good as another.          *)
Unused == {p \in Procs : /\ proc[p] = NoProc
                         /\ \A u \in Threads : thread[u].at \in {"make", "purge", "fork"}
                                               => thread[u].p # p}

(* run-process: the redirections are made, then the process object.        *)
RunProcess(t, p, waiting) ==
  /\ thread[t] = Idle /\ lock = NoOne /\ lock' = t
  /\ p \in Unused /\ p = CHOOSE q \in Unused : TRUE
  /\ Goto(t, [at |-> IF firstFree = MaxProcNum THEN "purge" ELSE "make", p |-> p,
              waiting |-> waiting, i |-> 0, for |-> "make"])
  /\ UNCHANGED <<kernel, proc, procArr, firstFree, told, raced>>

(* Mutant: the slot after the one taken is believed to be free.            *)
NextIndex(arr, i) == i + 1

(* Where the search for a free slot ends.                                  *)
NextFree(arr, i) ==
  CHOOSE j \in i .. MaxProcNum :
    /\ j = MaxProcNum \/ arr[j] = NoOne
    /\ \A k \in i .. j - 1 : arr[k] # NoOne

(* The table is still full: the program gets an error.                     *)
MakeProcess(t) ==
  /\ thread[t].at = "make" /\ lock' = NoOne
  /\ LET p == thread[t].p IN
     IF firstFree = MaxProcNum
     THEN Goto(t, Idle) /\ UNCHANGED <<proc, procArr, firstFree>>
     ELSE /\ proc' = [proc EXCEPT ![p].index = firstFree, ![p].owner = t]
          /\ procArr' = [procArr EXCEPT ![firstFree] = p]
          /\ firstFree' = NextFree([procArr EXCEPT ![firstFree] = p], firstFree)
          /\ Goto(t, [thread[t] EXCEPT !.at = "fork"])
  /\ UNCHANGED <<kernel, told, raced>>

(* A fork that fails leaves the process in the table, without a pid.       *)
Fork(t, ok) ==
  /\ thread[t].at = "fork"
  /\ LET p == thread[t].p IN
     IF ok
     THEN /\ kernel' = [kernel EXCEPT ![p] = "running"] /\ proc' = [proc EXCEPT ![p].pid = TRUE]
          /\ Goto(t, IF thread[t].waiting THEN [at |-> "runwait", p |-> p] ELSE Idle)
     ELSE Goto(t, Idle) /\ UNCHANGED <<kernel, proc>>
  /\ UNCHANGED <<procArr, firstFree, lock, told, raced>>

(* The nil process is made, then unregistered.                             *)
BglProcessNil(t, p) ==
  /\ thread[t] = Idle /\ proc[p] = NoProc /\ lock = NoOne /\ firstFree < MaxProcNum
  /\ proc' = [proc EXCEPT ![p].index = -1, ![p].owner = t]
  /\ UNCHANGED <<kernel, procArr, firstFree, lock, thread, told, raced>>
-----------------------------------------------------------------------------
(* c_process_alivep: a dead child is marked, unregistered, then its status *)
(* is stored.  locked tells whether the caller has the mutex; next where   *)
(* the thread goes on.  waitpid fails when another thread has the child.   *)
AlivepStart(t, p, locked, next) ==
  IF proc[p].exited \/ ~ proc[p].pid \/ kernel[p] # "zombie"
  THEN Goto(t, next) /\ UNCHANGED <<kernel, proc>>
  ELSE /\ kernel' = [kernel EXCEPT ![p] = "reaped"]
       /\ proc' = [proc EXCEPT ![p].exited = TRUE]
       /\ Goto(t, [at |-> IF proc[p].index # -1 THEN "unregister" ELSE "store",
                   p |-> p, locked |-> locked, info |-> Code, then |-> "store", next |-> next])

CProcessAlivep(t, p) ==
  /\ thread[t] = Idle /\ proc[p].owner = t /\ AlivepStart(t, p, FALSE, Idle)
  /\ Races(t, p) /\ UNCHANGED <<procArr, firstFree, lock, told>>

(* One turn of the loop of purge_process_table or of c_process_list.       *)
PurgeProcessTable(t) ==
  /\ thread[t].at = "purge" /\ lock = t
  /\ LET i == thread[t].i
         next == [thread[t] EXCEPT !.i = i + 1,
                                   !.at = IF i + 1 < MaxProcNum THEN "purge" ELSE thread[t].for]
     IN IF procArr[i] = NoOne
        THEN Goto(t, next) /\ UNCHANGED <<kernel, proc, raced>>
        ELSE AlivepStart(t, procArr[i], TRUE, next) /\ Races(t, procArr[i])
  /\ UNCHANGED <<procArr, firstFree, lock, told>>

CProcessList(t) ==
  /\ thread[t] = Idle /\ lock = NoOne /\ lock' = t
  /\ Goto(t, [at |-> "purge", p |-> NoOne, waiting |-> FALSE, i |-> 0, for |-> "listed"])
  /\ UNCHANGED <<kernel, proc, procArr, firstFree, told, raced>>

Listed(t) ==
  /\ thread[t].at = "listed" /\ lock' = NoOne /\ Goto(t, Idle)
  /\ UNCHANGED <<kernel, proc, procArr, firstFree, told, raced>>

(* Mutant: the first free index is not lowered.                            *)
FirstFreeKept(i) == firstFree
FirstFreeLowered(i) == IF i < firstFree THEN i ELSE firstFree

(* A process that was unregistered in the meantime has index -1, and the   *)
(* word before the table is written.                                       *)
CUnregisterProcess(t) ==
  LET p == thread[t].p
      i == proc[p].index
  IN /\ thread[t].at = "unregister" /\ (~ thread[t].locked => lock = NoOne)
     /\ procArr' = IF i = -1 THEN procArr ELSE [procArr EXCEPT ![i] = NoOne]
     /\ firstFree' = FirstFreeLowered(i)
     /\ proc' = [proc EXCEPT ![p].index = -1]
     /\ Goto(t, IF thread[t].then = "idle" THEN Idle ELSE [thread[t] EXCEPT !.at = "store"])
     /\ UNCHANGED <<kernel, lock, told, raced>>

(* Mutant: the status is not stored.                                       *)
StatusForgotten(p, info) == proc[p].status

StatusStored(p, info) == info

(* The status is stored after the process is marked and unregistered.      *)
Store(t) ==
  /\ thread[t].at = "store"
  /\ proc' = [proc EXCEPT ![thread[t].p].status = StatusStored(thread[t].p, thread[t].info)]
  /\ Goto(t, thread[t].next)
  /\ UNCHANGED <<kernel, procArr, firstFree, lock, told, raced>>

(* process-wait, and run-process with wait: waitpid blocks, and stores the *)
(* status itself unless another thread has reaped the child.               *)
CProcessWait(t, p) ==
  /\ thread[t] = Idle /\ proc[p].owner = t /\ ~ proc[p].exited /\ proc[p].pid
  /\ Goto(t, [at |-> "waitpid", p |-> p]) /\ Races(t, p)
  /\ UNCHANGED <<kernel, proc, procArr, firstFree, lock, told>>

Waitpid(t) ==
  LET p == thread[t].p IN
  /\ thread[t].at \in {"waitpid", "runwait"} /\ kernel[p] \in {"zombie", "reaped"}
  /\ kernel' = [kernel EXCEPT ![p] = "reaped"]
  /\ IF kernel[p] = "reaped" /\ thread[t].at = "runwait"
     THEN UNCHANGED proc /\ Goto(t, Idle)
     ELSE /\ proc' = [proc EXCEPT ![p].exited = TRUE,
                                  ![p].status = IF kernel[p] = "zombie" THEN Code ELSE @]
          /\ Goto(t, IF proc[p].index # -1
                     THEN [at |-> "unregister", p |-> p, locked |-> FALSE, then |-> "idle"] ELSE Idle)
  /\ UNCHANGED <<procArr, firstFree, lock, told, raced>>

(* process-exit-status: any result of waitpid but 0 means that the process *)
(* is dead; after an error the status is an uninitialised variable.        *)
CProcessXstatus(t, p) ==
  /\ thread[t] = Idle /\ proc[p].owner = t /\ Races(t, p)
  /\ proc[p].exited \/ proc[p].pid
  /\ CASE proc[p].exited ->
            told' = told \cup {[p |-> p, status |-> proc[p].status]} /\ UNCHANGED <<kernel, proc, thread>>
       [] ~ proc[p].exited /\ kernel[p] = "running" -> UNCHANGED <<kernel, proc, thread, told>>
       [] OTHER ->
            \E info \in IF kernel[p] = "zombie" THEN {Code} ELSE {0, Code} :
              /\ kernel' = [kernel EXCEPT ![p] = "reaped"]
              /\ proc' = [proc EXCEPT ![p].exited = TRUE]
              /\ told' = told \cup {[p |-> p, status |-> info]}
              /\ Goto(t, [at |-> IF proc[p].index # -1 THEN "unregister" ELSE "store", p |-> p,
                          locked |-> FALSE, info |-> info, then |-> "store", next |-> Idle])
  /\ UNCHANGED <<procArr, firstFree, lock>>

ProcessSteps ==
  \/ \E p \in Procs : ChildExits(p)
  \/ \E t \in Threads :
       \/ \E p \in Procs : \/ \E waiting \in BOOLEAN : RunProcess(t, p, waiting)
                           \/ BglProcessNil(t, p) \/ CProcessAlivep(t, p)
                           \/ CProcessWait(t, p) \/ CProcessXstatus(t, p)
       \/ MakeProcess(t) \/ \E ok \in BOOLEAN : Fork(t, ok)
       \/ PurgeProcessTable(t) \/ CProcessList(t) \/ Listed(t)
       \/ CUnregisterProcess(t) \/ Store(t) \/ Waitpid(t)

(* Nothing is said once the word before the table was written.             *)
ProcessNext == firstFree >= 0 /\ ProcessSteps

ProcessSpec == InitProcesses /\ [][ProcessNext]_processVars
-----------------------------------------------------------------------------
(* As long as no two threads were busy with one process at the same time,  *)
(* which purge and process-list do not prevent: the index kept as the      *)
(* first free one is the first free one, table and processes agree, and    *)
(* every status that was returned is the one the child exited with.        *)
ProcessTable ==
  raced = {} =>
    /\ firstFree = NextFree(procArr, 0)
    /\ \A i \in Slots : procArr[i] # NoOne => proc[procArr[i]].index = i
    /\ \A p \in Procs : proc[p].index >= 0 => procArr[proc[p].index] = p
    /\ \A a \in told : a.status = Code
=============================================================================
