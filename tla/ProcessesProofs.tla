--------------------------- MODULE ProcessesProofs ---------------------------
(***************************************************************************)
(* Proofs about Processes for any number of threads and of processes and   *)
(* any size of the table: as long as no two threads were busy with one     *)
(* process at once, the table and the statuses are exact.                  *)
(***************************************************************************)
EXTENDS Processes, WellFoundedInduction, TLAPS

(* Where a thread can be: in a loop over the table or about to fork, in    *)
(* waitpid, about to unregister, and in the rest of c_process_alivep.      *)
Loop == [at : {"make", "purge", "listed", "fork"}, p : Procs \cup {NoOne}, waiting : BOOLEAN,
         i : 0 .. MaxProcNum, for : {"make", "listed"}]
Waits == [at : {"waitpid", "runwait"}, p : Procs]
Leaves == [at : {"unregister"}, p : Procs, locked : {FALSE}, then : {"idle"}]
Reaps == [at : {"unregister", "store"}, p : Procs, locked : BOOLEAN, info : {Code},
          then : {"store"}, next : {Idle} \cup Loop]
Process == [pid : BOOLEAN, exited : BOOLEAN, index : Int, status : {0, Code},
            owner : Threads \cup {NoOne}]

Types ==
  /\ kernel \in [Procs -> {"none", "running", "zombie", "reaped"}]
  /\ proc \in [Procs -> Process]
  /\ procArr \in [Slots -> Procs \cup {NoOne}]
  /\ firstFree \in 0 .. MaxProcNum
  /\ lock \in Threads \cup {NoOne}
  /\ thread \in [Threads -> {Idle} \cup Loop \cup Waits \cup Leaves \cup Reaps]

(* The thread works on its process p.                                      *)
Working(t) == thread[t].at \in {"fork", "runwait", "waitpid", "unregister", "store"}
Storing(t) == thread[t].at \in {"unregister", "store"} /\ thread[t].then = "store"

(* A frame of a thread that has the mutex.                                 *)
Searching(r) ==
  /\ r \in Loop /\ r.at # "fork"
  /\ r.at = "purge" => r.i < MaxProcNum
  /\ r.at = "make" => r.for = "make"
  /\ r.for = "make" => r.p \in Procs /\ proc[r.p] = NoProc

ThreadInv(t) ==
  /\ thread[t].at \in {"make", "purge", "listed"} => lock = t /\ Searching(thread[t])
  /\ Storing(t) => IF thread[t].locked THEN lock = t /\ Searching(thread[t].next)
                   ELSE thread[t].next = Idle
  /\ Working(t) => thread[t].p \in Procs /\ proc[thread[t].p].owner # NoOne
  /\ thread[t].at \in {"fork", "waitpid", "runwait"} => ~ proc[thread[t].p].exited
  /\ thread[t].at \in {"waitpid", "runwait"} => proc[thread[t].p].pid
  /\ thread[t].at = "unregister" => proc[thread[t].p].index \in Slots
  /\ thread[t].at \in {"unregister", "store"} => proc[thread[t].p].exited

ProcInv(p) ==
  /\ proc[p].owner = NoOne => proc[p] = NoProc
  /\ proc[p].owner # NoOne => proc[p].index \in -1 .. MaxProcNum - 1
  /\ kernel[p] = "reaped" => proc[p].exited
  /\ proc[p].pid => kernel[p] # "none"
  /\ proc[p].exited => proc[p].status = Code \/ \E u \in Threads : Storing(u) /\ thread[u].p = p

(* j is where the search of a free slot that starts at i ends.             *)
FirstFrom(arr, i, j) ==
  /\ j \in i .. MaxProcNum
  /\ j = MaxProcNum \/ arr[j] = NoOne
  /\ \A k \in i .. j - 1 : arr[k] # NoOne

TableInv ==
  /\ FirstFrom(procArr, 0, firstFree)
  /\ \A i \in Slots : procArr[i] # NoOne => proc[procArr[i]].index = i
  /\ \A p \in Procs : proc[p].index >= 0 => procArr[proc[p].index] = p

Alone == \A t, u \in Threads : Working(t) /\ Working(u) /\ thread[t].p = thread[u].p => t = u

Exact ==
  /\ Types
  /\ \A t \in Threads : ThreadInv(t)
  /\ \A p \in Procs : ProcInv(p)
  /\ TableInv
  /\ Alone
  /\ \A a \in told : a.status = Code

ExactInv == raced = {} => Exact
-----------------------------------------------------------------------------
LEMMA LeastNatural ==
  ASSUME NEW T \in SUBSET Nat, T # {}
  PROVE  \E x \in T : \A y \in T : x <= y
<1> DEFINE R == OpToRel(<, Nat)
<1>1. IsWellFoundedOn(R, Nat)
  BY NatLessThanWellFounded
<1>2. PICK x \in T : \A y \in T : ~ (<<y, x>> \in R)
  <2> HIDE DEF R
  <2> QED BY <1>1, WFMin
<1>3. \A y \in T : y < x => <<y, x>> \in R
  BY DEF OpToRel
<1> HIDE DEF R
<1>4. \A y \in T : ~ (y < x)
  BY <1>2, <1>3
<1>5. x \in Nat /\ \A y \in T : y \in Nat
  OBVIOUS
<1> QED BY <1>4, <1>5

(* The search ends, and at one place only.                                 *)
LEMMA NextFreeFirst ==
  ASSUME ProcessConstants, NEW arr, NEW i \in 0 .. MaxProcNum
  PROVE  FirstFrom(arr, i, NextFree(arr, i))
<1> DEFINE T == {j \in Nat : j \in i .. MaxProcNum /\ (j = MaxProcNum \/ arr[j] = NoOne)}
<1>1. MaxProcNum \in T
  BY DEF ProcessConstants
<1>2. PICK j \in T : \A k \in T : j <= k
  BY <1>1, LeastNatural
<1>3. FirstFrom(arr, i, j)
  <2>1. ASSUME NEW k \in i .. j - 1 PROVE arr[k] # NoOne
    <3>1. k \in Nat /\ k \in i .. MaxProcNum /\ k < j
      BY ProcessConstants DEF ProcessConstants
    <3>2. k \notin T
      BY <1>2, <3>1
    <3> QED BY <3>1, <3>2
  <2> QED BY <2>1 DEF FirstFrom
<1>4. \E k \in i .. MaxProcNum : /\ k = MaxProcNum \/ arr[k] = NoOne
                                 /\ \A l \in i .. k - 1 : arr[l] # NoOne
  BY <1>3 DEF FirstFrom
<1> QED BY <1>4 DEF NextFree, FirstFrom

LEMMA FirstUnique ==
  ASSUME ProcessConstants, NEW arr, NEW j \in Int, NEW k \in Int,
         FirstFrom(arr, 0, j), FirstFrom(arr, 0, k)
  PROVE  j = k
BY DEF FirstFrom, ProcessConstants

-----------------------------------------------------------------------------
LEMMA Shapes ==
  ASSUME Types, NEW t \in Threads
  PROVE  /\ thread[t].at \in {"idle", "make", "purge", "listed", "fork", "waitpid", "runwait",
                              "unregister", "store"}
         /\ thread[t].at = "idle" => thread[t] = Idle
         /\ thread[t].at \in {"make", "purge", "listed", "fork"} => thread[t] \in Loop
         /\ thread[t].at \in {"waitpid", "runwait"} => thread[t] \in Waits
         /\ thread[t].at = "unregister" => thread[t] \in Leaves \cup Reaps
         /\ thread[t].at = "store" => thread[t] \in Reaps
         /\ Storing(t) => thread[t] \in Reaps
<1>1. thread[t] = Idle \/ thread[t] \in Loop \/ thread[t] \in Waits \/ thread[t] \in Leaves
      \/ thread[t] \in Reaps
  BY DEF Types
<1>2. CASE thread[t] = Idle
  BY <1>2 DEF Idle, Storing
<1>3. CASE thread[t] \in Loop
  BY <1>3 DEF Loop, Storing
<1>4. CASE thread[t] \in Waits
  BY <1>4 DEF Waits, Storing
<1>5. CASE thread[t] \in Leaves
  BY <1>5 DEF Leaves, Storing
<1>6. CASE thread[t] \in Reaps
  BY <1>6 DEF Reaps, Storing
<1> QED BY <1>1, <1>2, <1>3, <1>4, <1>5, <1>6

(* A thread that another one does not disturb.                             *)
LEMMA ThreadKept ==
  ASSUME NEW u \in Threads, ThreadInv(u), thread'[u] = thread[u], lock = u => lock' = u,
         Working(u) => proc'[thread[u].p] = proc[thread[u].p],
         \A q \in Procs : lock = u /\ proc[q] = NoProc => proc'[q] = NoProc
  PROVE  ThreadInv(u)'
<1>1. ASSUME NEW r, lock = u, Searching(r) PROVE Searching(r)'
  BY <1>1 DEF Searching
<1>2. (Working(u)' <=> Working(u)) /\ (Storing(u)' <=> Storing(u))
  BY DEF Working, Storing
<1>3. thread[u].at \in {"make", "purge", "listed"} => lock' = u /\ Searching(thread[u])'
  BY <1>1 DEF ThreadInv
<1>4. Storing(u) => IF thread[u].locked THEN lock' = u /\ Searching(thread[u].next)'
                    ELSE thread[u].next = Idle
  BY <1>1 DEF ThreadInv
<1>5. ASSUME Working(u)
      PROVE  /\ thread[u].p \in Procs /\ proc'[thread[u].p].owner # NoOne
             /\ thread[u].at \in {"fork", "waitpid", "runwait"} => ~ proc'[thread[u].p].exited
             /\ thread[u].at \in {"waitpid", "runwait"} => proc'[thread[u].p].pid
             /\ thread[u].at = "unregister" => proc'[thread[u].p].index \in Slots
             /\ thread[u].at \in {"unregister", "store"} => proc'[thread[u].p].exited
  BY <1>5 DEF ThreadInv
<1>6. thread[u].at \in {"fork", "runwait", "waitpid", "unregister", "store"} => Working(u)
  BY DEF Working
<1> QED BY <1>2, <1>3, <1>4, <1>5, <1>6 DEF ThreadInv, Searching, Storing

(* The other threads keep their processes when t moves alone.              *)
LEMMA AloneKept ==
  ASSUME Types, Alone, NEW t \in Threads, NEW r, thread' = [thread EXCEPT ![t] = r],
         Working(t)' => \A u \in Threads \ {t} : Working(u) => thread[u].p # r.p
  PROVE  Alone'
<1>1. thread'[t] = r /\ \A u \in Threads \ {t} : thread'[u] = thread[u]
  BY DEF Types
<1>2. \A u \in Threads \ {t} : Working(u)' <=> Working(u)
  BY <1>1 DEF Working
<1> QED BY <1>1, <1>2 DEF Alone

(* A process of which nothing changes.                                     *)
LEMMA ProcKept ==
  ASSUME NEW p \in Procs, ProcInv(p), proc'[p] = proc[p],
         kernel'[p] = "reaped" => kernel[p] = "reaped",
         kernel[p] # "none" => kernel'[p] # "none",
         \A u \in Threads : Storing(u) /\ thread[u].p = p =>
           proc[p].status = Code \/ (Storing(u)' /\ thread'[u].p = p)
  PROVE  ProcInv(p)'
BY DEF ProcInv

LEMMA TableKept ==
  ASSUME TableInv, UNCHANGED <<procArr, firstFree>>, Types,
         \A p \in Procs : proc'[p].index = proc[p].index
  PROVE  TableInv'
BY DEF TableInv, FirstFrom, Types

(* What a step that changes no process and no slot has to show.            *)
LEMMA MoveStep ==
  ASSUME ProcessConstants, Exact, NEW t \in Threads, NEW r,
         thread' = [thread EXCEPT ![t] = r], UNCHANGED <<proc, procArr, firstFree>>,
         Types', ThreadInv(t)',
         kernel' = kernel,
         \A u \in Threads \ {t} : lock = u => lock' = u,
         Working(t)' => \A u \in Threads \ {t} : Working(u) => thread[u].p # r.p,
         ~ Storing(t),
         \A a \in told' : a.status = Code
  PROVE  Exact'
<1>1. \A u \in Threads \ {t} : thread'[u] = thread[u]
  BY DEF Exact, Types
<1>2. \A u \in Threads : ThreadInv(u)'
  BY <1>1, ThreadKept DEF Exact
<1>3. ASSUME NEW p \in Procs PROVE ProcInv(p)'
  <2>1. \A u \in Threads : Storing(u) /\ thread[u].p = p => Storing(u)' /\ thread'[u].p = p
    BY <1>1 DEF Storing
  <2> QED BY <2>1, ProcKept DEF Exact
<1>4. TableInv'
  BY TableKept DEF Exact
<1>5. Alone'
  BY AloneKept DEF Exact
<1> QED BY <1>2, <1>3, <1>4, <1>5 DEF Exact

LEMMA ChildExitsStep ==
  ASSUME ProcessConstants, Exact, NEW p \in Procs, ChildExits(p)
  PROVE  Exact'
<1>1. Types'
  BY DEF Exact, Types, ChildExits
<1>2. \A u \in Threads : ThreadInv(u)'
  BY ThreadKept DEF Exact, ChildExits
<1>3. ASSUME NEW q \in Procs PROVE ProcInv(q)'
  <2>1. kernel'[q] = "reaped" => kernel[q] = "reaped"
    BY DEF Exact, Types, ChildExits
  <2>2. kernel[q] # "none" => kernel'[q] # "none"
    BY DEF Exact, Types, ChildExits
  <2>3. proc' = proc /\ thread' = thread
    BY DEF ChildExits
  <2> QED BY <2>1, <2>2, <2>3, ProcKept DEF Exact, Storing
<1>4. TableInv'
  BY TableKept DEF Exact, ChildExits
<1>5. Alone'
  BY DEF Exact, Alone, Working, ChildExits
<1> QED BY <1>1, <1>2, <1>3, <1>4, <1>5 DEF Exact, ChildExits

LEMMA RunProcessStep ==
  ASSUME ProcessConstants, Exact, NEW t \in Threads, NEW p \in Procs, NEW waiting \in BOOLEAN,
         RunProcess(t, p, waiting)
  PROVE  Exact'
<1> DEFINE r == [at |-> IF firstFree = MaxProcNum THEN "purge" ELSE "make", p |-> p,
                 waiting |-> waiting, i |-> 0, for |-> "make"]
<1>1. /\ thread[t] = Idle /\ lock = NoOne /\ lock' = t /\ proc[p] = NoProc
      /\ thread' = [thread EXCEPT ![t] = r]
      /\ UNCHANGED <<kernel, proc, procArr, firstFree, told>>
  BY DEF RunProcess, Unused, Goto
<1>2. r \in Loop
  BY DEF ProcessConstants, Loop
<1>3. Types'
  BY <1>1, <1>2 DEF Exact, Types
<1>4. thread'[t] = r
  BY <1>1 DEF Exact, Types
<1>5. ThreadInv(t)'
  <2>1. Searching(thread[t])'
    BY <1>1, <1>2, <1>4 DEF Searching, ProcessConstants
  <2>2. thread'[t].at \in {"make", "purge"}
    BY <1>4
  <2> QED BY <1>1, <2>1, <2>2 DEF ThreadInv, Storing, Working
<1>6. ~ Working(t)' /\ ~ Storing(t)
  BY <1>1, <1>4 DEF Working, Storing, Idle
<1>7. \A u \in Threads : lock # u
  BY <1>1 DEF ProcessConstants
<1> HIDE DEF r
<1> QED BY <1>1, <1>3, <1>5, <1>6, <1>7, MoveStep DEF Exact

LEMMA ListStep ==
  ASSUME ProcessConstants, Exact, NEW t \in Threads, CProcessList(t)
  PROVE  Exact'
<1> DEFINE r == [at |-> "purge", p |-> NoOne, waiting |-> FALSE, i |-> 0, for |-> "listed"]
<1>1. /\ thread[t] = Idle /\ lock = NoOne /\ lock' = t
      /\ thread' = [thread EXCEPT ![t] = r]
      /\ UNCHANGED <<kernel, proc, procArr, firstFree, told>>
  BY DEF CProcessList, Goto
<1>2. r \in Loop
  BY DEF ProcessConstants, Loop
<1>3. Types'
  BY <1>1, <1>2 DEF Exact, Types
<1>4. thread'[t] = r
  BY <1>1 DEF Exact, Types
<1>5. ThreadInv(t)'
  <2>1. Searching(thread[t])'
    BY <1>1, <1>2, <1>4 DEF Searching, ProcessConstants
  <2>2. thread'[t].at \in {"make", "purge"}
    BY <1>4
  <2> QED BY <1>1, <2>1, <2>2 DEF ThreadInv, Storing, Working
<1>6. ~ Working(t)' /\ ~ Storing(t)
  BY <1>1, <1>4 DEF Working, Storing, Idle
<1>7. \A u \in Threads : lock # u
  BY <1>1 DEF ProcessConstants
<1> HIDE DEF r
<1> QED BY <1>1, <1>3, <1>5, <1>6, <1>7, MoveStep DEF Exact

LEMMA ListedStep ==
  ASSUME ProcessConstants, Exact, NEW t \in Threads, Listed(t)
  PROVE  Exact'
<1>1. /\ thread[t].at = "listed" /\ lock' = NoOne
      /\ thread' = [thread EXCEPT ![t] = Idle]
      /\ UNCHANGED <<kernel, proc, procArr, firstFree, told>>
  BY DEF Listed, Goto
<1>2. lock = t
  BY <1>1 DEF Exact, ThreadInv
<1>3. Types'
  BY <1>1 DEF Exact, Types
<1>4. thread'[t] = Idle
  BY <1>1 DEF Exact, Types
<1>5. ThreadInv(t)'
  BY <1>4 DEF ThreadInv, Storing, Working, Idle
<1>6. ~ Working(t)' /\ ~ Storing(t)
  BY <1>1, <1>4 DEF Working, Storing, Idle
<1> QED BY <1>1, <1>2, <1>3, <1>5, <1>6, MoveStep DEF Exact

LEMMA WaitStep ==
  ASSUME ProcessConstants, Exact, NEW t \in Threads, NEW p \in Procs, CProcessWait(t, p),
         raced = {}, raced' = {}
  PROVE  Exact'
<1> DEFINE r == [at |-> "waitpid", p |-> p]
<1>1. /\ thread[t] = Idle /\ proc[p].owner = t /\ ~ proc[p].exited /\ proc[p].pid
      /\ thread' = [thread EXCEPT ![t] = r] /\ ~ Busy(t, p)
      /\ UNCHANGED <<kernel, proc, procArr, firstFree, lock, told>>
  BY DEF CProcessWait, Goto, Races
<1>2. r \in Waits
  BY DEF Waits
<1>3. Types'
  BY <1>1, <1>2 DEF Exact, Types
<1>4. thread'[t] = r
  BY <1>1 DEF Exact, Types
<1>5. ThreadInv(t)'
  <2>1. proc[p].owner # NoOne
    BY <1>1 DEF ProcessConstants
  <2> QED BY <1>1, <1>4, <2>1 DEF ThreadInv, Storing, Working
<1>6. ~ Storing(t)
  BY <1>1 DEF Storing, Idle
<1>7. \A u \in Threads \ {t} : Working(u) => thread[u].p # r.p
  BY <1>1 DEF Busy, Working
<1> HIDE DEF r
<1> QED BY <1>1, <1>3, <1>5, <1>6, <1>7, MoveStep DEF Exact

(* What a step of t on its process p has to show.                          *)
LEMMA WorkStep ==
  ASSUME ProcessConstants, Exact, NEW t \in Threads, NEW p \in Procs, NEW r,
         thread' = [thread EXCEPT ![t] = r], lock' = lock,
         \A q \in Procs \ {p} : proc'[q] = proc[q] /\ kernel'[q] = kernel[q],
         proc[p].owner # NoOne,
         \A u \in Threads \ {t} : Working(u) => thread[u].p # p,
         Working(t)' => r.p = p,
         Storing(t) => thread[t].p = p,
         Types', ThreadInv(t)', ProcInv(p)', TableInv',
         \A a \in told' : a.status = Code
  PROVE  Exact'
<1>1. thread'[t] = r /\ \A u \in Threads \ {t} : thread'[u] = thread[u]
  BY DEF Exact, Types
<1>2. ASSUME NEW u \in Threads \ {t} PROVE ThreadInv(u)'
  <2>1. Working(u) => proc'[thread[u].p] = proc[thread[u].p]
    BY DEF Exact, ThreadInv
  <2>2. \A q \in Procs : proc[q] = NoProc => proc'[q] = NoProc
    BY DEF NoProc
  <2> QED BY <1>1, <2>1, <2>2, ThreadKept DEF Exact
<1>3. ASSUME NEW q \in Procs \ {p} PROVE ProcInv(q)'
  <2>1. \A u \in Threads : Storing(u) /\ thread[u].p = q => Storing(u)' /\ thread'[u].p = q
    BY <1>1 DEF Storing
  <2> QED BY <2>1, ProcKept DEF Exact
<1>4. Alone'
  BY AloneKept DEF Exact
<1> QED BY <1>2, <1>3, <1>4 DEF Exact

LEMMA ForkStep ==
  ASSUME ProcessConstants, Exact, NEW t \in Threads, NEW ok \in BOOLEAN, Fork(t, ok)
  PROVE  Exact'
<1>0. PICK p \in Procs : p = thread[t].p
  BY DEF Fork, Exact, ThreadInv, Working
<1>1. /\ thread[t].at = "fork" /\ p = thread[t].p /\ proc[p].owner # NoOne /\ ~ proc[p].exited
      /\ Working(t) /\ ~ Storing(t)
  BY <1>0 DEF Fork, Exact, ThreadInv, Working, Storing
<1>2. \A u \in Threads \ {t} : Working(u) => thread[u].p # p
  BY <1>1 DEF Exact, Alone
<1>3. lock' = lock /\ told' = told /\ procArr' = procArr /\ firstFree' = firstFree
  BY DEF Fork
<1>4. CASE ~ ok
  <2>1. thread' = [thread EXCEPT ![t] = Idle] /\ proc' = proc /\ kernel' = kernel
    BY <1>4 DEF Fork, Goto
  <2>2. thread'[t] = Idle
    BY <2>1 DEF Exact, Types
  <2>3. Types'
    BY <1>3, <2>1 DEF Exact, Types
  <2>4. ThreadInv(t)' /\ ~ Working(t)'
    BY <2>2 DEF ThreadInv, Storing, Working, Idle
  <2> QED BY <1>1, <1>3, <2>1, <2>3, <2>4, MoveStep DEF Exact
<1>5. CASE ok
  <2> DEFINE r == IF thread[t].waiting THEN [at |-> "runwait", p |-> p] ELSE Idle
  <2>1. /\ thread' = [thread EXCEPT ![t] = r]
        /\ kernel' = [kernel EXCEPT ![p] = "running"] /\ proc' = [proc EXCEPT ![p].pid = TRUE]
    BY <1>1, <1>5 DEF Fork, Goto
  <2>2. thread'[t] = r
    BY <2>1 DEF Exact, Types
  <2>3. r \in {Idle} \cup Waits
    BY <1>1 DEF Waits
  <2>4. Types'
    <3>1. proc' \in [Procs -> Process]
      BY <1>1, <2>1, ZenonT(40) DEF Exact, Types, Process
    <3>2. thread' \in [Threads -> {Idle} \cup Loop \cup Waits \cup Leaves \cup Reaps]
      BY <2>1, <2>3 DEF Exact, Types
    <3>3. kernel' \in [Procs -> {"none", "running", "zombie", "reaped"}]
      BY <2>1 DEF Exact, Types
    <3> QED BY <1>3, <3>1, <3>2, <3>3 DEF Exact, Types
  <2>5. /\ proc'[p].pid /\ proc'[p].owner = proc[p].owner /\ proc'[p].exited = proc[p].exited
        /\ proc'[p].index = proc[p].index /\ proc'[p].status = proc[p].status
        /\ kernel'[p] = "running"
        /\ \A q \in Procs \ {p} : proc'[q] = proc[q] /\ kernel'[q] = kernel[q]
    BY <1>1, <2>1 DEF Exact, Types, Process
  <2>6. ThreadInv(t)' /\ (Working(t)' => r.p = p)
    <3>1. CASE thread[t].waiting
      BY <1>1, <2>2, <2>5, <3>1 DEF ThreadInv, Storing, Working
    <3>2. CASE ~ thread[t].waiting
      BY <2>2, <3>2 DEF ThreadInv, Storing, Working, Idle
    <3> QED BY <3>1, <3>2
  <2>7. ProcInv(p)'
    BY <1>1, <2>5 DEF Exact, ProcInv
  <2>8. TableInv'
    BY <1>3, <2>5, TableKept DEF Exact
  <2> HIDE DEF r
  <2> QED BY <1>1, <1>2, <1>3, <2>1, <2>4, <2>5, <2>6, <2>7, <2>8, WorkStep DEF Exact
<1> QED BY <1>4, <1>5

(* The slot of p is free again.                                            *)
LEMMA UnregisterTable ==
  ASSUME ProcessConstants, Exact, NEW p \in Procs, NEW i \in Slots, proc[p].index = i,
         procArr' = [procArr EXCEPT ![i] = NoOne], firstFree' = FirstFreeLowered(i),
         proc'[p].index = -1, \A q \in Procs \ {p} : proc'[q].index = proc[q].index
  PROVE  TableInv'
<1>1. procArr[i] = p /\ i \in Int /\ i >= 0 /\ i < MaxProcNum
  BY DEF Exact, TableInv, Slots, ProcessConstants
<1>2. \A k \in Slots : procArr'[k] = IF k = i THEN NoOne ELSE procArr[k]
  BY DEF Exact, Types
<1>3. firstFree \in 0 .. MaxProcNum /\ FirstFrom(procArr, 0, firstFree)
  BY DEF Exact, Types, TableInv
<1>4. FirstFrom(procArr, 0, firstFree)'
  <2>1. CASE i < firstFree
    <3>1. firstFree' = i
      BY <2>1 DEF FirstFreeLowered
    <3>2. \A k \in 0 .. i - 1 : k \in Slots /\ k # i /\ procArr[k] # NoOne
      BY <1>1, <1>3, <2>1 DEF Slots, FirstFrom, ProcessConstants
    <3> QED BY <1>1, <1>2, <3>1, <3>2 DEF FirstFrom, ProcessConstants
  <2>2. CASE ~ (i < firstFree)
    <3>1. firstFree' = firstFree
      BY <2>2 DEF FirstFreeLowered
    <3>2. \A k \in 0 .. firstFree - 1 : k \in Slots /\ k # i /\ procArr[k] # NoOne
      BY <1>1, <1>3, <2>2 DEF Slots, FirstFrom, ProcessConstants
    <3>3. firstFree # MaxProcNum => firstFree \in Slots /\ procArr[firstFree] = NoOne
      BY <1>3 DEF FirstFrom, Slots, ProcessConstants
    <3> QED BY <1>2, <1>3, <3>1, <3>2, <3>3 DEF FirstFrom
  <2> QED BY <2>1, <2>2
<1>5. ASSUME NEW k \in Slots, procArr'[k] # NoOne PROVE proc'[procArr'[k]].index = k
  <2>1. k # i /\ procArr'[k] = procArr[k] /\ procArr[k] \in Procs /\ proc[procArr[k]].index = k
    BY <1>2, <1>5 DEF Exact, Types, TableInv
  <2> QED BY <2>1
<1>6. ASSUME NEW q \in Procs, proc'[q].index >= 0 PROVE procArr'[proc'[q].index] = q
  <2>1. q # p /\ proc'[q].index = proc[q].index /\ procArr[proc[q].index] = q
    BY <1>6 DEF Exact, TableInv
  <2>2. proc[q].index \in Slots
    <3>1. proc[q].index \in Int /\ proc[q].index >= 0 /\ proc[q].owner # NoOne
      BY <1>6, <2>1 DEF Exact, Types, Process, ProcInv, NoProc
    <3> QED BY <3>1 DEF Exact, ProcInv, Slots
  <2>3. proc[q].index # i
    BY <1>1, <2>1
  <2> QED BY <1>2, <2>1, <2>2, <2>3
<1> QED BY <1>4, <1>5, <1>6 DEF TableInv

LEMMA UnregisterStep ==
  ASSUME ProcessConstants, Exact, NEW t \in Threads, CUnregisterProcess(t)
  PROVE  Exact'
<1>0. PICK p \in Procs : p = thread[t].p
  BY DEF CUnregisterProcess, Exact, ThreadInv, Working
<1> DEFINE i == proc[p].index
           r == IF thread[t].then = "idle" THEN Idle ELSE [thread[t] EXCEPT !.at = "store"]
<1>1. /\ thread[t].at = "unregister" /\ p = thread[t].p /\ proc[p].owner # NoOne /\ i \in Slots
      /\ proc[p].exited /\ Working(t)
  BY <1>0 DEF CUnregisterProcess, Exact, ThreadInv, Working
<1>2. \A u \in Threads \ {t} : Working(u) => thread[u].p # p
  BY <1>1 DEF Exact, Alone
<1>3. /\ procArr' = [procArr EXCEPT ![i] = NoOne] /\ firstFree' = FirstFreeLowered(i)
      /\ proc' = [proc EXCEPT ![p].index = -1] /\ thread' = [thread EXCEPT ![t] = r]
      /\ UNCHANGED <<kernel, lock, told>>
  BY <1>1 DEF CUnregisterProcess, Goto, Slots, ProcessConstants
<1>4. /\ proc'[p].owner = proc[p].owner /\ proc'[p].exited = proc[p].exited
      /\ proc'[p].pid = proc[p].pid /\ proc'[p].index = -1 /\ proc'[p].status = proc[p].status
      /\ \A q \in Procs \ {p} : proc'[q] = proc[q]
  BY <1>1, <1>3 DEF Exact, Types, Process
<1>5. thread'[t] = r
  BY <1>3 DEF Exact, Types
<1>6. thread[t] \in Leaves \cup Reaps
  BY <1>1, Shapes DEF Exact
<1>7. CASE thread[t] \in Leaves
  <2>1. thread'[t] = Idle /\ ~ Storing(t)
    BY <1>5, <1>7 DEF Leaves, Storing
  <2>2. ThreadInv(t)' /\ ~ Working(t)'
    BY <2>1 DEF ThreadInv, Storing, Working, Idle
  <2>3. Types'
    <3>1. proc' \in [Procs -> Process]
      BY <1>1, <1>3 DEF Exact, Types, Process
    <3>2. firstFree' \in 0 .. MaxProcNum
      BY <1>1, <1>3 DEF FirstFreeLowered, Exact, Types, Slots, ProcessConstants
    <3>3. procArr' \in [Slots -> Procs \cup {NoOne}]
      BY <1>3 DEF Exact, Types
    <3>4. thread' \in [Threads -> {Idle} \cup Loop \cup Waits \cup Leaves \cup Reaps]
      BY <1>3, <1>5, <2>1 DEF Exact, Types
    <3> QED BY <1>3, <3>1, <3>2, <3>3, <3>4 DEF Exact, Types
  <2>4. proc[p].status = Code
    BY <1>1, <1>2, <2>1 DEF Exact, ProcInv, Storing, Working
  <2>5. ProcInv(p)'
    BY <1>1, <1>3, <1>4, <2>4 DEF Exact, ProcInv, ProcessConstants
  <2>6. TableInv'
    BY <1>1, <1>3, <1>4, UnregisterTable
  <2> HIDE DEF r
  <2> QED BY <1>1, <1>2, <1>3, <1>4, <2>1, <2>2, <2>3, <2>5, <2>6, WorkStep DEF Exact
<1>8. CASE thread[t] \in Reaps
  <2>0. thread[t].then = "store"
    BY <1>8 DEF Reaps
  <2>1. thread'[t] = [thread[t] EXCEPT !.at = "store"]
    BY <1>5, <2>0
  <2>2. /\ thread'[t].at = "store" /\ thread'[t].p = p /\ thread'[t].then = "store"
        /\ thread'[t].locked = thread[t].locked /\ thread'[t].next = thread[t].next
        /\ thread'[t] \in Reaps /\ thread[t].then = "store"
    BY <1>1, <1>8, <2>1 DEF Reaps
  <2>3. Storing(t) /\ Storing(t)' /\ Working(t)'
    BY <1>1, <2>2 DEF Storing, Working
  <2>4. \A q : Searching(q) => Searching(q)'
    BY <1>1, <1>4 DEF Searching, NoProc
  <2>5. ThreadInv(t)'
    <3>1. IF thread'[t].locked THEN lock' = t /\ Searching(thread[t].next)'
          ELSE thread'[t].next = Idle
      BY <1>3, <2>2, <2>3, <2>4 DEF Exact, ThreadInv, Searching
    <3> QED BY <1>1, <1>4, <2>2, <2>3, <3>1 DEF ThreadInv
  <2>6. Types'
    <3>1. proc' \in [Procs -> Process]
      BY <1>1, <1>3 DEF Exact, Types, Process
    <3>2. firstFree' \in 0 .. MaxProcNum
      BY <1>1, <1>3 DEF FirstFreeLowered, Exact, Types, Slots, ProcessConstants
    <3>3. procArr' \in [Slots -> Procs \cup {NoOne}]
      BY <1>3 DEF Exact, Types
    <3>4. thread' \in [Threads -> {Idle} \cup Loop \cup Waits \cup Leaves \cup Reaps]
      BY <1>3, <1>5, <2>2 DEF Exact, Types
    <3> QED BY <1>3, <3>1, <3>2, <3>3, <3>4 DEF Exact, Types
  <2>7. ProcInv(p)'
    BY <1>1, <1>3, <1>4, <2>2, <2>3 DEF Exact, ProcInv, ProcessConstants
  <2>8. TableInv'
    BY <1>1, <1>3, <1>4, UnregisterTable
  <2>9. r.p = p
    BY <1>5, <2>2
  <2> HIDE DEF r
  <2> QED BY <1>1, <1>2, <1>3, <1>4, <2>5, <2>6, <2>7, <2>8, <2>9, WorkStep DEF Exact
<1> QED BY <1>6, <1>7, <1>8

LEMMA StoreStep ==
  ASSUME ProcessConstants, Exact, NEW t \in Threads, Store(t)
  PROVE  Exact'
<1>0. PICK p \in Procs : p = thread[t].p
  BY DEF Store, Exact, ThreadInv, Working
<1> DEFINE r == thread[t].next
<1>1. thread[t].at = "store" /\ thread[t] \in Reaps
  BY Shapes DEF Store, Exact
<1>2. /\ proc[p].owner # NoOne /\ proc[p].exited /\ Working(t) /\ Storing(t)
      /\ thread[t].info = Code /\ r \in {Idle} \cup Loop
  BY <1>0, <1>1 DEF Exact, ThreadInv, Working, Storing, Reaps
<1>3. \A u \in Threads \ {t} : Working(u) => thread[u].p # p
  BY <1>0, <1>2 DEF Exact, Alone
<1>4. /\ proc' = [proc EXCEPT ![p].status = Code] /\ thread' = [thread EXCEPT ![t] = r]
      /\ UNCHANGED <<kernel, procArr, firstFree, lock, told>>
  BY <1>0, <1>2 DEF Store, Goto, StatusStored
<1>5. /\ proc'[p].owner = proc[p].owner /\ proc'[p].exited = proc[p].exited
      /\ proc'[p].pid = proc[p].pid /\ proc'[p].index = proc[p].index /\ proc'[p].status = Code
      /\ \A q \in Procs \ {p} : proc'[q] = proc[q]
  BY <1>4 DEF Exact, Types, Process
<1>6. thread'[t] = r
  BY <1>4 DEF Exact, Types
<1>7. Types'
  <2>1. proc' \in [Procs -> Process]
    BY <1>4 DEF Exact, Types, Process
  <2>2. thread' \in [Threads -> {Idle} \cup Loop \cup Waits \cup Leaves \cup Reaps]
    BY <1>2, <1>4 DEF Exact, Types
  <2> QED BY <1>4, <2>1, <2>2 DEF Exact, Types
<1>8. ThreadInv(t)' /\ ~ Working(t)'
  <2>1. CASE thread[t].locked
    <3>1. lock' = t /\ Searching(r)
      BY <1>2, <1>4, <2>1 DEF Exact, ThreadInv
    <3>2. Searching(thread[t])'
      BY <1>2, <1>5, <1>6, <3>1 DEF Searching, NoProc
    <3>3. thread'[t].at \in {"make", "purge", "listed"}
      BY <1>6, <3>1 DEF Searching, Loop
    <3> QED BY <3>1, <3>2, <3>3 DEF ThreadInv, Storing, Working
  <2>2. CASE ~ thread[t].locked
    <3>1. thread'[t] = Idle
      BY <1>2, <1>6, <2>2 DEF Exact, ThreadInv
    <3> QED BY <3>1 DEF ThreadInv, Storing, Working, Idle
  <2> QED BY <2>1, <2>2
<1>9. ProcInv(p)'
  BY <1>2, <1>4, <1>5 DEF Exact, ProcInv
<1>10. TableInv'
  BY <1>4, <1>5, TableKept DEF Exact
<1> HIDE DEF r
<1> QED BY <1>0, <1>2, <1>3, <1>4, <1>5, <1>7, <1>8, <1>9, <1>10, WorkStep DEF Exact

LEMMA WaitpidStep ==
  ASSUME ProcessConstants, Exact, NEW t \in Threads, Waitpid(t)
  PROVE  Exact'
<1>0. PICK p \in Procs : p = thread[t].p
  BY DEF Waitpid, Exact, ThreadInv, Working
<1> DEFINE r == IF proc[p].index # -1
                THEN [at |-> "unregister", p |-> p, locked |-> FALSE, then |-> "idle"] ELSE Idle
<1>1. /\ thread[t].at \in {"waitpid", "runwait"} /\ proc[p].owner # NoOne /\ ~ proc[p].exited
      /\ Working(t) /\ ~ Storing(t)
  BY <1>0 DEF Waitpid, Exact, ThreadInv, Working, Storing
<1>2. kernel[p] = "zombie"
  BY <1>0, <1>1 DEF Waitpid, Exact, ProcInv
<1>3. \A u \in Threads \ {t} : Working(u) => thread[u].p # p
  BY <1>0, <1>1 DEF Exact, Alone
<1>4. /\ proc' = [proc EXCEPT ![p].exited = TRUE, ![p].status = Code]
      /\ kernel' = [kernel EXCEPT ![p] = "reaped"] /\ thread' = [thread EXCEPT ![t] = r]
      /\ UNCHANGED <<procArr, firstFree, lock, told>>
  BY <1>0, <1>2 DEF Waitpid, Goto
<1>5. /\ proc'[p].owner = proc[p].owner /\ proc'[p].exited
      /\ proc'[p].pid = proc[p].pid /\ proc'[p].index = proc[p].index /\ proc'[p].status = Code
      /\ kernel'[p] = "reaped"
      /\ \A q \in Procs \ {p} : proc'[q] = proc[q] /\ kernel'[q] = kernel[q]
  BY <1>4 DEF Exact, Types, Process
<1>6. thread'[t] = r
  BY <1>4 DEF Exact, Types
<1>7. Types'
  <2>1. proc' \in [Procs -> Process]
    BY <1>4, ZenonT(40) DEF Exact, Types, Process
  <2>2. thread' \in [Threads -> {Idle} \cup Loop \cup Waits \cup Leaves \cup Reaps]
    BY <1>4 DEF Exact, Types, Leaves
  <2>3. kernel' \in [Procs -> {"none", "running", "zombie", "reaped"}]
    BY <1>4 DEF Exact, Types
  <2> QED BY <1>4, <2>1, <2>2, <2>3 DEF Exact, Types
<1>8. ThreadInv(t)' /\ (Working(t)' => r.p = p)
  <2>1. CASE proc[p].index # -1
    <3>1. proc[p].index \in Slots
      BY <1>1, <2>1 DEF Exact, ProcInv, Slots, ProcessConstants
    <3> QED BY <1>1, <1>5, <1>6, <2>1, <3>1 DEF ThreadInv, Storing, Working
  <2>2. CASE proc[p].index = -1
    BY <1>6, <2>2 DEF ThreadInv, Storing, Working, Idle
  <2> QED BY <2>1, <2>2
<1>9. ProcInv(p)'
  BY <1>1, <1>2, <1>5 DEF Exact, ProcInv
<1>10. TableInv'
  BY <1>4, <1>5, TableKept DEF Exact
<1> HIDE DEF r
<1> QED BY <1>0, <1>1, <1>3, <1>4, <1>5, <1>7, <1>8, <1>9, <1>10, WorkStep DEF Exact

(* A dead child is marked, by a thread that goes on in frame next.         *)
LEMMA ReapStep ==
  ASSUME ProcessConstants, Exact, NEW t \in Threads, NEW p \in Procs, NEW locked \in BOOLEAN,
         NEW next \in {Idle} \cup Loop, NEW r,
         r = [at |-> IF proc[p].index # -1 THEN "unregister" ELSE "store",
              p |-> p, locked |-> locked, info |-> Code, then |-> "store", next |-> next],
         proc[p].owner # NoOne, proc[p].pid, ~ Working(t), ~ Busy(t, p),
         kernel' = [kernel EXCEPT ![p] = "reaped"], proc' = [proc EXCEPT ![p].exited = TRUE],
         thread' = [thread EXCEPT ![t] = r], UNCHANGED <<procArr, firstFree, lock>>,
         IF locked THEN lock = t /\ Searching(next) ELSE next = Idle,
         \A a \in told' : a.status = Code
  PROVE  Exact'
<1>1. /\ proc'[p].owner = proc[p].owner /\ proc'[p].exited
      /\ proc'[p].pid = proc[p].pid /\ proc'[p].index = proc[p].index
      /\ proc'[p].status = proc[p].status
      /\ kernel'[p] = "reaped"
      /\ \A q \in Procs \ {p} : proc'[q] = proc[q] /\ kernel'[q] = kernel[q]
  BY DEF Exact, Types, Process
<1>2. thread'[t] = r
  BY DEF Exact, Types
<1>3. /\ r \in Reaps /\ r.p = p /\ r.next = next /\ r.locked = locked /\ r.then = "store"
      /\ r.at = IF proc[p].index # -1 THEN "unregister" ELSE "store"
  BY DEF Reaps
<1>4. Types'
  <2>1. proc' \in [Procs -> Process]
    BY ZenonT(40) DEF Exact, Types, Process
  <2>2. thread' \in [Threads -> {Idle} \cup Loop \cup Waits \cup Leaves \cup Reaps]
    BY <1>3 DEF Exact, Types
  <2>3. kernel' \in [Procs -> {"none", "running", "zombie", "reaped"}]
    BY DEF Exact, Types
  <2> QED BY <2>1, <2>2, <2>3 DEF Exact, Types
<1>5. Storing(t)' /\ Working(t)' /\ ~ Storing(t)
  BY <1>2, <1>3 DEF Storing, Working
<1>6. ThreadInv(t)'
  <2>1. IF locked THEN lock' = t /\ Searching(next)' ELSE next = Idle
    <3>1. \A q \in Procs : proc[q] = NoProc => proc'[q] = NoProc
      BY <1>1 DEF NoProc
    <3> QED BY <3>1 DEF Searching
  <2>2. IF thread'[t].locked THEN lock' = t /\ Searching(thread[t].next)'
        ELSE thread'[t].next = Idle
    BY <1>2, <1>3, <2>1 DEF Searching
  <2>3. proc[p].index # -1 => proc[p].index \in Slots
    BY DEF Exact, ProcInv, Slots, ProcessConstants
  <2> QED BY <1>1, <1>2, <1>3, <2>2, <2>3 DEF ThreadInv
<1>7. ProcInv(p)'
  <2>1. \E u \in Threads : Storing(u)' /\ thread'[u].p = p
    BY <1>2, <1>3, <1>5
  <2> QED BY <1>1, <2>1 DEF Exact, ProcInv
<1>8. TableInv'
  BY <1>1, TableKept DEF Exact
<1>9. \A u \in Threads \ {t} : Working(u) => thread[u].p # p
  BY DEF Busy, Working
<1> QED BY <1>1, <1>3, <1>4, <1>5, <1>6, <1>7, <1>8, <1>9, WorkStep DEF Exact

(* A process object of which two fields are written.                       *)
LEMMA WrittenProcess ==
  ASSUME NEW x \in Process, NEW k \in Int, NEW o \in Threads
  PROVE  [x EXCEPT !.index = k, !.owner = o] \in Process
BY DEF Process

LEMMA AlivepStep ==
  ASSUME ProcessConstants, Exact, NEW t \in Threads, NEW p \in Procs, CProcessAlivep(t, p),
         raced = {}, raced' = {}
  PROVE  Exact'
<1>1. /\ thread[t] = Idle /\ proc[p].owner = t /\ ~ Busy(t, p)
      /\ UNCHANGED <<procArr, firstFree, lock, told>>
  BY DEF CProcessAlivep, Races
<1>2. ~ Working(t) /\ ~ Storing(t)
  BY <1>1 DEF Working, Storing, Idle
<1>3. CASE proc[p].exited \/ ~ proc[p].pid \/ kernel[p] # "zombie"
  <2>1. thread' = [thread EXCEPT ![t] = Idle] /\ proc' = proc /\ kernel' = kernel
    BY <1>3 DEF CProcessAlivep, AlivepStart, Goto
  <2>2. thread' = thread
    BY <1>1, <2>1 DEF Exact, Types
  <2>3. Types' /\ ThreadInv(t)'
    BY <1>1, <2>1, <2>2, ThreadKept DEF Exact, Types
  <2>4. ~ Working(t)'
    BY <1>2, <2>2 DEF Working
  <2> QED BY <1>1, <1>2, <2>1, <2>3, <2>4, MoveStep DEF Exact
<1>4. CASE ~ (proc[p].exited \/ ~ proc[p].pid \/ kernel[p] # "zombie")
  <2> DEFINE r == [at |-> IF proc[p].index # -1 THEN "unregister" ELSE "store",
                   p |-> p, locked |-> FALSE, info |-> Code, then |-> "store", next |-> Idle]
  <2>1. /\ kernel' = [kernel EXCEPT ![p] = "reaped"] /\ proc' = [proc EXCEPT ![p].exited = TRUE]
        /\ thread' = [thread EXCEPT ![t] = r]
    BY <1>4 DEF CProcessAlivep, AlivepStart, Goto
  <2>2. proc[p].owner # NoOne
    BY <1>1 DEF ProcessConstants
  <2> QED BY <1>1, <1>2, <1>4, <2>1, <2>2, ReapStep DEF Exact
<1> QED BY <1>3, <1>4

LEMMA PurgeStep ==
  ASSUME ProcessConstants, Exact, NEW t \in Threads, PurgeProcessTable(t), raced = {}, raced' = {}
  PROVE  Exact'
<1> DEFINE i == thread[t].i
           a == IF i + 1 < MaxProcNum THEN "purge" ELSE thread[t].for
           next == [thread[t] EXCEPT !.i = i + 1, !.at = a]
<1>1. /\ thread[t].at = "purge" /\ thread[t] \in Loop /\ lock = t /\ Searching(thread[t])
      /\ UNCHANGED <<procArr, firstFree, lock, told>>
  BY Shapes DEF PurgeProcessTable, Exact, ThreadInv
<1>2. ~ Working(t) /\ ~ Storing(t)
  BY <1>1 DEF Working, Storing
<1>3. i \in Slots /\ i \in 0 .. MaxProcNum - 1
  BY <1>1 DEF Searching, Loop, Slots, ProcessConstants
<1>4. /\ next \in Loop /\ next.i = i + 1 /\ next.p = thread[t].p /\ next.for = thread[t].for
      /\ next.at = a
  <2>1. i + 1 \in 0 .. MaxProcNum
    BY <1>3 DEF ProcessConstants
  <2>2. a \in {"make", "purge", "listed", "fork"}
    BY <1>1 DEF Loop
  <2>3. PICK k \in 0 .. MaxProcNum : k = i + 1
    BY <2>1
  <2>4. PICK b \in {"make", "purge", "listed", "fork"} : b = a
    BY <2>2
  <2>5. PICK x \in Loop : x = thread[t]
    BY <1>1
  <2>6. next = [x EXCEPT !.i = k, !.at = b]
    BY <2>3, <2>4, <2>5
  <2> HIDE DEF next, a, i
  <2>7. next \in Loop /\ next.at = b /\ next.i = k /\ next.p = x.p /\ next.for = x.for
    BY <2>6 DEF Loop
  <2> QED BY <2>3, <2>4, <2>5, <2>7
<1>5. Searching(next) /\ next.at \in {"purge", "make", "listed"}
  <2>1. next.at \in {"purge", "make", "listed"} /\ (next.at = "make" => next.for = "make")
    BY <1>1, <1>4 DEF Loop
  <2>2. next.at = "purge" => next.i < MaxProcNum
    <3>1. CASE i + 1 < MaxProcNum
      BY <1>4, <3>1
    <3>2. CASE ~ (i + 1 < MaxProcNum)
      BY <1>1, <1>4, <3>2 DEF Loop
    <3> QED BY <3>1, <3>2
  <2>3. next.for = "make" => next.p \in Procs /\ proc[next.p] = NoProc
    BY <1>1, <1>4 DEF Searching
  <2> HIDE DEF next
  <2> QED BY <1>4, <2>1, <2>2, <2>3 DEF Searching
<1>6. ASSUME thread' = [thread EXCEPT ![t] = next], proc' = proc, kernel' = kernel
      PROVE  Exact'
  <2>1. thread'[t] = next
    BY <1>6 DEF Exact, Types
  <2>2. Types'
    BY <1>1, <1>4, <1>6 DEF Exact, Types
  <2>3. ThreadInv(t)' /\ ~ Working(t)'
    <3>1. Searching(thread[t])'
      BY <1>5, <1>6, <2>1 DEF Searching
    <3>2. thread'[t].at \in {"purge", "make", "listed"} /\ lock' = t
      BY <1>1, <1>5, <2>1
    <3> HIDE DEF next
    <3> QED BY <3>1, <3>2 DEF ThreadInv, Storing, Working
  <2> HIDE DEF next
  <2> QED BY <1>1, <1>2, <1>6, <2>2, <2>3, MoveStep DEF Exact
<1>7. CASE procArr[i] = NoOne
  <2>1. thread' = [thread EXCEPT ![t] = next] /\ proc' = proc /\ kernel' = kernel
    BY <1>7 DEF PurgeProcessTable, Goto
  <2> QED BY <1>6, <2>1
<1>8. CASE procArr[i] # NoOne
  <2>1. PICK p \in Procs : p = procArr[i]
    BY <1>3, <1>8 DEF Exact, Types
  <2>2. AlivepStart(t, p, TRUE, next) /\ Races(t, p)
    BY <1>8, <2>1 DEF PurgeProcessTable
  <2>3. ~ Busy(t, p)
    BY <2>2 DEF Races
  <2>4. CASE proc[p].exited \/ ~ proc[p].pid \/ kernel[p] # "zombie"
    <3>1. thread' = [thread EXCEPT ![t] = next] /\ proc' = proc /\ kernel' = kernel
      BY <2>2, <2>4 DEF AlivepStart, Goto
    <3> QED BY <1>6, <3>1
  <2>5. CASE ~ (proc[p].exited \/ ~ proc[p].pid \/ kernel[p] # "zombie")
    <3> DEFINE r == [at |-> IF proc[p].index # -1 THEN "unregister" ELSE "store",
                     p |-> p, locked |-> TRUE, info |-> Code, then |-> "store", next |-> next]
    <3>1. /\ kernel' = [kernel EXCEPT ![p] = "reaped"] /\ proc' = [proc EXCEPT ![p].exited = TRUE]
          /\ thread' = [thread EXCEPT ![t] = r]
      BY <2>2, <2>5 DEF AlivepStart, Goto
    <3>2. proc[p].owner # NoOne
      BY <2>5 DEF Exact, ProcInv, NoProc
    <3>3. next \in {Idle} \cup Loop
      BY <1>4
    <3> HIDE DEF next
    <3> QED BY <1>1, <1>2, <1>5, <2>3, <2>5, <3>1, <3>2, <3>3, ReapStep DEF Exact
  <2> QED BY <2>4, <2>5
<1> QED BY <1>7, <1>8

LEMMA XstatusStep ==
  ASSUME ProcessConstants, Exact, NEW t \in Threads, NEW p \in Procs, CProcessXstatus(t, p),
         raced = {}, raced' = {}
  PROVE  Exact'
<1>1. /\ thread[t] = Idle /\ proc[p].owner = t /\ ~ Busy(t, p) /\ proc[p].owner # NoOne
      /\ (proc[p].exited \/ proc[p].pid)
      /\ UNCHANGED <<procArr, firstFree, lock>>
  BY DEF CProcessXstatus, Races, ProcessConstants
<1>2. ~ Working(t) /\ ~ Storing(t)
  BY <1>1 DEF Working, Storing, Idle
<1>3. \A u \in Threads : ~ (Storing(u) /\ thread[u].p = p)
  BY <1>1, <1>2 DEF Busy, Storing
<1>4. ASSUME UNCHANGED <<kernel, proc, thread>>, \A a \in told' : a.status = Code
      PROVE  Exact'
  <2>1. thread' = [thread EXCEPT ![t] = Idle]
    BY <1>1, <1>4 DEF Exact, Types
  <2>2. Types' /\ ThreadInv(t)'
    BY <1>1, <1>4, ThreadKept DEF Exact, Types
  <2>3. ~ Working(t)'
    BY <1>2, <1>4 DEF Working
  <2> QED BY <1>1, <1>2, <1>4, <2>1, <2>2, <2>3, MoveStep DEF Exact
<1>5. CASE proc[p].exited
  <2>1. UNCHANGED <<kernel, proc, thread>>
        /\ told' = told \cup {[p |-> p, status |-> proc[p].status]}
    BY <1>5 DEF CProcessXstatus
  <2>2. proc[p].status = Code
    BY <1>3, <1>5 DEF Exact, ProcInv
  <2>3. \A a \in told' : a.status = Code
    BY <2>1, <2>2 DEF Exact
  <2> QED BY <1>4, <2>1, <2>3
<1>6. CASE ~ proc[p].exited /\ kernel[p] = "running"
  <2>1. UNCHANGED <<kernel, proc, thread, told>>
    BY <1>6 DEF CProcessXstatus
  <2> QED BY <1>4, <2>1 DEF Exact
<1>7. CASE ~ proc[p].exited /\ kernel[p] # "running"
  <2>1. kernel[p] = "zombie"
    BY <1>1, <1>7 DEF Exact, Types, ProcInv
  <2> DEFINE r == [at |-> IF proc[p].index # -1 THEN "unregister" ELSE "store",
                   p |-> p, locked |-> FALSE, info |-> Code, then |-> "store", next |-> Idle]
  <2>2. /\ kernel' = [kernel EXCEPT ![p] = "reaped"] /\ proc' = [proc EXCEPT ![p].exited = TRUE]
        /\ thread' = [thread EXCEPT ![t] = r]
        /\ told' = told \cup {[p |-> p, status |-> Code]}
    BY <1>7, <2>1 DEF CProcessXstatus, Goto
  <2>3. \A a \in told' : a.status = Code
    BY <2>2 DEF Exact
  <2> QED BY <1>1, <1>2, <1>7, <2>2, <2>3, ReapStep DEF Exact
<1> QED BY <1>5, <1>6, <1>7

LEMMA NilStep ==
  ASSUME ProcessConstants, Exact, NEW t \in Threads, NEW p \in Procs, BglProcessNil(t, p)
  PROVE  Exact'
<1>1. /\ proc[p] = NoProc /\ lock = NoOne
      /\ proc' = [proc EXCEPT ![p].index = -1, ![p].owner = t]
      /\ UNCHANGED <<kernel, procArr, firstFree, lock, thread, told>>
  BY DEF BglProcessNil
<1>2. /\ proc'[p].owner = t /\ ~ proc'[p].exited /\ ~ proc'[p].pid /\ proc'[p].index = -1
      /\ \A q \in Procs \ {p} : proc'[q] = proc[q]
  BY <1>1 DEF Exact, Types, Process, NoProc
<1>3. Types'
  <2>1. proc' \in [Procs -> Process]
    <3> DEFINE x == [proc[p] EXCEPT !.index = -1, !.owner = t]
    <3>0. -1 \in Int /\ proc[p] \in Process
      BY DEF Exact, Types
    <3>1. x \in Process
      BY <3>0, WrittenProcess
    <3>2. proc' = [proc EXCEPT ![p] = x]
      BY <1>1
    <3> HIDE DEF x
    <3> QED BY <3>1, <3>2 DEF Exact, Types
  <2> QED BY <1>1, <2>1 DEF Exact, Types
<1>4. ASSUME NEW u \in Threads PROVE ThreadInv(u)'
  <2>1. Working(u) => thread[u].p \in Procs \ {p}
    BY <1>1 DEF Exact, ThreadInv, NoProc
  <2>2. lock # u
    BY <1>1 DEF ProcessConstants
  <2> QED BY <1>1, <1>2, <2>1, <2>2, ThreadKept DEF Exact
<1>5. ASSUME NEW q \in Procs PROVE ProcInv(q)'
  <2>1. CASE q = p
    <3>1. kernel[p] # "reaped" /\ -1 \in -1 .. MaxProcNum - 1 /\ t # NoOne
      BY <1>1 DEF Exact, ProcInv, NoProc, ProcessConstants
    <3> QED BY <1>1, <1>2, <2>1, <3>1 DEF ProcInv
  <2>2. CASE q # p
    BY <1>1, <1>2, <2>2, ProcKept DEF Exact, Storing
  <2> QED BY <2>1, <2>2
<1>6. TableInv'
  <2>1. \A k \in Slots : procArr[k] # NoOne => procArr[k] \in Procs \ {p}
    BY <1>1 DEF Exact, Types, TableInv, NoProc, Slots, ProcessConstants
  <2>2. FirstFrom(procArr, 0, firstFree)'
    BY <1>1 DEF Exact, TableInv, FirstFrom
  <2>3. \A k \in Slots : procArr'[k] # NoOne => proc'[procArr'[k]].index = k
    BY <1>1, <1>2, <2>1 DEF Exact, TableInv
  <2>4. \A q \in Procs : proc'[q].index >= 0 => procArr'[proc'[q].index] = q
    <3>1. ~ (-1 >= 0)
      OBVIOUS
    <3> QED BY <1>1, <1>2, <3>1 DEF Exact, TableInv
  <2> QED BY <2>2, <2>3, <2>4 DEF TableInv
<1>7. Alone'
  BY <1>1 DEF Exact, Alone, Working
<1> QED BY <1>1, <1>3, <1>4, <1>5, <1>6, <1>7 DEF Exact

(* The table is still full.                                                *)
LEMMA FullStep ==
  ASSUME ProcessConstants, Exact, NEW t \in Threads, MakeProcess(t), firstFree = MaxProcNum
  PROVE  Exact'
<1>1. /\ thread[t].at = "make" /\ lock' = NoOne
      /\ thread' = [thread EXCEPT ![t] = Idle]
      /\ UNCHANGED <<kernel, proc, procArr, firstFree, told>>
  BY DEF MakeProcess, Goto
<1>2. lock = t
  BY <1>1 DEF Exact, ThreadInv
<1>3. Types'
  BY <1>1 DEF Exact, Types
<1>4. thread'[t] = Idle
  BY <1>1 DEF Exact, Types
<1>5. ThreadInv(t)'
  BY <1>4 DEF ThreadInv, Storing, Working, Idle
<1>6. ~ Working(t)' /\ ~ Storing(t)
  BY <1>1, <1>4 DEF Working, Storing, Idle
<1> QED BY <1>1, <1>2, <1>3, <1>5, <1>6, MoveStep DEF Exact

(* The process takes the first free slot, and the next free one is sought. *)
LEMMA TakeStep ==
  ASSUME ProcessConstants, Exact, NEW t \in Threads, MakeProcess(t), firstFree # MaxProcNum
  PROVE  Exact'
<1>1. thread[t].at = "make" /\ lock = t /\ Searching(thread[t]) /\ thread[t] \in Loop
  BY Shapes DEF MakeProcess, Exact, ThreadInv
<1>2. PICK p \in Procs : p = thread[t].p
  BY <1>1 DEF Searching
<1>3. proc[p] = NoProc
  BY <1>1, <1>2 DEF Searching
<1>4. PICK f \in Slots : f = firstFree
  BY DEF Exact, Types, Slots, ProcessConstants
<1>5. PICK r : r = [thread[t] EXCEPT !.at = "fork"]
  OBVIOUS
<1>6. r \in Loop /\ r.at = "fork" /\ r.p = p
  BY <1>1, <1>2, <1>5 DEF Loop
<1>7. /\ proc' = [proc EXCEPT ![p].index = f, ![p].owner = t]
      /\ procArr' = [procArr EXCEPT ![f] = p]
      /\ firstFree' = NextFree(procArr', f)
      /\ thread' = [thread EXCEPT ![t] = r] /\ lock' = NoOne
      /\ UNCHANGED <<kernel, told>>
  BY <1>2, <1>4, <1>5 DEF MakeProcess, Goto
<1>8. /\ proc'[p].owner = t /\ ~ proc'[p].exited /\ ~ proc'[p].pid /\ proc'[p].index = f
      /\ \A q \in Procs \ {p} : proc'[q] = proc[q]
  BY <1>3, <1>7 DEF Exact, Types, Process, NoProc
<1>9. thread'[t] = r /\ \A u \in Threads \ {t} : thread'[u] = thread[u]
  BY <1>7 DEF Exact, Types
<1>10. procArr'[f] = p /\ \A k \in Slots \ {f} : procArr'[k] = procArr[k]
  BY <1>7 DEF Exact, Types
<1>11. f \in 0 .. MaxProcNum /\ f \in Int /\ f >= 0 /\ f \in -1 .. MaxProcNum - 1
  BY DEF Slots, ProcessConstants
<1>12. \A u \in Threads : Working(u) => thread[u].p \in Procs \ {p}
  BY <1>3 DEF Exact, ThreadInv, NoProc
<1>13. FirstFrom(procArr', f, firstFree')
  BY <1>7, <1>11, NextFreeFirst
<1>14. FirstFrom(procArr', 0, firstFree')
  <2>1. PICK n \in Int : n = firstFree' /\ f <= n /\ n <= MaxProcNum
    BY <1>11, <1>13 DEF FirstFrom, ProcessConstants
  <2>2. ASSUME NEW k \in Int, 0 <= k, k <= n - 1 PROVE procArr'[k] # NoOne
    <3>1. CASE k < f
      <4>1. k \in Slots \ {f} /\ k \in 0 .. f - 1
        BY <1>11, <2>2, <3>1 DEF Slots, ProcessConstants
      <4>2. procArr[k] # NoOne
        BY <1>4, <4>1 DEF Exact, TableInv, FirstFrom
      <4> QED BY <1>10, <4>1, <4>2
    <3>2. CASE f <= k
      <4>1. k \in f .. n - 1
        BY <1>11, <2>2, <3>2
      <4> QED BY <1>13, <2>1, <4>1 DEF FirstFrom
    <3> QED BY <1>11, <2>2, <3>1, <3>2
  <2>3. n \in 0 .. MaxProcNum
    BY <1>11, <2>1 DEF ProcessConstants
  <2>4. n = MaxProcNum \/ procArr'[n] = NoOne
    BY <1>13, <2>1 DEF FirstFrom
  <2>5. \A k \in 0 .. n - 1 : k \in Int /\ 0 <= k /\ k <= n - 1
    OBVIOUS
  <2>6. \A k \in 0 .. n - 1 : procArr'[k] # NoOne
    BY <2>2, <2>5
  <2> QED BY <2>1, <2>3, <2>4, <2>6 DEF FirstFrom
<1>15. Types'
  <2>1. proc' \in [Procs -> Process]
    <3> DEFINE x == [proc[p] EXCEPT !.index = f, !.owner = t]
    <3>0. proc[p] \in Process
      BY DEF Exact, Types
    <3>1. x \in Process
      BY <1>11, <3>0, WrittenProcess
    <3>2. proc' = [proc EXCEPT ![p] = x]
      BY <1>7
    <3> HIDE DEF x
    <3> QED BY <3>1, <3>2 DEF Exact, Types
  <2>2. procArr' \in [Slots -> Procs \cup {NoOne}] /\ firstFree' \in 0 .. MaxProcNum
    BY <1>7, <1>14 DEF Exact, Types, FirstFrom
  <2>3. thread' \in [Threads -> {Idle} \cup Loop \cup Waits \cup Leaves \cup Reaps]
    BY <1>6, <1>7 DEF Exact, Types
  <2> QED BY <1>7, <2>1, <2>2, <2>3 DEF Exact, Types
<1>16. ASSUME NEW u \in Threads PROVE ThreadInv(u)'
  <2>1. CASE u = t
    <3>1. t # NoOne
      BY DEF ProcessConstants
    <3> QED BY <1>6, <1>8, <1>9, <2>1, <3>1 DEF ThreadInv, Storing, Working
  <2>2. CASE u # t
    BY <1>1, <1>8, <1>9, <1>12, <2>2, ThreadKept DEF Exact
  <2> QED BY <2>1, <2>2
<1>17. ASSUME NEW q \in Procs PROVE ProcInv(q)'
  <2>1. CASE q = p
    <3>1. kernel[p] # "reaped" /\ t # NoOne
      BY <1>3 DEF Exact, ProcInv, NoProc, ProcessConstants
    <3> QED BY <1>7, <1>8, <1>11, <2>1, <3>1 DEF ProcInv
  <2>2. CASE q # p
    <3>1. \A u \in Threads : Storing(u) => Storing(u)' /\ thread'[u].p = thread[u].p
      BY <1>1, <1>9 DEF Storing
    <3> QED BY <1>7, <1>8, <2>2, <3>1, ProcKept DEF Exact
  <2> QED BY <2>1, <2>2
<1>18. TableInv'
  <2>1. procArr[f] = NoOne
    BY <1>4 DEF Exact, TableInv, FirstFrom, Slots, ProcessConstants
  <2>2. \A k \in Slots : procArr[k] # NoOne => procArr[k] \in Procs \ {p}
    BY <1>3 DEF Exact, Types, TableInv, NoProc, Slots, ProcessConstants
  <2>3. \A k \in Slots : procArr'[k] # NoOne => proc'[procArr'[k]].index = k
    BY <1>8, <1>10, <2>2 DEF Exact, TableInv
  <2>4. ASSUME NEW q \in Procs, proc'[q].index >= 0 PROVE procArr'[proc'[q].index] = q
    <3>1. CASE q = p
      BY <1>8, <1>10, <3>1
    <3>2. CASE q # p
      <4>1. procArr[proc[q].index] = q /\ proc'[q].index = proc[q].index
        BY <1>8, <2>4, <3>2 DEF Exact, TableInv
      <4>2. q # NoOne
        BY DEF ProcessConstants
      <4>3. proc[q].index \in Slots
        <5>1. proc[q].owner # NoOne
          BY <2>4, <4>1 DEF Exact, ProcInv, NoProc
        <5> QED BY <2>4, <4>1, <5>1 DEF Exact, ProcInv, Slots, ProcessConstants
      <4> QED BY <1>10, <2>1, <4>1, <4>2, <4>3
    <3> QED BY <3>1, <3>2
  <2> QED BY <1>14, <2>3, <2>4 DEF TableInv
<1>19. Alone'
  BY <1>6, <1>7, <1>12, AloneKept DEF Exact
<1> QED BY <1>7, <1>15, <1>16, <1>17, <1>18, <1>19 DEF Exact
-----------------------------------------------------------------------------
LEMMA ExactInit ==
  ASSUME ProcessConstants, InitProcesses
  PROVE  Exact
<1>1. NoProc \in Process
  BY DEF NoProc, Process
<1>2. Types
  BY <1>1 DEF InitProcesses, Types, ProcessConstants
<1>3. \A t \in Threads : ThreadInv(t) /\ ~ Working(t)
  BY DEF InitProcesses, ThreadInv, Storing, Working, Idle
<1>4. \A p \in Procs : ProcInv(p)
  BY DEF InitProcesses, ProcInv, NoProc
<1>5. TableInv
  <2>1. FirstFrom(procArr, 0, firstFree)
    BY DEF InitProcesses, FirstFrom, Slots, ProcessConstants
  <2>2. \A p \in Procs : proc[p].index = -2
    BY DEF InitProcesses, NoProc
  <2>3. ~ (-2 >= 0)
    OBVIOUS
  <2> QED BY <2>1, <2>2, <2>3 DEF TableInv, InitProcesses
<1>6. Alone
  BY <1>3 DEF Alone
<1> QED BY <1>2, <1>3, <1>4, <1>5, <1>6 DEF Exact, InitProcesses

LEMMA ExactStep ==
  ASSUME ProcessConstants, Exact, raced = {}, raced' = {}, ProcessNext
  PROVE  Exact'
<1>1. ASSUME NEW p \in Procs, ChildExits(p) PROVE Exact'
  BY <1>1, ChildExitsStep
<1>2. ASSUME NEW t \in Threads, NEW p \in Procs, NEW waiting \in BOOLEAN, RunProcess(t, p, waiting)
      PROVE  Exact'
  BY <1>2, RunProcessStep
<1>3. ASSUME NEW t \in Threads, NEW p \in Procs, BglProcessNil(t, p) PROVE Exact'
  BY <1>3, NilStep
<1>4. ASSUME NEW t \in Threads, NEW p \in Procs, CProcessAlivep(t, p) PROVE Exact'
  BY <1>4, AlivepStep
<1>5. ASSUME NEW t \in Threads, NEW p \in Procs, CProcessWait(t, p) PROVE Exact'
  BY <1>5, WaitStep
<1>6. ASSUME NEW t \in Threads, NEW p \in Procs, CProcessXstatus(t, p) PROVE Exact'
  BY <1>6, XstatusStep
<1>7. ASSUME NEW t \in Threads, MakeProcess(t) PROVE Exact'
  BY <1>7, FullStep, TakeStep
<1>8. ASSUME NEW t \in Threads, NEW ok \in BOOLEAN, Fork(t, ok) PROVE Exact'
  BY <1>8, ForkStep
<1>9. ASSUME NEW t \in Threads, PurgeProcessTable(t) PROVE Exact'
  BY <1>9, PurgeStep
<1>10. ASSUME NEW t \in Threads, CProcessList(t) PROVE Exact'
  BY <1>10, ListStep
<1>11. ASSUME NEW t \in Threads, Listed(t) PROVE Exact'
  BY <1>11, ListedStep
<1>12. ASSUME NEW t \in Threads, CUnregisterProcess(t) PROVE Exact'
  BY <1>12, UnregisterStep
<1>13. ASSUME NEW t \in Threads, Store(t) PROVE Exact'
  BY <1>13, StoreStep
<1>14. ASSUME NEW t \in Threads, Waitpid(t) PROVE Exact'
  BY <1>14, WaitpidStep
<1> QED BY <1>1, <1>2, <1>3, <1>4, <1>5, <1>6, <1>7, <1>8, <1>9, <1>10, <1>11, <1>12, <1>13,
           <1>14 DEF ProcessNext, ProcessSteps

(* A process that two threads were busy with stays one.                    *)
LEMMA RacedKept ==
  ASSUME ProcessNext, raced' = {}
  PROVE  raced = {}
<1>1. ASSUME NEW t \in Threads, NEW p, Races(t, p) PROVE raced = {}
  BY <1>1 DEF Races
<1>2. CASE \E p \in Procs : ChildExits(p)
  BY <1>2 DEF ChildExits
<1>3. ASSUME NEW t \in Threads, NEW p \in Procs, NEW waiting \in BOOLEAN, RunProcess(t, p, waiting)
      PROVE  raced = {}
  BY <1>3 DEF RunProcess
<1>4. ASSUME NEW t \in Threads, NEW p \in Procs,
             \/ BglProcessNil(t, p) \/ CProcessAlivep(t, p)
             \/ CProcessWait(t, p) \/ CProcessXstatus(t, p)
      PROVE  raced = {}
  BY <1>1, <1>4 DEF BglProcessNil, CProcessAlivep, CProcessWait, CProcessXstatus
<1>5. ASSUME NEW t \in Threads, MakeProcess(t) \/ \E ok \in BOOLEAN : Fork(t, ok)
      PROVE  raced = {}
  BY <1>5 DEF MakeProcess, Fork
<1>6. ASSUME NEW t \in Threads, PurgeProcessTable(t) PROVE raced = {}
  BY <1>1, <1>6 DEF PurgeProcessTable
<1>7. ASSUME NEW t \in Threads, \/ CProcessList(t) \/ Listed(t) \/ CUnregisterProcess(t)
                               \/ Store(t) \/ Waitpid(t)
      PROVE  raced = {}
  BY <1>7 DEF CProcessList, Listed, CUnregisterProcess, Store, Waitpid
<1> QED BY <1>2, <1>3, <1>4, <1>5, <1>6, <1>7 DEF ProcessNext, ProcessSteps

LEMMA ExactUnchanged ==
  ASSUME Exact, UNCHANGED processVars
  PROVE  Exact'
BY DEF Exact, Types, ThreadInv, ProcInv, TableInv, Alone, Searching, Storing, Working, FirstFrom,
       processVars

(* The table is exact, and every status that process-exit-status returned  *)
(* is the child's, for any number of threads and of processes and any      *)
(* max_proc_num (c_process_xstatus, c_unregister_process, make_process):   *)
(* unless two threads were busy with one process at once.                  *)
THEOREM TableExact ==
  ASSUME ProcessConstants
  PROVE  ProcessSpec => []ProcessTable
<1>1. InitProcesses => ExactInv
  BY ExactInit DEF ExactInv
<1>2. ExactInv /\ [ProcessNext]_processVars => ExactInv'
  <2>1. CASE ProcessNext
    BY <2>1, ExactStep, RacedKept DEF ExactInv
  <2>2. CASE UNCHANGED processVars
    BY <2>2, ExactUnchanged DEF ExactInv, processVars
  <2> QED BY <2>1, <2>2
<1>3. ExactInv => ProcessTable
  <2> SUFFICES ASSUME Exact PROVE /\ firstFree = NextFree(procArr, 0)
                                  /\ TableInv /\ \A a \in told : a.status = Code
    BY DEF ExactInv, ProcessTable, TableInv
  <2>1. 0 \in 0 .. MaxProcNum
    BY DEF ProcessConstants
  <2>2. FirstFrom(procArr, 0, NextFree(procArr, 0)) /\ FirstFrom(procArr, 0, firstFree)
    BY <2>1, NextFreeFirst DEF Exact, TableInv
  <2>3. NextFree(procArr, 0) \in Int /\ firstFree \in Int
    BY <2>2 DEF FirstFrom
  <2> QED BY <2>2, <2>3, FirstUnique DEF Exact
<1> QED BY <1>1, <1>2, <1>3, PTL DEF ProcessSpec
=============================================================================
