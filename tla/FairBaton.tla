------------------------------ MODULE FairBaton ------------------------------
(***************************************************************************)
(* What the token of a fair scheduler promises, without mutexes, condition *)
(* variables or run queues.  A process is the scheduler or a fair thread.  *)
(* It is "coop" while it executes cooperative code, "parked" while it      *)
(* waits for the token, "free" while it runs the body of an asynchronous   *)
(* signal outside of the scheduler's control, and "dead" after its death.  *)
(* The token names the process that may execute cooperative code; nobody   *)
(* has received it before the scheduler's first switch.  Only who received *)
(* the token starts to execute, and who gives it away has stopped: so one  *)
(* process at a time is "coop".                                            *)
(***************************************************************************)
CONSTANTS Procs, Scdl, NoToken

VARIABLES holder, status

vars == <<holder, status>>

Status == {"coop", "parked", "free", "dead"}

Init ==
  /\ holder = NoToken
  /\ status = [p \in Procs |-> IF p = Scdl THEN "coop" ELSE "parked"]

(* p stops executing cooperative code and gives the token to a live q.     *)
Pass(p, q) ==
  /\ status[p] = "coop"
  /\ status[q] # "dead"
  /\ holder' = q
  /\ \E how \in Status \ {"coop"} : status' = [status EXCEPT ![p] = how]

(* The process that was given the token starts to execute.                 *)
Enter(p) ==
  /\ holder = p
  /\ status[p] = "parked"
  /\ status' = [status EXCEPT ![p] = "coop"]
  /\ UNCHANGED holder

(* The body of an asynchronous signal has ended: wait for the token again. *)
Park(p) ==
  /\ status[p] = "free"
  /\ status' = [status EXCEPT ![p] = "parked"]
  /\ UNCHANGED holder

Next ==
  \E p \in Procs : Enter(p) \/ Park(p) \/ \E q \in Procs : Pass(p, q)

Spec == Init /\ [][Next]_vars

(* A process that was given the token is not left parked for ever.         *)
FairSpec == Spec /\ \A p \in Procs : WF_vars(Enter(p))
=============================================================================
