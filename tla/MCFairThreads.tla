---------------------------- MODULE MCFairThreads ----------------------------
(***************************************************************************)
(* Programs for FairThreads: which operations the main program and the     *)
(* threads use in each run.                                                *)
(***************************************************************************)
EXTENDS FairThreads

(* A program whose main part, first and second thread use these            *)
(* operations.                                                             *)
Runs(main, first, second, modes) ==
  [can |-> [p \in Threads \cup {Scdl} |->
              CASE p = Scdl -> main [] p = 2 -> second [] OTHER -> first],
   modes |-> modes, strict |-> FALSE]
Alike(main, all, modes) == Runs(main, all, all, modes)

(* Threads that yield, sleep, wait for signals and for each other.         *)
Coop == [coop |-> Alike({"start", "outside"},
           {"yield", "sleep", "await", "join", "broadcast", "end"}, {"until", "start"})]

(* Threads that suspend and resume each other or themselves.               *)
Suspending == [suspending |-> [Alike({"start"},
                 {"yield", "await", "await*", "suspend", "broadcast", "end"}, {"react"})
                   EXCEPT !.strict = TRUE]]

(* Threads that wait with a timeout, at most once in an instant; threads   *)
(* that terminate each other or themselves; a thread that makes an         *)
(* asynchronous signal, which it and the other thread await.               *)
Control ==
  [timed |-> Alike({"start", "outside"}, {"awaitN", "await*N", "broadcast", "end"},
                   {"react", "iterate", "start"}),
   ending |-> Alike({"start"}, {"yield", "sleep", "await", "terminate", "broadcast", "end"},
                    {"react"}),
   async |-> Runs({"start", "outside"}, {"yield", "await", "async", "raise"},
                  {"await", "end"}, {"start"})]

(* The programs of the documented behaviours that the code does not have.  *)
StaleTimer == [stale |-> Runs({"start"}, {"awaitN", "await", "end"}, {"broadcast", "end"},
                              {"react"})]
JoinTerminated == [join |-> Runs({"start"}, {"yield", "await", "join", "end"},
                                 {"yield", "terminate", "end"}, {"react"})]
TerminateSuspended == [zombie |-> Runs({"start"}, {"yield"}, {"yield", "suspend", "terminate"},
                                       {"react"})]
TerminateAsync == [async |-> Runs({"start"}, {"await", "async", "end"},
                                  {"yield", "terminate", "end"}, {"react"})]
=============================================================================
