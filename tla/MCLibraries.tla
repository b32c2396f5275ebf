----------------------------- MODULE MCLibraries -----------------------------
(***************************************************************************)
(* The libraries that call back into Bigloo from threads or loops of their *)
(* own: pthread and srfi18 (Srfi18), libuv (Uv), and gstreamer, phidget    *)
(* and avahi (Callbacks).  They share no state: a behaviour is one of one  *)
(* of them, and the others stay in an initial state.  All are extended, so *)
(* that what is checked here of them is what Srfi18Proofs, UvProofs and    *)
(* CallbacksProofs prove.                                                  *)
(***************************************************************************)
EXTENDS Srfi18, Uv, Callbacks

CONSTANTS mA, mB, mC, mD, mE, none   \* model values

VARIABLE part                        \* the library

(* What the proofs assume of the constants: a main program, a thread that  *)
(* may be cancelled, and another one; two streams and one handle of each   *)
(* other kind, and two procedures; two foreign threads and the service     *)
(* thread.                                                                 *)
ASSUME SrfiAssumption == Distinct
ASSUME UvAssumption == UvConstants
ASSUME CallbacksAssumption == CallbackConstants

(* The cancelled thread uses both mutexes, the other one shares the first. *)
MCLockers == ({mB, mC} \X {mD, mE}) \ {<<mC, mE>>}
MCLookers == {<<mC, mD>>}

vars == <<part, srfiVars, uvVars, callbackVars>>

Init ==
  /\ part \in {"native", "uv", "queue"}
  /\ SrfiInit
  /\ UvInit /\ (part # "uv" => ops = {"fs"})
  /\ CallbacksInit /\ (part # "queue" => lib = "gst" /\ ~ useThreads)

OnlySrfi  == part = "native" /\ UNCHANGED <<part, uvVars, callbackVars>>
OnlyUv    == part = "uv" /\ UNCHANGED <<part, srfiVars, callbackVars>>
OnlyQueue == part = "queue" /\ UNCHANGED <<part, srfiVars, uvVars>>

Next ==
  \/ OnlySrfi /\ SrfiNext
  \/ OnlyUv /\ UvNext
  \/ OnlyQueue /\ CallbacksNext

(* The fairness of each library: threads run and bodies end; the loop goes *)
(* on and procedures return; the service thread is scheduled.  The library *)
(* never changes, so that one condition serves for all.                    *)
Fairness ==
  /\ \A t \in Threads : WF_vars(OnlySrfi /\ Own(t))
  /\ WF_vars(OnlyUv /\ Loop /\ UNCHANGED ops)
  /\ WF_vars(\/ OnlyUv /\ Returns /\ UNCHANGED ops
             \/ OnlyQueue /\ Alive /\ ServiceCalls)
  /\ SF_vars(\/ OnlySrfi /\ SomeBodyEnds
             \/ OnlyUv /\ Closes
             \/ OnlyQueue /\ ServiceStep)

Spec == Init /\ [][Next]_vars /\ Fairness
=============================================================================
