-------------------------------- MODULE Callcc --------------------------------
(***************************************************************************)
(* call/cc and dynamic-wind of runtime/Clib/callcc.c, with the unwinding of*)
(* Llib/bexit.scm.  A thread's stack is a list of exit blocks, one per     *)
(* active call/cc above the bottom one, each with the dynamic-winds that   *)
(* were entered above it.  A block protects the after-thunks of its winds. *)
(* The blocks of call/cc are in the stack, with their protections; that of *)
(* the bottom is in the heap.  The before-thunks are linked in a list of   *)
(* their own.  A continuation is a copy of the stack.  To apply it the     *)
(* stack is unwound until the block of the continuation is met, or down to *)
(* the bottom, and then the copy is put back, but not the protections of   *)
(* the bottom: leaving its winds once more does not run their afters.      *)
(***************************************************************************)
EXTENDS Integers, Sequences, FiniteSets

CONSTANTS
  Runners,     \* threads with a stack each
  Winds,       \* dynamic-wind forms
  MaxBlocks,   \* bound: call/cc active in one thread, besides the bottom
  MaxKonts,    \* bound: continuations captured
  MaxMissed    \* bound: times that the after of a wind is not run

VARIABLES
  blocks,      \* per thread: exit blocks and their winds, bottom first
  bottom,      \* per thread: the protections of the bottom block
  befores,     \* per thread: the before list, outermost first
  stamps,      \* per thread: exitd_stamp
  konts,       \* the continuations, in the order of their capture
  pc,          \* per thread: running, or the continuation it is applying
  static,      \* the static variables stack and s_value of callcc.c
  inside,      \* ghost, per thread and wind: befores run minus afters run
  missed,      \* ghost, per thread and wind: times it was left without its after
  again,       \* ghost, per thread: winds above the bottom that were put back
  mixed,       \* ghost: threads that two restores at once have spoilt
  jumped       \* ghost, per thread: the continuation whose call/cc it returned from

callccVars == <<blocks, bottom, befores, stamps, konts, pc, static, inside, missed, again, mixed, jumped>>

Evaluating == [at |-> "running"]
NoKont  == 0

InitCallcc ==
  /\ blocks = [t \in Runners |-> <<[stamp |-> 0, winds |-> <<>>]>>]
  /\ befores = [t \in Runners |-> <<>>] /\ stamps = [t \in Runners |-> 0]
  /\ konts = <<>> /\ pc = [t \in Runners |-> Evaluating]
  /\ static = [by |-> "nobody", kont |-> NoKont]
  /\ inside = [t \in Runners |-> [w \in Winds |-> 0]]
  /\ bottom = [t \in Runners |-> <<>>] /\ again = [t \in Runners |-> {}]
  /\ missed = [t \in Runners |-> [w \in Winds |-> 0]]
  /\ mixed = {} /\ jumped = [t \in Runners |-> NoKont]

Top(s) == s[Len(s)]
Pop(s) == SubSeq(s, 1, Len(s) - 1)
Ready(t) == pc[t] = Evaluating /\ t \notin mixed

(* call_cc pushes a block with a new stamp, then copies the stack.         *)
CallCc(t) ==
  LET stamp == stamps[t] + 1
      bs    == Append(blocks[t], [stamp |-> stamp, winds |-> <<>>])
  IN /\ Ready(t) /\ Len(blocks[t]) <= MaxBlocks /\ Len(konts) < MaxKonts
     /\ stamps' = [stamps EXCEPT ![t] = stamp]
     /\ blocks' = [blocks EXCEPT ![t] = bs]
     /\ konts' = Append(konts, [bot |-> t, stamp |-> stamp, blocks |-> bs, befores |-> befores[t]])
     /\ UNCHANGED <<bottom, befores, pc, static, inside, missed, again, mixed, jumped>>

(* The procedure given to call_cc returns: POP_ENV_EXIT.                   *)
CallCcReturn(t) ==
  /\ Ready(t) /\ Len(blocks[t]) > 1 /\ Top(blocks[t]).winds = <<>>
  /\ blocks' = [blocks EXCEPT ![t] = Pop(@)]
  /\ UNCHANGED <<bottom, befores, stamps, konts, pc, static, inside, missed, again, mixed, jumped>>

(* dynamic-wind: before, PUSH_BEFORE, and the protection of the body.      *)
DynamicWind(t, w) ==
  /\ Ready(t) /\ w \notin {befores[t][i] : i \in 1 .. Len(befores[t])}
  /\ inside' = [inside EXCEPT ![t][w] = @ + 1]
  /\ befores' = [befores EXCEPT ![t] = Append(@, w)]
  /\ blocks' = [blocks EXCEPT ![t][Len(blocks[t])].winds = Append(@, w)]
  /\ bottom' = IF Len(blocks[t]) = 1 THEN [bottom EXCEPT ![t] = Append(@, w)] ELSE bottom
  /\ UNCHANGED <<stamps, konts, pc, static, missed, again, mixed, jumped>>

(* Its body returns: the protection goes, if there is one left in the      *)
(* block, after runs in any case, POP_BEFORE.                              *)
DynamicWindExit(t) ==
  /\ Ready(t) /\ Top(blocks[t]).winds # <<>>
  /\ blocks' = [blocks EXCEPT ![t][Len(blocks[t])].winds = Pop(@)]
  /\ inside' = [inside EXCEPT ![t][Top(Top(blocks[t]).winds)] = @ - 1]
  /\ befores' = [befores EXCEPT ![t] = Pop(@)]
  /\ bottom' = IF Len(blocks[t]) = 1 /\ bottom[t] # <<>>
               THEN [bottom EXCEPT ![t] = Pop(@)] ELSE bottom
  /\ UNCHANGED <<stamps, konts, pc, static, missed, again, mixed, jumped>>

(* apply_continuation refuses a continuation of another thread's stack.    *)
ApplyContinuation(t, k) ==
  /\ Ready(t) /\ konts[k].bot = t /\ \A w \in Winds : missed[t][w] < MaxMissed
  /\ pc' = [pc EXCEPT ![t] = [at |-> "unwind", kont |-> k]]
  /\ UNCHANGED <<blocks, bottom, befores, stamps, konts, static, inside, missed, again, mixed, jumped>>

(* Mutant: blocks are told apart by their place on the stack alone.        *)
SamePlace(t, k) == Len(blocks[t]) = Len(konts[k].blocks)

(* The block on top is that of the continuation: at its address, and with  *)
(* its stamp.                                                              *)
IsBlock(t, k) ==
  Len(blocks[t]) = Len(konts[k].blocks) /\ Top(blocks[t]).stamp = konts[k].stamp

(* Mutant: a block is popped without its protections.                      *)
UnwindBlockOnly(t) ==
  LET k == pc[t].kont IN
  /\ pc[t].at = "unwind" /\ Len(blocks[t]) > 1
  /\ blocks' = [blocks EXCEPT ![t] = Pop(@)]
  /\ pc' = [pc EXCEPT ![t] = IF IsBlock(t, k) THEN Evaluating ELSE @]
  /\ jumped' = [jumped EXCEPT ![t] = IF IsBlock(t, k) THEN k ELSE @]
  /\ UNCHANGED <<bottom, befores, stamps, konts, static, inside, missed, again, mixed>>

Members(s) == {s[i] : i \in 1 .. Len(s)}

(* unwind-stack-until!, one turn of the loop above the bottom: the after-  *)
(* thunks of the top block run, innermost first, each with its POP_BEFORE; *)
(* the block goes; if it is the one, call/cc returns there.                *)
UnwindStackUntil(t) ==
  LET k == pc[t].kont
      p == Top(blocks[t]).winds
  IN /\ pc[t].at = "unwind" /\ Len(blocks[t]) > 1
     /\ inside' = [inside EXCEPT ![t] = [w \in Winds |-> IF w \in Members(p) THEN @[w] - 1 ELSE @[w]]]
     /\ befores' = [befores EXCEPT ![t] = SubSeq(@, 1, Len(@) - Len(p))]
     /\ blocks' = [blocks EXCEPT ![t] = Pop(@)]
     /\ pc' = [pc EXCEPT ![t] = IF IsBlock(t, k) THEN Evaluating ELSE @]
     /\ jumped' = [jumped EXCEPT ![t] = IF IsBlock(t, k) THEN k ELSE @]
     /\ UNCHANGED <<bottom, stamps, konts, static, missed, again, mixed>>

(* At the bottom: the after-thunks that its block protects run, and the    *)
(* stack is restored.  The winds that are left in the before list have     *)
(* lost their protection.                                                  *)
UnwindBottom(t) ==
  LET p == bottom[t]
      left == SubSeq(befores[t], 1, Len(befores[t]) - Len(p))
  IN /\ pc[t].at = "unwind" /\ Len(blocks[t]) = 1
     /\ inside' = [inside EXCEPT ![t] = [w \in Winds |-> IF w \in Members(p) THEN @[w] - 1 ELSE @[w]]]
     /\ befores' = [befores EXCEPT ![t] = left]
     /\ bottom' = [bottom EXCEPT ![t] = <<>>]
     /\ missed' = [missed EXCEPT ![t] = [w \in Winds |-> IF w \in Members(left) THEN @[w] + 1 ELSE @[w]]]
     /\ pc' = [pc EXCEPT ![t].at = "install"]
     /\ UNCHANGED <<blocks, stamps, konts, static, again, mixed, jumped>>

(* callcc_restore_stack has grown the stack; callcc_install_stack puts the *)
(* continuation in variables that all threads share, and copies.  The      *)
(* bottom block and its protections are not part of the copy.              *)
CallccInstallStack(t) ==
  /\ pc[t].at = "install"
  /\ static' = [by |-> t, kont |-> pc[t].kont]
  /\ blocks' = [blocks EXCEPT ![t] = konts[pc[t].kont].blocks]
  /\ pc' = [pc EXCEPT ![t].at = "init"]
  /\ UNCHANGED <<bottom, befores, stamps, konts, inside, missed, again, mixed, jumped>>

(* callcc_init_stack reads them: the before list, all of whose thunks run  *)
(* from the outermost, and the exit block, which is unwound at once.       *)
CallccInitStack(t) ==
  LET k == konts[static.kont] IN
  /\ pc[t].at = "init"
  /\ pc' = [pc EXCEPT ![t] = Evaluating]
  /\ IF static.by # t
     THEN mixed' = mixed \cup {t} /\ UNCHANGED <<befores, inside, blocks, again, jumped>>
     ELSE /\ befores' = [befores EXCEPT ![t] = k.befores]
          /\ inside' = [inside EXCEPT ![t] =
                          [w \in Winds |-> IF w \in Members(k.befores) THEN @[w] + 1 ELSE @[w]]]
          /\ blocks' = [blocks EXCEPT ![t] = Pop(@)]
          /\ again' = [again EXCEPT ![t] = @ \cup Members(k.blocks[1].winds)]
          /\ jumped' = [jumped EXCEPT ![t] = static.kont] /\ UNCHANGED mixed
  /\ UNCHANGED <<bottom, stamps, konts, static, missed>>

CallccNext ==
  \E t \in Runners :
    \/ CallCc(t) \/ CallCcReturn(t) \/ DynamicWindExit(t)
    \/ \E w \in Winds : DynamicWind(t, w)
    \/ \E k \in 1 .. Len(konts) : ApplyContinuation(t, k)
    \/ UnwindStackUntil(t) \/ UnwindBottom(t) \/ CallccInstallStack(t) \/ CallccInitStack(t)

(* The winds on a stack: the j-th of its i-th block.                       *)
Entered(bs) == UNION {{i} \X (1 .. Len(bs[i].winds)) : i \in 1 .. Len(bs)}
OnStack(t, w) ==
  Cardinality({ij \in Entered(blocks[t]) : blocks[t][ij[1]].winds[ij[2]] = w})

(* However continuations are captured, left and entered again, a running   *)
(* thread has run the before of a dynamic-wind once more than its after    *)
(* exactly when the wind is on its stack, but for the times it left the    *)
(* wind without its after; the before list is that of the winds on the     *)
(* stack; and an after is missed in one case only, of a wind above the     *)
(* bottom that was put back by a continuation and left by another one:     *)
(* call_cc copies the stack, and make_exitd_bottom is in the heap.         *)
WindsBalanced ==
  \A t \in Runners : pc[t] = Evaluating /\ t \notin mixed =>
    /\ \A w \in Winds : inside[t][w] = OnStack(t, w) + missed[t][w]
    /\ Len(befores[t]) = Cardinality(Entered(blocks[t]))
    /\ \A i \in 1 .. Len(befores[t]) : OnStack(t, befores[t][i]) = 1
    /\ \A w \in Winds : missed[t][w] > 0 => w \in again[t]

(* A thread that applies a continuation arrives where it was captured.     *)
Landing ==
  \A t \in Runners : pc[t] # Evaluating /\ pc'[t] = Evaluating /\ t \notin mixed' =>
    /\ jumped'[t] = pc[t].kont
    /\ befores'[t] = konts[pc[t].kont].befores
    /\ blocks'[t] = Pop(konts[pc[t].kont].blocks)

LandsThere == [][Landing]_callccVars

CallccSpec == InitCallcc /\ [][CallccNext]_callccVars
===============================================================================
