----------------------------- MODULE ByteStream ------------------------------
(***************************************************************************)
(* What an input port promises: a position in a stream of bytes, where the *)
(* byte after position n is byte number n + 1.  A read takes the bytes     *)
(* that follow the position; it takes fewer than it was asked for only at  *)
(* the end of the stream or at the fill barrier.  Peeking moves nothing,   *)
(* unreading moves back over bytes already read, seeking goes where it is  *)
(* told.  The stream may grow until its writer ends it.  A call that is    *)
(* aborted loses bytes: the others close up.                               *)
(***************************************************************************)
EXTENDS Integers, Sequences, FiniteSets

CONSTANT MaxTake    \* the longest read

VARIABLES
  at,      \* the position
  last,    \* the bytes that the last read returned
  total,   \* how many bytes the stream has so far
  ended,   \* nothing more will be added
  wall,    \* the position of the fill barrier, or -1
  goal,    \* where the last seek was told to go
  asked,   \* how many bytes the last read was asked for
  lost,    \* the bytes that aborted calls have lost
  cut,     \* the stream pretends to end at this position, or -1
  stays,   \* a seek to the very end does not move
  aborts   \* a call may be aborted now

(* The bytes that follow the position, but for the lost ones.              *)
Bytes(from, n) ==
  [i \in 1 .. n |->
     CHOOSE b \in 1 .. from + i + Cardinality(lost) :
       b \notin lost /\ Cardinality((1 .. b) \ lost) = from + i]
Left == total - Cardinality(lost) - at

InitStream ==
  /\ at = 0 /\ last = <<>> /\ wall = -1 /\ goal = -1 /\ asked = 0 /\ lost = {}
  /\ total \in Nat /\ ended \in BOOLEAN

(* Nothing can be read after k more bytes.                                 *)
AtEnd(k) == \/ ended /\ k >= Left
            \/ wall >= 0 /\ at + k >= wall
            \/ cut >= 0 /\ at + k >= cut

(* A read of one call, or the end of a longer one: what it was asked for.  *)
Take == \E k \in 0 .. asked' :
  /\ k > 0 => k <= Left
  /\ wall >= 0 /\ k > 0 => at + k <= wall
  /\ k < asked' => AtEnd(k)
  /\ last' = Bytes(at, k)
  /\ at' = at + k
  /\ UNCHANGED <<total, ended, wall, goal, lost>>

Peek ==
  /\ \/ Left > 0 /\ last' = Bytes(at, 1)
     \/ AtEnd(0) /\ last' = <<>>
  /\ UNCHANGED <<at, total, ended, wall, goal, lost>>

(* A longer call begins.                                                   *)
Ask ==
  /\ asked' \in 1 .. MaxTake
  /\ UNCHANGED <<at, last, total, ended, wall, goal, lost>>

(* A call is aborted: it loses no more than what it was asked for.         *)
Abort ==
  /\ aborts
  /\ lost \subseteq lost' /\ Cardinality(lost') <= Cardinality(lost) + asked
  /\ lost' \ lost \subseteq {Bytes(at, Left)[i] : i \in 1 .. Left}
  /\ UNCHANGED <<at, last, total, ended, wall, goal, asked>>

Unread == \E k \in 1 .. MaxTake :
  /\ k <= at
  /\ at' = at - k
  /\ last' = <<>>
  /\ UNCHANGED <<total, ended, wall, goal, asked, lost>>

Seek ==
  /\ goal' \in Nat
  /\ at' = IF stays /\ goal' = total THEN at ELSE goal'
  /\ last' = <<>> /\ lost' = {}
  /\ UNCHANGED <<total, ended, wall, asked>>

SetWall ==
  /\ wall' \in at .. at + MaxTake
  /\ UNCHANGED <<at, last, total, ended, goal, asked, lost>>

(* The other side of the stream.                                           *)
Grow ==
  /\ ~ ended
  /\ total' \in Nat /\ total' >= at
  /\ ended' \in BOOLEAN
  /\ UNCHANGED <<at, last, wall, goal, asked, lost>>

NextStream == Take \/ Peek \/ Ask \/ Abort \/ Unread \/ Seek \/ SetWall \/ Grow

StreamSpec == InitStream /\ [][NextStream]_<<at, last, total, ended, wall, goal, asked, lost>>
=============================================================================
