------------------------------ MODULE PortFile -------------------------------
(***************************************************************************)
(* What the ports of runtime/Clib/cports.c stand on: a pipe of the kernel  *)
(* (bgl_open_pipes), or a regular file.  The code under src/ only sees     *)
(* them through read, write, lseek and select.  Bytes are numbers: byte n  *)
(* is the n-th of its stream.                                              *)
(***************************************************************************)
EXTENDS Integers, Sequences, FiniteSetsExt

CONSTANTS
  FileLen,    \* length of the file that an input port reads
  PipeCap,    \* capacity of the pipe
  Newlines    \* which bytes are newlines

ASSUME FileAssumption == FileLen \in Nat /\ PipeCap \in Nat \ {0}

VARIABLES
  pipe,       \* the bytes in the pipe
  wend,       \* its write end is open
  rend,       \* its read end is open
  off         \* the offset of the file that is read (or of the memory map)

kernel == <<pipe, wend, rend, off>>

Run(from, n) == [i \in 1 .. n |-> from + i]
Least(a, b) == Min({a, b})

InitKernel ==
  /\ pipe = <<>> /\ wend = TRUE /\ rend = TRUE /\ off = 0

TypeOKKernel ==
  /\ pipe \in Seq(Int) /\ Len(pipe) <= PipeCap
  /\ wend \in BOOLEAN /\ rend \in BOOLEAN
  /\ off \in Nat
=============================================================================
