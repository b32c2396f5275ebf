----------------------------- MODULE OutputPort ------------------------------
(***************************************************************************)
(* Output ports: the output half of runtime/Clib/cports.c, written by      *)
(* several threads under the mutex of the port.  Writers put the bytes     *)
(* 1, 2, 3 ... in the order in which they get the mutex.  A system write   *)
(* is an action of its own: it may be partial, and others run in between.  *)
(* A flush hook answers with a header that announces the size of what is   *)
(* flushed, as chunked transfers do; the header of n bytes is -(n + 1).    *)
(***************************************************************************)
EXTENDS PortFile, SequencesExt

CONSTANTS
  Writers,    \* threads that may write
  None,       \* nobody
  OutSize,    \* size of the buffer
  MaxSent     \* bound on the bytes that are written

VARIABLES
  op,         \* the port
  owner,      \* who holds its mutex
  wr,         \* where each writer is
  sent,       \* how many bytes the writers gave to the port
  log         \* everything that system writes took, in order

writer == <<op, owner, wr, sent, log>>

Queued == {"pipe"}      \* kinds whose bytes go to the pipe
Standard == {"console", "stdout"}   \* the kinds of _stdout (bgl_init_io)

(* A flush in progress: the header, the part of the buffer and the string  *)
(* still to be written, and what follows: rest is still to be copied.      *)
Flush(pc, head, lo, hi, str, rest, then) ==
  [pc |-> pc, head |-> head, lo |-> lo, hi |-> hi, str |-> str, rest |-> rest,
   then |-> then]
Resting == Flush("idle", <<>>, 0, 0, <<>>, <<>>, "done")

(* bgl_make_output_port, with the mode that each open function sets.       *)
BglMakeOutputPort(k, hook) ==
  [kindof |-> k, hook |-> hook, ptr |-> 0, from |-> 0, err |-> FALSE,
   timeout |-> "none", mem |-> [i \in 1 .. OutSize |-> 0], raced |-> FALSE,
   bufmode |-> CASE k = "string" -> "ebf" [] k = "console" -> "lbf"
                 [] k = "procedure" -> "nb" [] OTHER -> "fbf"]

(* bgl_open_output_procedure and bgl_open_pipes give an empty buffer; the  *)
(* others are as if output-port-buffer-set! had set theirs.                *)
OpenOutput(k, hook) ==
  IF k = "procedure" THEN [BglMakeOutputPort(k, hook) EXCEPT !.mem = <<>>]
  ELSE BglMakeOutputPort(k, hook)

InitWriter(k, hook) ==
  /\ op = OpenOutput(k, hook)
  /\ owner = None
  /\ wr = [w \in Writers |-> Resting]
  /\ sent = 0 /\ log = <<>>

Cnt(p) == Len(p.mem) - p.ptr
Quiet == \A w \in Writers : wr[w].pc = "idle"

TypeOKWriter ==
  /\ op.ptr \in 0 .. Len(op.mem) /\ op.from \in 0 .. op.ptr
  /\ owner \in Writers \cup {None}
  /\ \A w \in Writers : wr[w].pc \in {"idle", "hook", "drain", "copy"}
  /\ sent \in 0 .. MaxSent
  /\ log \in Seq(Int)

-----------------------------------------------------------------------------
(* Copying into the buffer, and the start of output_flush.                 *)

Put(p, str) ==
  [p EXCEPT !.mem = [i \in 1 .. Len(@) |-> IF i \in p.ptr + 1 .. p.ptr + Len(str)
                                           THEN str[i - p.ptr] ELSE @[i]],
     !.ptr = @ + Len(str)]

(* strwrite: a string port makes a larger buffer.                          *)
Strwrite(p, str) ==
  Put([p EXCEPT !.mem = @ \o [i \in 1 .. Len(@) + 2 * Len(str) |-> 0]], str)

(* Mutant: the hook is told the size of the buffer only.                   *)
AnnounceBuffer(p, w, str, rest, then) ==
  /\ op' = p
  /\ wr' = [wr EXCEPT ![w] = Flush(IF p.hook THEN "hook" ELSE "drain",
                                   <<p.ptr - p.from>>, p.from, p.ptr, str, rest, then)]
  /\ owner' = IF p.hook THEN None ELSE w

(* output_flush up to the first system write.  The size of the buffer is   *)
(* taken now, before the hook runs without the mutex.                      *)
FlushStart(p, w, str, rest, then) ==
  LET use == p.ptr - p.from IN
  /\ op' = p
  /\ wr' = [wr EXCEPT ![w] =
              Flush(IF p.hook THEN "hook" ELSE "drain", <<use + Len(str)>>, p.from, p.ptr,
                    str, rest, then)]
  /\ owner' = IF p.hook THEN None ELSE w

(* A call returns, or send-chars goes on to copy with the mutex.           *)
Done(w, then) ==
  /\ wr' = [wr EXCEPT ![w] = IF then = "copy" THEN [Resting EXCEPT !.pc = "copy"]
                              ELSE Resting]
  /\ owner' = IF then = "done" THEN None ELSE owner

(* The position of the first newline of a line-buffered port.              *)
FirstNewline(p, str) ==
  IF p.bufmode # "lbf" THEN 0
  ELSE LET nls == {i \in 1 .. Len(str) : str[i] \in Newlines}
       IN IF nls = {} THEN 0 ELSE Min(nls)

(* bgl_write: copy, with a flush after every newline of a line-buffered    *)
(* port, or flush the buffer and the string when it does not fit.          *)
Write(p, w, str, then) ==
  IF Cnt(p) > Len(str)
  THEN LET n == FirstNewline(p, str) IN
       IF n = 0
       THEN op' = Put(p, str) /\ Done(w, then)
       ELSE FlushStart(Put(p, SubSeq(str, 1, n)), w, <<>>, SubSeq(str, n + 1, Len(str)), then)
  ELSE IF p.bufmode = "ebf"
  THEN op' = Strwrite(p, str) /\ Done(w, then)
  ELSE FlushStart(p, w, str, <<>>, then)

(* Auxiliary: a port that is used while its flush hook runs elsewhere.     *)
Raced(p) == [p EXCEPT !.raced = @ \/ \E v \in Writers : wr[v].pc = "hook"]

(* bgl_write_with_lock.                                                    *)
BglWrite(w, n) ==
  /\ wr[w].pc = "idle" /\ owner = None
  /\ op.kindof # "closed"
  /\ sent + n <= MaxSent
  /\ sent' = sent + n
  /\ Write(Raced(op), w, Run(sent, n), "done")
  /\ UNCHANGED <<kernel, log>>

(* bgl_flush_output_port; a string port writes nothing.                    *)
BglFlushOutputPort(w) ==
  /\ wr[w].pc = "idle" /\ owner = None
  /\ op.kindof # "closed" /\ op.bufmode # "ebf"
  /\ FlushStart(Raced(op), w, <<>>, <<>>, "done")
  /\ UNCHANGED <<kernel, sent, log>>

(* invoke_flush_hook: the hook ran without the mutex and answers with a    *)
(* string, which is written first.                                         *)
InvokeFlushHook(w) ==
  /\ wr[w].pc = "hook" /\ owner = None
  /\ owner' = w
  /\ wr' = [wr EXCEPT ![w].pc = "drain", ![w].head = <<-(@[1] + 1)>>]
  /\ UNCHANGED <<kernel, op, sent, log>>

-----------------------------------------------------------------------------
(* flush_string: the system writes of a flush.                             *)

Header(w) == IF op.hook THEN wr[w].head ELSE <<>>

(* The segment that is being written: header, then buffer, then string.    *)
Segment(w) ==
  IF Header(w) # <<>> THEN Header(w)
  ELSE IF wr[w].lo < wr[w].hi THEN SubSeq(op.mem, wr[w].lo + 1, wr[w].hi)
  ELSE wr[w].str

(* Mutant: a partial write is taken for a complete one.                    *)
PartialForComplete(f, k) ==
  IF op.hook /\ f.head # <<>> THEN [f EXCEPT !.head = <<>>]
  ELSE IF f.lo < f.hi THEN [f EXCEPT !.lo = f.hi] ELSE [f EXCEPT !.str = <<>>]

Shorter(f, k) ==
  IF op.hook /\ f.head # <<>> THEN [f EXCEPT !.head = SubSeq(@, k + 1, Len(@))]
  ELSE IF f.lo < f.hi THEN [f EXCEPT !.lo = @ + k]
  ELSE [f EXCEPT !.str = SubSeq(@, k + 1, Len(@))]

(* How many bytes one system write takes; EINTR and EAGAIN are tried again.*)
Written(n) ==
  IF op.kindof \in Queued THEN IF rend THEN 1 .. Least(n, PipeCap - Len(pipe)) ELSE {}
  ELSE IF op.kindof \in Standard THEN 1 .. n ELSE {n}

Drain(w) ==
  /\ wr[w].pc = "drain" /\ Segment(w) # <<>>
  /\ \E k \in Written(Len(Segment(w))) :
       LET bytes == SubSeq(Segment(w), 1, k) IN
       /\ log' = log \o bytes
       /\ pipe' = IF op.kindof \in Queued THEN pipe \o bytes ELSE pipe
       /\ wr' = [wr EXCEPT ![w] = Shorter(@, k)]
  /\ UNCHANGED <<wend, rend, off, op, owner, sent>>

(* The system refuses: the reader is gone, or the time is over (select in  *)
(* bgl_posix_timed_write).  The mutex is released and the error raised;    *)
(* while closing, the rest of the segment is dropped.                      *)
Refused == \/ op.kindof \in Queued /\ ~ rend
           \/ op.kindof \in Queued /\ op.timeout = "on" /\ Len(pipe) = PipeCap

WriteFails(w) ==
  /\ wr[w].pc = "drain" /\ Segment(w) # <<>> /\ Refused
  /\ IF wr[w].then \in {"close", "keep"} /\ op.timeout # "on"
     THEN /\ wr' = [wr EXCEPT ![w] = Shorter(@, Len(Segment(w)))]
          /\ UNCHANGED <<op, owner>>
     ELSE /\ wr' = [wr EXCEPT ![w] = Resting]
          /\ op' = [op EXCEPT !.err = TRUE]
          /\ owner' = None
  /\ UNCHANGED <<kernel, sent, log>>

(* The end of output_flush.  A flush for a console read keeps the buffer   *)
(* and remembers in stdout_from how much of it is written.                 *)
Updated(p, f) ==
  IF f.then = "read" THEN [p EXCEPT !.from = @ + (f.hi - p.from)]
  ELSE [p EXCEPT !.ptr = 0, !.from = 0]

FlushEnd(w) ==
  /\ wr[w].pc = "drain" /\ Segment(w) = <<>>
  /\ LET f == wr[w]
         p == Updated(op, f)
     IN IF f.rest # <<>>
        THEN Write(p, w, f.rest, f.then) /\ UNCHANGED kernel
        ELSE /\ op' = IF f.then = "close" THEN [p EXCEPT !.kindof = "closed"] ELSE p
             /\ wend' = IF f.then = "close" /\ op.kindof \in Queued THEN FALSE ELSE wend
             /\ Done(w, f.then)
             /\ UNCHANGED <<pipe, rend, off>>
  /\ UNCHANGED <<sent, log>>

-----------------------------------------------------------------------------
(* bgl_close_output_port takes no lock: programs close when nobody writes. *)
(* A port in error is not flushed; stdout is flushed and stays open.       *)
BglCloseOutputPort(w) ==
  /\ Quiet /\ op.kindof # "closed"
  /\ IF op.kindof # "string" /\ ~ op.err
     THEN /\ wr' = [wr EXCEPT ![w] = Flush(IF op.hook THEN "hook" ELSE "drain",
                       <<op.ptr - op.from>>, op.from, op.ptr, <<>>, <<>>,
                       IF op.kindof \in Standard THEN "keep" ELSE "close")]
          /\ UNCHANGED <<op, kernel>>
     ELSE /\ op' = [op EXCEPT !.kindof = "closed"]
          /\ wend' = IF op.kindof \in Queued THEN FALSE ELSE wend
          /\ UNCHANGED <<wr, pipe, rend, off>>
  /\ UNCHANGED <<owner, sent, log>>

(* bgl_reset_output_string_port: the caller gets the bytes.                *)
BglResetOutputStringPort ==
  /\ Quiet /\ op.kindof = "string"
  /\ log' = log \o SubSeq(op.mem, 1, op.ptr)
  /\ op' = [op EXCEPT !.ptr = 0]
  /\ UNCHANGED <<kernel, owner, wr, sent>>

(* bgl_output_port_timeout_set.                                            *)
BglOutputPortTimeoutSet(on) ==
  /\ Quiet /\ op.kindof \in Queued
  /\ op' = [op EXCEPT !.timeout = IF on THEN "on" ELSE IF @ = "on" THEN "off" ELSE @]
  /\ UNCHANGED <<kernel, owner, wr, sent, log>>

(* The flush of stdout in bgl_console_read, without the mutex.             *)
ConsoleReadFlush(w) ==
  /\ wr[w].pc = "idle" /\ op.kindof \in Standard
  /\ wr' = [wr EXCEPT ![w] = Flush("drain", <<>>, op.from, op.ptr, <<>>, <<>>, "read")]
  /\ UNCHANGED <<kernel, op, owner, sent, log>>

-----------------------------------------------------------------------------
(* The bytes of the port that are not yet written, in order.               *)
Pending ==
  LET busy == {w \in Writers : wr[w].pc \in {"hook", "drain"}} IN
  IF busy = {} THEN SubSeq(op.mem, op.from + 1, op.ptr)
  ELSE LET f == wr[CHOOSE w \in busy : TRUE]
       IN SubSeq(op.mem, f.lo + 1, f.hi) \o f.str \o f.rest

Data(s) == SelectSeq(s, LAMBDA b : b > 0)

(* Unless the port fails, every byte given to it is written once, in the   *)
(* order of the writers, or still pending: through partial writes, strings *)
(* that overflow, line buffering, flushes for console reads and growing    *)
(* string ports (output_flush, bgl_write, strwrite).  But a flush hook is  *)
(* called without the mutex (cports.c:788-790) when the buffer has been    *)
(* sized: if another thread uses the port while it runs, bytes may be lost *)
(* or written twice.  What is written was given to the port in any case.   *)
NoByteLost ==
  /\ ~ op.err /\ rend /\ ~ op.raced => Data(log) \o Pending = Run(0, sent)
  /\ \A i \in 1 .. Len(log) : log[i] <= sent /\ log[i] # 0
  /\ \A w \in Writers : wr[w].hi <= Len(op.mem)

(* The number that the flush hook is told is what the flush writes:        *)
(* between two headers of the log are as many bytes as the first announces *)
(* (io.texi:96-98), also when another thread uses the port while the hook  *)
(* runs: the flush goes on with the size that it has announced, whatever   *)
(* has become of the buffer.                                               *)
FramesExact ==
  \A i, j \in 1 .. Len(log) :
    (/\ i < j /\ log[i] < 0 /\ log[j] < 0
     /\ \A m \in i + 1 .. j - 1 : log[m] > 0) => j - i - 1 = -log[i] - 1
=============================================================================
