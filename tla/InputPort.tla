------------------------------ MODULE InputPort ------------------------------
(***************************************************************************)
(* Input ports: the buffer and the cursors of runtime/Clib/crgc.c and the  *)
(* input half of runtime/Clib/cports.c, read by one thread.                *)
(*                                                                         *)
(* A token of a regular grammar starts where the last one stopped          *)
(* (matchstart = matchstop), moves forward, refills, shifts or doubles the *)
(* buffer when it reaches bufpos, and stops.  read-char is a token of one  *)
(* byte.  A system read is an action of its own: the source may have       *)
(* changed since the last one.                                             *)
(***************************************************************************)
EXTENDS PortFile

CONSTANTS
  BufSize,    \* the size of a fresh buffer
  MaxToken,   \* the longest token, read-chars or unread-string!
  Chunks      \* lengths of the strings that the procedure of a port returns

VARIABLES
  ip,         \* the port
  pend,       \* pbuffer of a procedure port holds the bytes off + 1 .. pend
  call,       \* what the reader is in the middle of
  last,       \* auxiliary: what the last call returned
  wall,       \* auxiliary: the position of the fill barrier
  goal,       \* auxiliary: the argument of the last seek, or -1
  asked,      \* auxiliary: how many bytes the last read was asked for
  lost        \* auxiliary: bytes that an aborted call has taken and not told

reader == <<ip, pend, call, last, wall, goal, asked, lost>>

Offsets == {"file", "mmap", "procedure"}   \* kinds that read at off
Queues == {"pipe", "console"}              \* kinds that read the pipe
Idle == [op |-> "idle"]

(* bgl_make_input_port: an empty buffer, whatever the kind.                *)
MakeInputPort(k) ==
  [kindof |-> k, buf |-> <<>>, siz |-> BufSize, matchstart |-> 0,
   matchstop |-> 0, forward |-> 0, bufpos |-> 0, eof |-> FALSE, filepos |-> 0,
   fillbarrier |-> -1, timeout |-> "none"]

(* bgl_open_input_string: the whole string is the buffer.                  *)
OpenInputString ==
  [MakeInputPort("string") EXCEPT !.buf = Run(0, FileLen), !.siz = FileLen,
     !.bufpos = FileLen, !.eof = TRUE]

OpenInput(k) == IF k = "string" THEN OpenInputString ELSE MakeInputPort(k)

InitReader(k) ==
  /\ ip = OpenInput(k)
  /\ pend = 0 /\ call = Idle /\ last = <<>> /\ wall = -1 /\ goal = -1
  /\ asked = 0 /\ lost = {}

TypeOKReader ==
  /\ 0 <= ip.matchstart /\ ip.matchstart <= ip.matchstop
  /\ ip.matchstop <= ip.forward /\ ip.forward <= ip.bufpos
  /\ ip.bufpos = Len(ip.buf) /\ ip.bufpos <= ip.siz
  /\ ip.filepos \in Nat /\ ip.fillbarrier \in Nat \cup {-1}
  /\ call.op \in {"idle", "match", "blit", "send"}
  /\ last \in Seq(Nat)

-----------------------------------------------------------------------------
(* The buffer.                                                             *)

Available(p) == p.bufpos - p.matchstop
StartMatch(p) == [p EXCEPT !.matchstart = p.matchstop, !.forward = p.matchstop]

RgcDoubleBuffer(p) == [p EXCEPT !.siz = 2 * @]

RgcShiftBuffer(p) ==
  [p EXCEPT !.buf = SubSeq(@, p.matchstart + 1, p.bufpos),
     !.bufpos = @ - p.matchstart, !.matchstop = @ - p.matchstart,
     !.forward = @ - p.matchstart, !.matchstart = 0]

(* Mutant: shifting the buffer forgets the end of the match.               *)
ShiftForgetsStop(p) ==
  IF p.bufpos < p.siz THEN p
  ELSE IF p.matchstart > 0
       THEN [RgcShiftBuffer(p) EXCEPT !.forward = 0]
       ELSE RgcDoubleBuffer(p)

(* The branches of rgc_fill_buffer that find room for more bytes.          *)
MakeRoom(p) ==
  IF p.bufpos < p.siz THEN p
  ELSE IF p.matchstart > 0 THEN RgcShiftBuffer(p) ELSE RgcDoubleBuffer(p)

(* rgc_fillsize_buffer after the system read.                              *)
Filled(p, bytes) ==
  [p EXCEPT !.buf = @ \o bytes, !.bufpos = @ + Len(bytes),
     !.fillbarrier = IF @ > 0 THEN @ - Len(bytes) ELSE @]

(* The automaton accepts bytes up to the length it wants.                  *)
Advance(p, want) ==
  LET f == Least(p.bufpos, p.matchstart + want)
  IN [p EXCEPT !.forward = f, !.matchstop = f]

Matched(p) == SubSeq(p.buf, p.matchstart + 1, p.matchstop)
SetFilepos(p) == [p EXCEPT !.filepos = @ + (p.matchstop - p.matchstart)]

(* rgc_buffer_unget_char, which peek-char calls after a token of one byte. *)
RgcBufferUngetChar(p) ==
  [p EXCEPT !.filepos = @ - 1, !.matchstop = IF @ > 0 THEN @ - 1 ELSE @]

(* rgc_reserve_space: amount free bytes before matchstop.                  *)
RgcReserveSpace(p, amount) ==
  IF p.matchstop >= amount THEN p
  ELSE LET fits(q) == p.matchstop + (q.siz - p.bufpos) >= amount
           q == IF fits(p) THEN p
                ELSE IF fits(RgcDoubleBuffer(p)) THEN RgcDoubleBuffer(p)
                ELSE RgcDoubleBuffer(RgcDoubleBuffer(p))
           diff == amount - p.matchstop
       IN [q EXCEPT !.buf = [i \in 1 .. diff |-> 0] \o @,
             !.bufpos = @ + diff, !.matchstop = amount]

(* rgc_buffer_insert_substring and rgc_buffer_insert_char.                 *)
RgcBufferInsert(p, str) ==
  LET q == RgcReserveSpace(p, Len(str))
      m == q.matchstop - Len(str)
  IN [q EXCEPT
        !.buf = [i \in 1 .. Len(@) |-> IF i \in m + 1 .. q.matchstop THEN str[i - m]
                                       ELSE @[i]],
        !.filepos = IF @ >= Len(str) THEN @ - Len(str) ELSE 0,
        !.matchstop = m, !.forward = m, !.matchstart = m]

-----------------------------------------------------------------------------
(* System reads: what a source may answer to a read of at most size bytes, *)
(* and whether the read sets eof.                                          *)

Answer(bytes, eof) == [bytes |-> bytes, eof |-> eof]

(* bgl_read goes on after EINTR; an empty pipe with a writer blocks.       *)
BglRead(size) ==
  IF pipe # <<>>
  THEN {Answer(SubSeq(pipe, 1, n), FALSE) : n \in 1 .. Least(size, Len(pipe))}
  ELSE IF wend THEN {} ELSE {Answer(<<>>, TRUE)}

(* The same function on a regular file.                                    *)
FileRead(size) ==
  IF off < FileLen THEN {Answer(Run(off, Least(size, FileLen - off)), FALSE)}
  ELSE {Answer(<<>>, TRUE)}

(* bgl_console_read collects bytes up to a newline.                        *)
BglConsoleRead(size) ==
  LET ends == {n \in 1 .. Len(pipe) : n = size \/ pipe[n] \in Newlines}
  IN IF ends # {} THEN {Answer(SubSeq(pipe, 1, Min(ends)), FALSE)}
     ELSE IF wend THEN {} ELSE {Answer(pipe, TRUE)}

(* bgl_proc_read takes what is left of pbuffer; see BglProcCall.           *)
BglProcRead(size) ==
  IF pend > off THEN {Answer(Run(off, Least(size, pend - off)), FALSE)}
  ELSE IF off = FileLen THEN {Answer(<<>>, TRUE)} ELSE {}

(* bgl_input_mmap_read sets eof with the last byte.                        *)
BglInputMmapRead(size) ==
  LET n == Least(size, FileLen - off)
  IN {Answer(Run(off, n), n > 0 /\ n = FileLen - off)}

SysRead(size) ==
  CASE ip.kindof = "file" -> FileRead(size)
    [] ip.kindof = "pipe" -> BglRead(size)
    [] ip.kindof = "console" -> BglConsoleRead(size)
    [] ip.kindof = "procedure" -> BglProcRead(size)
    [] ip.kindof = "mmap" -> BglInputMmapRead(size)
    [] ip.kindof = "string" -> {Answer(<<>>, FALSE)}      \* bgl_eof_read

(* The source after the read of bytes.                                     *)
Consume(bytes) ==
  /\ off' = IF ip.kindof \in Offsets THEN off + Len(bytes) ELSE off
  /\ pipe' = IF ip.kindof \in Queues THEN SubSeq(pipe, Len(bytes) + 1, Len(pipe)) ELSE pipe
  /\ UNCHANGED <<wend, rend, pend>>

(* bgl_proc_read calls the procedure when pbuffer is empty: it returns a   *)
(* string, or #f at the end.                                               *)
BglProcCall ==
  /\ call.op \in {"match", "blit", "send"} /\ ~ ip.eof
  /\ ip.kindof = "procedure" /\ pend <= off /\ off < FileLen
  /\ pend' \in {Least(off + c, FileLen) : c \in Chunks}
  /\ UNCHANGED <<kernel, ip, call, last, wall, goal, asked, lost>>

-----------------------------------------------------------------------------
(* Reading a token, or peeking at a byte.                                  *)

Return(p, peek) ==
  /\ last' = Matched(p)
  /\ ip' = IF peek /\ Matched(p) # <<>> THEN RgcBufferUngetChar(SetFilepos(p))
           ELSE SetFilepos(p)
  /\ call' = Idle

(* Go on with a match: it is complete, or it needs more bytes.             *)
Proceed(p, want, peek) ==
  LET q == Advance(p, want) IN
  IF q.forward - q.matchstart = want THEN Return(q, peek)
  ELSE /\ ip' = q
       /\ call' = [op |-> "match", want |-> want, peek |-> peek]
       /\ UNCHANGED last

ReadToken(want, peek) ==
  /\ call = Idle
  /\ ip.kindof # "closed"
  /\ Proceed(StartMatch(ip), want, peek)
  /\ asked' = want
  /\ UNCHANGED <<kernel, pend, wall, goal, lost>>

Barrier(p, size) == IF p.fillbarrier > 0 THEN Least(size, p.fillbarrier) ELSE size

(* rgc_fill_buffer of a match that has used all of the buffer.             *)
RgcFillBuffer ==
  /\ call.op = "match"
  /\ UNCHANGED <<wall, goal, asked, lost>>
  /\ LET p == [ip EXCEPT !.forward = ip.bufpos]
         q == MakeRoom(p)
     IN \/ /\ p.eof
           /\ Return(p, call.peek)
           /\ UNCHANGED <<kernel, pend>>
        \/ /\ ~ p.eof /\ q.fillbarrier = 0
           /\ Return(q, call.peek)
           /\ UNCHANGED <<kernel, pend>>
        \/ /\ ~ p.eof /\ q.fillbarrier # 0
           /\ \E a \in SysRead(Barrier(q, q.siz - q.bufpos)) :
                LET r == [Filled(q, a.bytes) EXCEPT !.eof = a.eof] IN
                /\ Consume(a.bytes)
                /\ IF a.bytes = <<>> THEN Return(r, call.peek)
                   ELSE Proceed(r, call.want, call.peek)

(* sysread_with_timeout and bgl_posix_timed_read: the time is over while   *)
(* the pipe is empty, and the read raises an error instead of returning:   *)
(* what a token had matched, or a blit had read past the buffer, is gone.  *)
Stored(bytes) == {bytes[i] : i \in DOMAIN bytes}
ReadTimeout ==
  /\ ip.timeout = "on" /\ ~ ip.eof /\ ip.fillbarrier # 0
  /\ pipe = <<>> /\ wend
  /\ \/ /\ call.op = "match" /\ ip' = MakeRoom([ip EXCEPT !.forward = ip.bufpos])
        /\ lost' = lost \cup Stored(Matched(ip))
     \/ /\ call.op = "blit" /\ ip' = ip
        /\ lost' = lost \cup (Stored(call.got) \ Stored(ip.buf))
  /\ call' = Idle
  /\ UNCHANGED <<kernel, pend, last, wall, goal, asked>>

-----------------------------------------------------------------------------
(* bgl_rgc_blit_string: read-chars into a string, past the buffer.         *)

BlitEnd(p, got) ==
  /\ ip' = [p EXCEPT !.buf = <<>>, !.forward = 0, !.bufpos = 0, !.matchstart = 0,
              !.matchstop = 0, !.filepos = @ + Len(got)]
  /\ last' = got
  /\ call' = Idle

BlitStart(n) ==
  /\ call = Idle
  /\ ip.kindof # "closed"
  /\ LET p == StartMatch(ip)
         l == IF p.eof THEN Least(n, Available(p)) ELSE n
     IN IF Available(p) >= l
        THEN LET m == p.matchstart + l IN
             /\ last' = SubSeq(p.buf, p.matchstart + 1, m)
             /\ ip' = [p EXCEPT !.matchstart = m, !.forward = m, !.matchstop = m,
                         !.filepos = @ + l]
             /\ call' = Idle
        ELSE /\ ip' = p
             /\ call' = [op |-> "blit", left |-> l - Available(p),
                         got |-> SubSeq(p.buf, p.matchstop + 1, p.bufpos)]
             /\ UNCHANGED last
  /\ asked' = n
  /\ UNCHANGED <<kernel, pend, wall, goal, lost>>

BlitRead ==
  /\ call.op = "blit"
  /\ UNCHANGED <<wall, goal, asked, lost>>
  /\ IF ip.eof THEN BlitEnd(ip, call.got) /\ UNCHANGED <<kernel, pend>>
     ELSE \E a \in SysRead(call.left) :
            LET p == [ip EXCEPT !.eof = a.eof]
                got == call.got \o a.bytes
            IN /\ Consume(a.bytes)
               /\ IF call.left = Len(a.bytes) THEN BlitEnd(p, got)
                  ELSE /\ ip' = p
                       /\ call' = [op |-> "blit", left |-> call.left - Len(a.bytes),
                                   got |-> got]
                       /\ UNCHANGED last

-----------------------------------------------------------------------------
(* unread-char! and unread-string! of the bytes before the position.       *)
UnreadString(n) ==
  /\ call = Idle
  /\ ip.kindof # "closed"
  /\ n <= ip.filepos
  /\ ip' = RgcBufferInsert(ip, Run(ip.filepos - n, n))
  /\ last' = <<>>
  /\ UNCHANGED <<kernel, pend, call, wall, goal, asked, lost>>

(* input-port-fill-barrier-set!                                            *)
InputPortFillbarrierSet(v) ==
  /\ call = Idle /\ ip.kindof # "closed" /\ ip.fillbarrier = -1
  /\ ip' = [ip EXCEPT !.fillbarrier = v - Available(ip)]
  /\ wall' = ip.filepos + v
  /\ UNCHANGED <<kernel, pend, call, last, goal, asked, lost>>

(* bgl_input_port_timeout_set: a timeout of 0 goes back to blocking reads. *)
BglInputPortTimeoutSet(on) ==
  /\ call = Idle /\ ip.kindof \in Queues
  /\ ip' = [ip EXCEPT !.timeout = IF on THEN "on" ELSE IF @ = "on" THEN "off" ELSE @]
  /\ UNCHANGED <<kernel, pend, call, last, wall, goal, asked, lost>>

EmptyBuffer(p, pos) ==
  [p EXCEPT !.filepos = pos, !.matchstart = 0, !.matchstop = 0, !.forward = 0,
     !.bufpos = 0, !.buf = <<>>]

(* Mutant: seeking forgets to drop what is in the buffer.                  *)
SeekKeepsBuffer(p, pos) == [p EXCEPT !.filepos = pos, !.eof = FALSE]

BglInputFileSeek(p, pos) == [EmptyBuffer(p, pos) EXCEPT !.eof = FALSE]

BglInputStringSeek(p, pos) ==
  IF pos < p.siz
  THEN [p EXCEPT !.filepos = pos, !.matchstart = pos, !.matchstop = pos, !.forward = pos]
  ELSE [p EXCEPT !.eof = TRUE]

BglInputMmapSeek(p, pos) ==
  IF pos < FileLen THEN EmptyBuffer(p, pos) ELSE [p EXCEPT !.eof = TRUE]

(* bgl_input_port_seek of a port that supports it, within its length.      *)
BglInputPortSeek(pos) ==
  /\ call = Idle
  /\ \/ ip.kindof = "file" /\ ip' = BglInputFileSeek(ip, pos) /\ off' = pos
     \/ ip.kindof = "string" /\ ip' = BglInputStringSeek(ip, pos) /\ off' = off
     \/ /\ ip.kindof = "mmap" /\ ip' = BglInputMmapSeek(ip, pos)
        /\ off' = IF pos < FileLen THEN pos ELSE off
  /\ goal' = pos /\ last' = <<>> /\ lost' = {}
  /\ UNCHANGED <<pipe, wend, rend, pend, call, wall, asked>>

(* input-port-reopen!: a file is opened again, other ports seek.           *)
BglInputPortReopen ==
  \/ ip.kindof # "file" /\ BglInputPortSeek(0)
  \/ /\ ip.kindof = "file" /\ call = Idle
     /\ ip' = [EmptyBuffer(ip, 0) EXCEPT !.eof = FALSE]
     /\ off' = 0 /\ goal' = 0 /\ last' = <<>> /\ lost' = {}
     /\ UNCHANGED <<pipe, wend, rend, pend, call, wall, asked>>

BglCloseInputPort ==
  /\ call = Idle
  /\ ip.kindof \notin {"closed", "console"}
  /\ ip' = [ip EXCEPT !.kindof = "closed", !.eof = TRUE]
  /\ rend' = IF ip.kindof = "pipe" THEN FALSE ELSE rend
  /\ UNCHANGED <<pipe, wend, off, pend, call, last, wall, goal, asked, lost>>
-----------------------------------------------------------------------------
(* What a program may ask of a port.                                       *)

(* Mutant: a port that saw its end has nothing left.                       *)
EofByFlag(p) == p.eof

(* rgc_buffer_eof_p.                                                       *)
RgcBufferEofP(p) == p.eof /\ p.matchstop = p.bufpos

(* select in file_charready: data, or a pipe without a writer.             *)
FileCharready == pipe # <<>> \/ ~ wend

BglRgcCharready(p) ==
  CASE p.kindof = "closed" -> FALSE
    [] p.kindof = "string" -> p.matchstop < p.bufpos
    [] p.kindof = "file" -> p.matchstop < p.bufpos \/ ~ p.eof
    [] p.kindof \in Queues -> p.matchstop < p.bufpos \/ FileCharready
    [] p.kindof = "procedure" -> TRUE
    [] OTHER -> FALSE

(* A read of one byte that would have to wait for the source.              *)
Blocks(p) ==
  LET q == MakeRoom(StartMatch(p)) IN
  /\ p.matchstop = p.bufpos /\ ~ p.eof /\ p.fillbarrier # 0
  /\ p.kindof # "procedure" /\ SysRead(Barrier(q, q.siz - q.bufpos)) = {}
=============================================================================
