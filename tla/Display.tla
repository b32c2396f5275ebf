------------------------------- MODULE Display -------------------------------
(***************************************************************************)
(* Threads that write objects to one output port: runtime/Clib/cwriter.c.  *)
(*                                                                         *)
(* A writer takes the mutex of the port, puts some pieces, and releases    *)
(* it; the ones that display the name of an object release it in between.  *)
(* A piece has a length in bytes and a way to be put: each way has a test  *)
(* of its own for the room that is left.  How the buffer is flushed is the *)
(* matter of OutputPort; here a flush is one step, or an error, or two     *)
(* steps around a flush hook, which is called without the mutex.           *)
(***************************************************************************)
EXTENDS Integers, Sequences, SequencesExt

CONSTANTS
  Printers,    \* threads
  Simple,      \* the ones of them that write strings and ports only (a bound)
  Nobody,      \* who holds the mutex when it is free
  PortSizes,   \* sizes of the buffer of the port: 0 for a procedure port
  NameLengths, \* lengths of strings, names and patterns
  HexDigits,   \* digits of an address in base 16
  DecDigits,   \* characters of a number in base 10
  HookSizes    \* the sizes of the ports that may have a flush hook (a bound)

VARIABLES
  size,        \* the size of the buffer
  buffer,      \* the pieces in the buffer
  out,         \* the pieces that left it
  portlock,    \* who holds the mutex
  printer,     \* per thread: the object, its parts, what it still has to do
  overrun,     \* kinds of objects that wrote past a buffer
  hook         \* "none", "set", or "raced": somebody wrote while it ran

displayVars == <<size, buffer, out, portlock, printer, overrun, hook>>

-----------------------------------------------------------------------------
(* The pieces.                                                             *)

Putc         == [how |-> "putc", len |-> 1, sz |-> 0]
Puts(n)      == [how |-> "puts", len |-> n, sz |-> 0]
Printf(sz, n) == [how |-> "printf", len |-> n, sz |-> sz]   \* sz: of __buf
BglWrite(n)  == [how |-> "write", len |-> n, sz |-> 0]

(* An object: the parts that are put with the mutex held.                  *)
Object(kind, parts) == [kind |-> kind, parts |-> parts]
Whole(kind, pieces) == Object(kind, <<pieces>>)

(* The name of an object is displayed between two parts.                   *)
Named(kind, before, n, after) == Object(kind, <<before, <<BglWrite(n)>>, after>>)

BglDisplaySubstring(n) == Whole("substring", <<BglWrite(n)>>)
BglDisplayString(n)    == Whole("string", <<BglWrite(n)>>)     \* llong, bignum too
BglWriteString(esc, n) ==
  Whole("written string", (IF esc THEN <<Putc>> ELSE <<>>) \o <<Putc, BglWrite(n), Putc>>)

BglDisplayFixnum(d) == Whole("fixnum", <<Printf(32, d)>>)
BglDisplayElong(d)  == Whole("elong", <<Printf(32, d)>>)
BglWriteElong(d)    == Whole("written elong", <<Printf(32, 2 + d)>>)
BglWriteLlong(d)    == Whole("llong", <<Puts(2), BglWrite(d)>>)
BglWriteBignum(d)   == Whole("bignum", <<Puts(2), BglWrite(d)>>)

BglDisplayChar   == Whole("char", <<Putc>>)
BglWriteChar(n)  ==   \* n: length of the name of the character, 0 for none
  Whole("written char", IF n > 0 THEN <<Putc, Putc, BglWrite(n)>>
                        ELSE <<Putc, Putc, Putc, Printf(3, 2)>>)
BglWriteUcs2        == Whole("ucs2", <<Printf(7, 6)>>)
BglDisplayUcs2(low) == IF low THEN Whole("ucs2", <<Putc>>) ELSE BglWriteUcs2
BglDisplayUcs2string(n) == Whole("ucs2 string", [i \in 1 .. n |-> Putc])   \* below 256
BglWriteUtf8string(n) == Whole("utf8 string", <<Puts(3), BglWrite(n), Putc>>)

BglWriteOpaque(d, h)    == Whole("opaque", <<Printf(40, 11 + d + h)>>)
BglWriteCnst            == Whole("cnst", <<Printf(8, 7)>>)
BglWriteProcedure(h, d) == Whole("procedure", <<Printf(96, 14 + h + d)>>)
BglWriteOutputPort(n)   == Named("output port", <<Puts(14)>>, n, <<Puts(1)>>)
BglWriteInputPort(n, d) == Named("input port", <<Puts(13)>>, n, <<Printf(10, 2 + d)>>)
BglWriteBinaryPort(n)   == Whole("binary port", <<Printf(40 + n, 22 + n)>>)
BglWriteForeign(n, h)   == Named("foreign", <<Puts(10)>>, n, <<Printf(16, 2 + h)>>)
BglWriteDynamicEnv(h)   == Whole("dynamic env", <<Puts(14), Printf(16, 4 + h)>>)
BglWriteProcess(d)      == Whole("process", <<Puts(10), Printf(20, 1 + d)>>)

(* The host of a socket is a string, or 9 bytes of a literal whose sizeof  *)
(* is 10.                                                                  *)
Host(n) == IF n = 0 THEN [sz |-> 10, len |-> 9] ELSE [sz |-> n, len |-> n]
BglWriteSocket(unix, n, d, h) ==
  Whole("socket", <<IF unix THEN Printf(40 + Host(n).sz, 15 + Host(n).len)
                            ELSE Printf(48 + Host(n).sz, 12 + Host(n).len + d + h)>>)
BglWriteDatagramSocket(n, d) ==
  Whole("datagram socket", <<Printf(40 + Host(n).sz, 20 + Host(n).len + d)>>)

BglWriteRegexp(n)    == Whole("regexp", <<Printf(11 + n, 10 + n)>>)
BglWriteMmap(n, d)   == Named("mmap", <<Puts(7)>>, n, <<Printf(16, 2 + d)>>)
BglWriteSemaphore(n) == Named("semaphore", <<Puts(12)>>, n, <<Puts(1)>>)
BglWriteCustom(n)    == Whole("custom", <<BglWrite(n)>>)      \* CUSTOM_OUTPUT (external)
BglWriteUnknown(ptr, d, h) == Whole("unknown", <<Printf(40, 7 + h + IF ptr THEN d + 1 ELSE 0)>>)

Writable ==
  UNION {{BglDisplaySubstring(n), BglDisplayString(n), BglWriteString(TRUE, n),
          BglWriteString(FALSE, n), BglDisplayUcs2string(n), BglWriteUtf8string(n),
          BglWriteChar(n), BglWriteOutputPort(n), BglWriteBinaryPort(n), BglWriteRegexp(n),
          BglWriteSemaphore(n), BglWriteCustom(n)} : n \in NameLengths}
  \cup UNION {{BglDisplayFixnum(d), BglDisplayElong(d), BglWriteElong(d), BglWriteLlong(d),
               BglWriteBignum(d)} : d \in DecDigits \cup {20}}
  \cup {BglDisplayChar, BglWriteUcs2, BglDisplayUcs2(TRUE), BglDisplayUcs2(FALSE), BglWriteCnst}
  \cup UNION {{BglWriteOpaque(d, h), BglWriteProcedure(h, d), BglWriteDynamicEnv(h),
               BglWriteProcess(d), BglWriteUnknown(TRUE, d, h), BglWriteUnknown(FALSE, d, h)} :
                 d \in DecDigits, h \in HexDigits}
  \cup UNION {{BglWriteInputPort(n, d), BglWriteForeign(n, h), BglWriteMmap(n, d),
               BglWriteSocket(TRUE, n, 5, h), BglWriteSocket(FALSE, n, 5, h),
               BglWriteDatagramSocket(n, 5)} :
                 n \in NameLengths, d \in DecDigits, h \in HexDigits}

Written(t) ==
  IF t \notin Simple THEN Writable
  ELSE UNION {{BglWriteString(TRUE, n), BglWriteOutputPort(n)} : n \in NameLengths}

-----------------------------------------------------------------------------
(* What a writer does, in order.                                           *)

Step(how) == [what |-> [how |-> how, len |-> 0, sz |-> 0], part |-> 0, place |-> 0]

(* Mutant: the mutex is taken for each piece.                              *)
LockEach(ps) == FlattenSeq([i \in 1 .. Len(ps) |-> <<Step("lock"), ps[i], Step("unlock")>>])

Locked(ps) == <<Step("lock")>> \o ps \o <<Step("unlock")>>

Numbered(o) ==
  [i \in 1 .. Len(o.parts) |->
     [j \in 1 .. Len(o.parts[i]) |-> [what |-> o.parts[i][j], part |-> i, place |-> j]]]

Program(o) == FlattenSeq([i \in 1 .. Len(o.parts) |-> Locked(Numbered(o)[i])])
Resting == [object |-> Whole("none", <<>>), todo |-> <<>>]

Bytes(ps) == FoldLeft(LAMBDA n, p : n + p.len, 0, ps)
Cnt == size - Bytes(buffer)          \* BGL_OUTPUT_PORT_CNT

InitDisplay ==
  /\ size \in PortSizes
  /\ buffer \in {<<>>} \cup
       {<<[by |-> Nobody, part |-> 0, place |-> 0, len |-> n]>> :
           n \in {m \in {size - 17, size - 3, size} : m > 0}}
  /\ out = <<>> /\ portlock = Nobody /\ overrun = {}
  /\ printer = [t \in Printers |-> Resting]
  /\ hook = "none" \/ (hook = "set" /\ size \in HookSizes)

Displays(t, o) ==
  /\ printer[t] = Resting
  /\ printer' = [printer EXCEPT ![t] = [object |-> o, todo |-> Program(o)]]
  /\ UNCHANGED <<size, buffer, out, portlock, overrun, hook>>

Todo(t) == Head(printer[t].todo)
Goes(t) == printer' = [printer EXCEPT ![t].todo = Tail(@)]

Locks(t) ==
  /\ printer[t].todo # <<>> /\ Todo(t).what.how = "lock" /\ portlock = Nobody
  /\ portlock' = t /\ Goes(t)
  /\ UNCHANGED <<size, buffer, out, overrun, hook>>

Unlocks(t) ==
  /\ printer[t].todo # <<>> /\ Todo(t).what.how = "unlock"
  /\ portlock' = Nobody /\ Goes(t)
  /\ UNCHANGED <<size, buffer, out, overrun, hook>>

(* Mutant: PUTC looks at the buffer one byte too late.                     *)
FitsAlmost(p) ==
  \/ p.how = "putc" /\ Cnt >= 0
  \/ p.how \in {"puts", "write"} /\ Cnt > p.len
  \/ p.how = "printf" /\ Cnt > p.sz

(* The tests of PUTC, PUTS, bgl_write and PRINTF.                          *)
Fits(p) ==
  \/ p.how = "putc" /\ Cnt > 0
  \/ p.how \in {"puts", "write"} /\ Cnt > p.len
  \/ p.how = "printf" /\ Cnt > p.sz

Putting(t) == printer[t].todo # <<>> /\ Todo(t).what.how \notin {"lock", "unlock", "hooked"}
Hooked(t) == printer[t].todo # <<>> /\ Todo(t).what.how = "hooked"

(* sprintf ends what it makes with a zero byte.                            *)
Overruns(t, room) ==
  LET p == Todo(t).what
      needs == IF p.how = "printf" THEN p.len + 1 ELSE p.len
  IN overrun' = IF needs > room THEN overrun \cup {printer[t].object.kind} ELSE overrun

Piece(t) ==
  [by |-> t, part |-> Todo(t).part, place |-> Todo(t).place, len |-> Todo(t).what.len]

RoomOf(p) == IF p.how = "printf" THEN p.sz ELSE p.len

(* A piece goes to the buffer, or the buffer and the piece are written.    *)
Puts1(t) ==
  /\ Putting(t)
  /\ IF Fits(Todo(t).what)
     THEN buffer' = Append(buffer, Piece(t)) /\ Overruns(t, Cnt) /\ UNCHANGED out
     ELSE /\ hook = "none"
          /\ buffer' = <<>> /\ out' = Append(out \o buffer, Piece(t))
          /\ Overruns(t, RoomOf(Todo(t).what))
  /\ hook' = IF \E u \in Printers : Hooked(u) THEN "raced" ELSE hook
  /\ Goes(t)
  /\ UNCHANGED <<size, portlock>>

(* invoke_flush_hook: the buffer is sized, then the mutex released.        *)
InvokeHook(t) ==
  /\ Putting(t) /\ ~ Fits(Todo(t).what) /\ hook # "none"
  /\ Overruns(t, RoomOf(Todo(t).what))
  /\ printer' = [printer EXCEPT ![t].todo =
        <<[Todo(t) EXCEPT !.what = [how |-> "hooked", len |-> Todo(t).what.len, sz |-> Bytes(buffer)]]>>
          \o Tail(@)]
  /\ portlock' = Nobody
  /\ hook' = IF \E u \in Printers : Hooked(u) THEN "raced" ELSE hook
  /\ UNCHANGED <<size, buffer, out>>

(* The mutex is taken again; as many bytes are written as were sized, then *)
(* the piece, and the buffer is empty: what others put meanwhile is lost.  *)
(* What a flush of another left in these bytes is not modelled.            *)
HookReturns(t) ==
  /\ Hooked(t) /\ portlock = Nobody
  /\ portlock' = t
  /\ LET sized(i) == Bytes(SubSeq(buffer, 1, i)) <= Todo(t).what.sz
         kept == SelectSeq([i \in DOMAIN buffer |-> [piece |-> buffer[i], in |-> sized(i)]],
                           LAMBDA p : p.in)
     IN out' = Append(out \o [i \in DOMAIN kept |-> kept[i].piece], Piece(t))
  /\ buffer' = <<>>
  /\ Goes(t)
  /\ UNCHANGED <<size, overrun, hook>>

(* C_OUTPUT_PORT_SYSTEM_FAILURE releases the mutex before it raises.       *)
PutFails(t) ==
  /\ \/ Putting(t) /\ ~ Fits(Todo(t).what) /\ hook = "none"
     \/ Hooked(t) /\ portlock = Nobody
  /\ portlock' = Nobody
  /\ printer' = [printer EXCEPT ![t].todo = <<>>]
  /\ UNCHANGED <<size, buffer, out, overrun, hook>>

DisplayNext ==
  \E t \in Printers :
    \/ \E o \in Written(t) : Displays(t, o)
    \/ Locks(t) \/ Unlocks(t) \/ Puts1(t) \/ PutFails(t) \/ InvokeHook(t) \/ HookReturns(t)

-----------------------------------------------------------------------------
(* What one thread writes while it holds the mutex stays together on the   *)
(* port, in order and without a hole, whatever the others write: a part of *)
(* a named object, and all of the others.  But a flush hook is called      *)
(* without the mutex (cports.c:788): if somebody writes while it runs, the *)
(* pieces mix.  The buffer never holds more than its size; the temporary   *)
(* ones are overrun by three objects only: __buf is a byte too short for   *)
(* an address of 12 digits in bgl_write_dynamic_env, for one of 14 digits  *)
(* and more in bgl_write_foreign, and for buffers of 10 MB and more in     *)
(* bgl_write_input_port.  Nobody leaves with the mutex.                    *)
WritesWhole ==
  LET stream == out \o buffer IN
  /\ hook = "raced" \/ \A i, j \in 1 .. Len(stream) :
       i < j /\ stream[i].by = stream[j].by /\ stream[i].part = stream[j].part
         => stream[j].place = stream[i].place + (j - i)
  /\ Bytes(buffer) <= size
  /\ overrun \subseteq {"dynamic env", "foreign", "input port"}
  /\ portlock # Nobody => printer[portlock].todo # <<>> /\ ~ Hooked(portlock)
=============================================================================
