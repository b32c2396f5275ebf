-------------------------------- MODULE Ports --------------------------------
(***************************************************************************)
(* Ports that work together: an output port and an input port at the two   *)
(* ends of a pipe (bgl_open_pipes), or each with its own file, string or   *)
(* procedure.  A scenario says which ports the program opens and what it   *)
(* does with them, send-chars included: an input port emptied into an      *)
(* output port, under the mutex of the output port.                        *)
(***************************************************************************)
EXTENDS InputPort, OutputPort

CONSTANT Scenarios

VARIABLE use      \* the scenario of this behaviour

vars == <<kernel, reader, writer, use>>

Ops == {"token", "peek", "blit", "unread", "seek", "barrier", "close", "timeout",
        "write", "wclose", "wtimeout", "send"}

ASSUME ScenarioAssumption ==
  \A s \in Scenarios : /\ s.ops \subseteq Ops
                       /\ s.writers \subseteq Writers
                       /\ s.seeks \subseteq Nat
                       /\ s.sizes \subseteq 1 .. MaxToken
                       /\ s.sends \subseteq Nat \cup {-1}
                       /\ s.logs \in Nat

-----------------------------------------------------------------------------
(* bgl_sendchars up to the end of its first flush; sz is -1 for all.       *)
BglSendchars(w, sz) ==
  /\ call = Idle /\ owner = None /\ wr[w].pc = "idle"
  /\ ip.kindof # "closed" /\ op.kindof # "closed"
  /\ call' = [op |-> "send", left |-> sz, done |-> <<>>, buffered |-> TRUE]
  /\ FlushStart(op, w, <<>>, <<>>, "copy")
  /\ asked' = IF sz = -1 THEN FileLen + MaxToken ELSE sz
  /\ UNCHANGED <<kernel, ip, pend, last, wall, goal, lost, sent, log>>

(* The bytes of the input buffer, in one system write.  When they are all  *)
(* that was asked for, the call returns without moving filepos.            *)
SendBuffered(w) ==
  /\ wr[w].pc = "copy" /\ call.op = "send" /\ call.buffered
  /\ LET dsz == Available(ip)
         ws == IF call.left > 0 THEN Least(dsz, call.left) ELSE dsz
         Taken(k) == SubSeq(ip.buf, ip.matchstop + 1, ip.matchstop + k)
     IN IF ws = 0
        THEN call' = [call EXCEPT !.buffered = FALSE] /\ UNCHANGED <<ip, lost, wr, owner, log, sent>>
        ELSE \E k \in Written(ws) :
               /\ log' = log \o Taken(k)
               /\ sent' = sent + k
               /\ ip' = [ip EXCEPT !.matchstop = @ + k, !.forward = ip.matchstop + k]
               /\ IF k < ws \/ (call.left > 0 /\ dsz >= call.left)
                  THEN /\ call' = Idle /\ Done(w, "done")
                       /\ lost' = lost \cup Stored(Taken(k))
                  ELSE /\ call' = [call EXCEPT !.buffered = FALSE, !.done = Taken(ws),
                                     !.left = IF @ > 0 THEN @ - ws ELSE @]
                       /\ UNCHANGED <<wr, owner, lost>>
  /\ UNCHANGED <<kernel, pend, last, wall, goal, asked, op>>

(* How much gc_sendfile is asked for: all of st_size when sz is -1.        *)
Total == IF call.left = -1 THEN FileLen ELSE call.left

(* gc_sendfile, for a file: straight from the file to the stream.          *)
GcSendfile(w) ==
  /\ wr[w].pc = "copy" /\ call.op = "send" /\ ~ call.buffered
  /\ ip.kindof = "file" /\ Total > 0
  /\ \E k \in 0 .. Least(Total, FileLen - off) :
       /\ k = 0 <=> off = FileLen
       /\ log' = log \o Run(off, k) /\ sent' = sent + k
       /\ off' = off + k
       /\ call' = [call EXCEPT !.left = Total - k, !.done = @ \o Run(off, k)]
  /\ UNCHANGED <<pipe, wend, rend, ip, pend, last, wall, goal, asked, lost, op, owner, wr>>

(* One turn of copyfile, for other ports: a system read, then bgl_write.   *)
Copyfile(w) ==
  /\ wr[w].pc = "copy" /\ call.op = "send" /\ ~ call.buffered
  /\ ip.kindof # "file" /\ call.left # 0
  /\ \E a \in SysRead(IF call.left < 0 THEN BufSize ELSE Least(BufSize, call.left)) :
       /\ Consume(a.bytes)
       /\ ip' = [ip EXCEPT !.eof = a.eof]
       /\ sent' = sent + Len(a.bytes)
       /\ IF a.bytes = <<>>
          THEN /\ call' = [call EXCEPT !.left = 0] /\ UNCHANGED <<op, owner, wr>>
          ELSE /\ Write(op, w, a.bytes, "copy")
               /\ call' = [call EXCEPT !.done = @ \o a.bytes,
                             !.left = IF @ < 0 THEN @ ELSE @ - Len(a.bytes)]
  /\ UNCHANGED <<last, wall, goal, asked, lost, log>>

(* The end of bgl_sendchars, with the last flush of copyfile.              *)
SendEnd(w) ==
  /\ wr[w].pc = "copy" /\ call.op = "send" /\ ~ call.buffered /\ call.left = 0
  /\ ip' = [ip EXCEPT !.filepos = @ + Len(call.done)]
  /\ last' = call.done
  /\ call' = Idle
  /\ FlushStart(op, w, <<>>, <<>>, "done")
  /\ UNCHANGED <<kernel, pend, wall, goal, asked, lost, sent, log>>
-----------------------------------------------------------------------------
Init ==
  /\ use \in Scenarios
  /\ InitKernel
  /\ InitReader(use.in)
  /\ InitWriter(use.out, use.hook)

TypeOK == TypeOKKernel /\ TypeOKReader /\ TypeOKWriter

Uses(o) == o \in use.ops

Read ==
  \/ \E n \in use.sizes : Uses("token") /\ ReadToken(n, FALSE)
  \/ Uses("peek") /\ ReadToken(1, TRUE)
  \/ RgcFillBuffer \/ ReadTimeout \/ BglProcCall
  \/ \E n \in use.sizes : Uses("blit") /\ BlitStart(n)
  \/ BlitRead
  \/ \E n \in 1 .. MaxToken : Uses("unread") /\ UnreadString(n)
  \/ \E n \in 0 .. MaxToken : /\ Uses("barrier") /\ n >= Available(ip)
                              /\ InputPortFillbarrierSet(n)
  \/ \E on \in BOOLEAN : Uses("timeout") /\ BglInputPortTimeoutSet(on)
  \/ \E pos \in use.seeks : Uses("seek") /\ BglInputPortSeek(pos)
  \/ Uses("seek") /\ BglInputPortReopen
  \/ Uses("close") /\ BglCloseInputPort

(* A program that writes until an error, and not to a port being closed;   *)
(* the headers of a flush hook do not grow the log for ever (logs).        *)
Writing == /\ Uses("write") /\ ~ op.err /\ \A w \in Writers : wr[w].then # "close"
           /\ Len(log) <= use.logs

Put1(w) ==
  \/ \E n \in 1 .. 3 : Writing /\ BglWrite(w, n)
  \/ Writing /\ BglFlushOutputPort(w)
  \/ InvokeFlushHook(w) \/ Drain(w) \/ WriteFails(w) \/ FlushEnd(w)
  \/ Uses("wclose") /\ BglCloseOutputPort(w)
  \/ ConsoleReadFlush(w)

Send(w) ==
  \/ \E sz \in use.sends : Uses("send") /\ BglSendchars(w, sz)
  \/ SendBuffered(w) \/ GcSendfile(w) \/ Copyfile(w) \/ SendEnd(w)

Next ==
  \/ \E w \in use.writers : Send(w) /\ UNCHANGED use
  \/ Read /\ UNCHANGED <<writer, use>>
  \/ (\E w \in use.writers : Put1(w)) /\ UNCHANGED <<reader, use>>
  \/ BglResetOutputStringPort /\ UNCHANGED <<reader, use>>
  \/ (\E on \in BOOLEAN : Uses("wtimeout") /\ BglOutputPortTimeoutSet(on))
     /\ UNCHANGED <<reader, use>>

Spec == Init /\ [][Next]_vars

(* The input port, at the end of a pipe.                                   *)
Piped == use.in \in Queues

Length == IF ~ Piped THEN FileLen ELSE IF op.err THEN Len(log) ELSE sent

(* Where the bytes of the buffer end, for a memory-map port that has seen  *)
(* its end and then moved: its eof flag is never cleared, and no byte will *)
(* follow (cports.c:475).                                                  *)
Stuck == ip.kindof = "mmap" /\ ip.eof /\ goal # -1
Cut == IF ~ Stuck THEN -1
       ELSE ip.filepos + ip.bufpos - (IF call.op = "match" THEN ip.matchstart ELSE ip.matchstop)

Stream == INSTANCE ByteStream WITH
  MaxTake <- MaxToken + FileLen,
  at <- ip.filepos,
  total <- Length,
  ended <- IF Piped THEN ~ wend ELSE TRUE,
  cut <- Cut,
  stays <- ip.kindof \in {"string", "mmap"},
  aborts <- ip.timeout = "on" \/ call.op = "send"

(* An input port is a stream of bytes (ByteStream), whatever its kind: the *)
(* position that input-port-position tells, the bytes that reads return    *)
(* and the end of file agree, through refills, shifts and doublings of the *)
(* buffer in the middle of a token, peeks, unreads, read-chars past the    *)
(* buffer, fill barriers, timeouts, send-chars and seeks.  At the end of a *)
(* pipe, the stream is what the threads at the other end wrote, in their   *)
(* order.  Three cases are named in ByteStream: a timeout inside a token   *)
(* or a block loses the bytes of that call, and so does a send-chars that  *)
(* returns without moving the position (cports.c:2873); a seek of a string *)
(* or memory-map port to its very end does not move; and a memory-map port *)
(* that has seen its end gives no more than what is left in its buffer.    *)
IsStream == Stream!StreamSpec

(* Between two reads, char-ready? promises a read of one byte that does    *)
(* not wait, and a port that says it is at its end has no byte to come.    *)
(* The console is left out: bgl_console_read waits for a newline although  *)
(* select says that there are bytes; a memory-map port that was moved says *)
(* that it is at its end when its buffer is empty (Stuck).                 *)
AnswersKept ==
  call = Idle =>
    /\ BglRgcCharready(ip) /\ ip.kindof # "console" => ~ Blocks(ip)
    /\ RgcBufferEofP(ip) /\ ip.kindof # "closed" /\ ~ Stuck =>
         ip.filepos + Cardinality(lost) = Length

(* Both directions: every byte written arrives, and ports tell the truth.  *)
PortsSound == NoByteLost /\ AnswersKept
=============================================================================
