--------------------------------- MODULE Gst ---------------------------------
(***************************************************************************)
(* The gstreamer binding: signals, bus messages and pad probes             *)
(* (api/gstreamer/src/Clib/bglgst.c), and the two elements that read and   *)
(* write Bigloo ports (Plugin/bglgst_portsrc.c and bglgst_portsink.c).     *)
(***************************************************************************)
EXTENDS CallbackQueue

CONSTANTS
  Ports,       \* kinds of input ports of the program
  PortSize,    \* their bytes
  SyswriteMax, \* the bytes that one syswrite is asked for (32768)
  MaxCreates   \* bound: buffers that the source is asked for

VARIABLES
  useThreads,     \* bglgst_use_threads: the streaming threads are Bigloo threads
  src,         \* the source: its port, whether it opened it, filepos
  pushed,      \* the buffers it made: offset and bytes
  creates,     \* buffers that it may still be asked for
  sink,        \* the sink: its port, uri, autoclose, the ports that it closed, the
               \* bytes left to write, whether it is started and its last answer
  registered,  \* the ports that the collector sees (bglgst_register_port)
  rendered, written  \* since its start, bytes that the sink was given, and wrote

gstVars == <<useThreads, src, pushed, creates, sink, registered, rendered, written>>

NoPort == "none"

InitGst(t) ==
  /\ useThreads = t
  /\ src = [port |-> NoPort, opened |-> FALSE, filepos |-> 0]
  /\ sink = [port |-> NoPort, uri |-> FALSE, autoclose |-> FALSE, closed |-> {},
             left |-> <<>>, started |-> FALSE, flow |-> "ok"]
  /\ pushed = <<>> /\ creates = MaxCreates
  /\ registered = {} /\ rendered = <<>> /\ written = <<>>

-----------------------------------------------------------------------------
(* A signal with n values reaches closure_marshal in a streaming thread.   *)
(* With Bigloo threads the procedure is called there; otherwise the values *)
(* are copied into a callback.  Signals of more than four values are       *)
(* reported and forgotten.                                                 *)
ClosureMarshal(f, n) ==
  /\ lib = "gst"
  /\ IF n > 4
     THEN /\ events < MaxEvents /\ emitter[f] = Idle
          /\ events' = events + 1 /\ dropped' = dropped \cup {events + 1}
          /\ UNCHANGED <<lib, mutex, callbacks, length, service, emitter, got>>
     ELSE IF useThreads
     THEN /\ events < MaxEvents /\ emitter[f] = Idle
          /\ events' = events + 1
          /\ got' = Append(got, [n |-> events + 1, sent |-> n, heard |-> n])
          /\ UNCHANGED <<lib, mutex, callbacks, length, service, emitter, dropped>>
     ELSE Emit(f, [arity |-> n])
  /\ UNCHANGED gstVars

(* A message on the bus is dropped from it and goes through the array,     *)
(* whatever the threads are.                                               *)
BusSyncHandler(f) == lib = "gst" /\ Emit(f, [arity |-> 1]) /\ UNCHANGED gstVars

(* A signal that a procedure raises in the service thread.                 *)
NestedSignal == lib = "gst" /\ ~ useThreads /\ Nested([arity |-> 1]) /\ UNCHANGED gstVars

(* One switch for the arities 0 to 4.                                      *)
GstInvoke ==
  /\ lib = "gst"
  /\ Return([n |-> service.call.n, sent |-> service.call.data.arity,
             heard |-> IF service.call.data.arity \in 0 .. 4 THEN service.call.data.arity ELSE 0])
  /\ UNCHANGED gstVars

GstRaises == lib = "gst" /\ Raise /\ UNCHANGED gstVars

-----------------------------------------------------------------------------
(* bgl_gst_port_src_set_port, for the port property (opened = FALSE) and   *)
(* for the uri property, which opens the file.                             *)
SrcSetPort(p, opened) ==
  /\ lib = "gstsrc"
  /\ registered' = (registered \ {src.port}) \cup {p}
  /\ src' = [port |-> p, opened |-> opened, filepos |-> 0]
  /\ UNCHANGED <<useThreads, pushed, creates, sink, rendered, written>> /\ UNCHANGED queueVars

IsSeekable(p) == p \notin {"socket", "pipe"}

(* Mutant: the position of the port is trusted.                            *)
NeverSeeks(offset) == src.filepos

(* The position from which bgl_gst_port_src_create reads.                  *)
SeekTo(offset) ==
  IF src.filepos # offset /\ offset > 0 /\ IsSeekable(src.port) THEN offset ELSE src.filepos

(* bgl_gst_port_src_create: nothing without a port or for no bytes; the    *)
(* blit may be short, and at the end of the port it is the end of stream.  *)
SrcCreate(offset, len) ==
  /\ lib = "gstsrc" /\ src.port # NoPort /\ len > 0 /\ creates > 0
  /\ creates' = creates - 1
  /\ LET from == SeekTo(offset) IN
     /\ from <= PortSize
     /\ IF from = PortSize THEN src' = [src EXCEPT !.filepos = from] /\ UNCHANGED pushed
        ELSE \E n \in 1 .. (IF len < PortSize - from THEN len ELSE PortSize - from) :
               /\ src' = [src EXCEPT !.filepos = from + n]
               /\ pushed' = Append(pushed, [port |-> src.port, offset |-> offset, from |-> from,
                                            to |-> from + n])
  /\ UNCHANGED <<useThreads, sink, registered, rendered, written>> /\ UNCHANGED queueVars

SrcFinalize ==
  /\ lib = "gstsrc" /\ src.port # NoPort
  /\ registered' = registered \ {src.port}
  /\ src' = [src EXCEPT !.port = NoPort, !.opened = FALSE]
  /\ UNCHANGED <<useThreads, pushed, creates, sink, rendered, written>> /\ UNCHANGED queueVars

-----------------------------------------------------------------------------
(* bgl_gst_port_sink_set_property, before the start or at any time after:  *)
(* the rest of a buffer that is being rendered goes to the new port.       *)
SinkSetPort(p) ==
  /\ lib = "gstsink"
  /\ registered' = (registered \ {sink.port}) \cup {p}
  /\ sink' = [sink EXCEPT !.port = p]
  /\ UNCHANGED <<useThreads, src, pushed, creates, rendered, written>> /\ UNCHANGED queueVars

SinkSet(uri, close) ==
  /\ lib = "gstsink"
  /\ sink' = [sink EXCEPT !.uri = uri, !.autoclose = close]
  /\ UNCHANGED <<useThreads, src, pushed, creates, registered, rendered, written>>
  /\ UNCHANGED queueVars

(* A sink that has a port keeps it, closed or not; one without a port      *)
(* opens the file of its uri, and without a uri it does not start.  The    *)
(* account of the bytes begins again.                                      *)
SinkStart ==
  /\ lib = "gstsink" /\ ~ sink.started
  /\ sink.port # NoPort \/ sink.uri
  /\ LET port == IF sink.port # NoPort THEN sink.port ELSE "file" IN
     /\ sink' = [sink EXCEPT !.started = TRUE, !.flow = "ok", !.left = <<>>, !.port = port]
     /\ registered' = IF sink.port = NoPort THEN registered \cup {port} ELSE registered
  /\ rendered' = <<>> /\ written' = <<>>
  /\ UNCHANGED <<useThreads, src, pushed, creates>> /\ UNCHANGED queueVars

(* A buffer of n bytes comes to the render function, which answers that    *)
(* the stream is at its end when there are none.                           *)
SinkBuffer(n) ==
  /\ lib = "gstsink" /\ sink.started /\ sink.flow = "ok" /\ sink.left = <<>>
  /\ Len(rendered) + n <= 3
  /\ LET bytes == [i \in 1 .. n |-> Len(rendered) + i] IN
     /\ sink' = [sink EXCEPT !.left = bytes, !.flow = IF n = 0 THEN "eos" ELSE "ok"]
     /\ rendered' = rendered \o bytes
  /\ UNCHANGED <<useThreads, src, pushed, creates, registered, written>> /\ UNCHANGED queueVars

Rendering == lib = "gstsink" /\ sink.flow = "ok" /\ sink.left # <<>>

(* One turn of the loop of bgl_gst_port_sink_render: the port takes a part *)
(* of what is left.                                                        *)
SinkRender ==
  /\ Rendering /\ sink.port \notin sink.closed
  /\ \E n \in 1 .. (IF Len(sink.left) < SyswriteMax THEN Len(sink.left) ELSE SyswriteMax) :
       /\ written' = written \o SubSeq(sink.left, 1, n)
       /\ sink' = [sink EXCEPT !.left = SubSeq(@, n + 1, Len(@))]
  /\ UNCHANGED <<useThreads, src, pushed, creates, registered, rendered>> /\ UNCHANGED queueVars

(* The write fails, as it does on a closed port: the rest of the buffer is *)
(* not written, and the element answers an error.                          *)
SinkError ==
  /\ Rendering /\ sink' = [sink EXCEPT !.flow = "error"]
  /\ UNCHANGED <<useThreads, src, pushed, creates, registered, rendered, written>>
  /\ UNCHANGED queueVars

SinkStop ==
  /\ lib = "gstsink" /\ sink.started /\ ~ Rendering
  /\ registered' = registered \ {sink.port}
  /\ sink' = [sink EXCEPT !.started = FALSE, !.uri = FALSE,
                          !.closed = IF sink.autoclose \/ sink.uri THEN @ \cup {sink.port} ELSE @]
  /\ UNCHANGED <<useThreads, src, pushed, creates, rendered, written>> /\ UNCHANGED queueVars

-----------------------------------------------------------------------------
(* The port elements move the bytes of the ports.  A buffer that the       *)
(* source labels with an offset of a seekable port holds the bytes at that *)
(* offset; a buffer labelled 0 may not, for the source never seeks to 0    *)
(* (bglgst_portsrc.c: offset > 0).  What the sink has written, to the port *)
(* it had at each moment, is what it was given, each byte once and in      *)
(* order, but for the rest of the last buffer; and no rest is left when it *)
(* stops, unless a write failed.                                           *)
PortElements ==
  /\ \A i \in DOMAIN pushed :
       pushed[i].offset > 0 /\ IsSeekable(pushed[i].port) => pushed[i].from = pushed[i].offset
  /\ rendered = written \o sink.left
  /\ ~ sink.started /\ sink.flow # "error" => sink.left = <<>>
=============================================================================
