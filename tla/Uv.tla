--------------------------------- MODULE Uv ----------------------------------
(***************************************************************************)
(* The streams, datagram sockets, timers and other watchers of the libuv   *)
(* binding.  Streams and sockets share the data structure uv_stream_data,  *)
(* timers and idle watchers uv_watcher_data; the rest call the procedure   *)
(* that the Scheme object holds.                                           *)
(***************************************************************************)
EXTENDS UvRequest

CONSTANTS
  Streams, Sockets, Timers, Idles, Plains

VARIABLES
  handle,     \* libuv: what each handle is doing, and (bare, auxiliary) whether
              \* its data was released while libuv had still to call back for it
  want        \* auxiliary: the procedures that the program has given

Objects == Streams \cup Sockets \cup Timers \cup Idles \cup Plains
PoolOf(o) == IF o \in Streams \cup Sockets THEN "stream" ELSE "watcher"

InitHandles ==
  /\ handle = [o \in Objects |-> [active |-> FALSE, repeat |-> FALSE, listening |-> FALSE,
                                  closing |-> "no", bare |-> FALSE]]
  /\ want = [o \in Objects |-> [proc |-> None, close |-> None, listen |-> None]]
  /\ data = [o \in Objects |-> 0]

requests == <<lost, marks, shared, flight>>

(* get_stream_data and get_watcher_data: the cell of o, the pool and the   *)
(* data of the objects once o has one.                                     *)
Fresh(o) == [Blank EXCEPT !.obj = o, !.state = "LOCKED"]
CellOf(o) == IF data[o] = 0 THEN Taken(pool[PoolOf(o)]) ELSE data[o]
GetData(o) == IF data[o] = 0 THEN Alloc(pool[PoolOf(o)], Fresh(o)) ELSE pool[PoolOf(o)]

(* Mutant: the object keeps the data that was released.                    *)
FreeKeepsPointer(k, S, d, c) ==
  IF S.cell[c].obj = None THEN crash' = TRUE /\ UNCHANGED <<pool, data>>
  ELSE /\ pool' = [pool EXCEPT ![k] = Free(S, c)]
       /\ data' = d
       /\ UNCHANGED crash

(* free_stream_data and free_watcher_data: d is the data of the objects    *)
(* and S their pool; a cell that was released already has no object.       *)
FreeData(k, S, d, c) ==
  IF S.cell[c].obj = None THEN crash' = TRUE /\ UNCHANGED <<pool, data>>
  ELSE /\ pool' = [pool EXCEPT ![k] = Free(S, c)]
       /\ data' = [d EXCEPT ![S.cell[c].obj] = 0]
       /\ UNCHANGED crash

(* The pool of o with field changes of its cell, and the pointer set.      *)
SetData(o, content) ==
  /\ pool' = [pool EXCEPT ![PoolOf(o)] = [GetData(o) EXCEPT !.cell[CellOf(o)] = content]]
  /\ data' = [data EXCEPT ![o] = CellOf(o)]

Content(o) == GetData(o).cell[CellOf(o)]

Enters(o) == Calls /\ HasRoom(PoolOf(o))

-----------------------------------------------------------------------------
(* uv-read-start and uv-udp-recv-start; libuv refuses a handle that is     *)
(* closing or closed, and to read from a stream that listens.              *)
BglUvReadStart(o, p) ==
  /\ o \in Streams /\ Enters(o)
  /\ SetData(o, [Content(o) EXCEPT !.proc = p])
  /\ handle' = [handle EXCEPT ![o].active = handle[o].closing = "no" /\ ~ handle[o].listening]
  /\ want' = [want EXCEPT ![o].proc = p]
  /\ UNCHANGED <<frame, crash, requests>>

BglUvUdpRecvStart(o, p) ==
  /\ o \in Sockets /\ Enters(o)
  /\ SetData(o, [Content(o) EXCEPT !.proc = p])
  /\ handle' = [handle EXCEPT ![o].active = handle[o].closing = "no"]
  /\ want' = [want EXCEPT ![o].proc = p]
  /\ UNCHANGED <<frame, crash, requests>>

(* uv-read-stop releases the data, whatever the stream does.  A stream     *)
(* that listens, or that is closing, loses with it the procedure that is   *)
(* to be called; in its close procedure the data is released again later.  *)
Stop(o) ==
  /\ Enters(o)
  /\ FreeData(PoolOf(o), GetData(o), data, CellOf(o))
  /\ handle' = [handle EXCEPT ![o].active = FALSE,
                              ![o].bare = @ \/ handle[o].listening \/ handle[o].closing # "no"]
  /\ want' = [want EXCEPT ![o].proc = None]
  /\ UNCHANGED <<frame, requests>>

BglUvReadStop(o) == o \in Streams /\ Stop(o)
BglUvUdpRecvStop(o) == o \in Sockets /\ Stop(o)

(* uv-listen; the data is released when libuv refuses, and it refuses a    *)
(* stream that is read or closing.                                         *)
BglUvListen(o, p) ==
  /\ o \in Streams /\ Enters(o)
  /\ \/ /\ handle[o].closing = "no" /\ ~ handle[o].active
        /\ SetData(o, [Content(o) EXCEPT !.listen = p])
        /\ handle' = [handle EXCEPT ![o].listening = TRUE]
        /\ want' = [want EXCEPT ![o].listen = p]
        /\ UNCHANGED crash
     \/ /\ FreeData("stream", GetData(o), data, CellOf(o))
        /\ LET h == handle[o]
           IN handle' = [handle EXCEPT
                ![o].bare = @ \/ h.active \/ h.listening \/ h.closing # "no"]
        /\ UNCHANGED want
  /\ UNCHANGED <<frame, requests>>

(* uv-close of a stream, with or without a callback; libuv accepts one.    *)
BglUvStreamClose(o, p) ==
  /\ PoolOf(o) = "stream" /\ Enters(o) /\ handle[o].closing = "no"
  /\ SetData(o, [Content(o) EXCEPT !.proc = None, !.close = p])
  /\ handle' = [handle EXCEPT ![o] = [@ EXCEPT !.active = FALSE, !.listening = FALSE,
                                      !.closing = "asked"]]
  /\ want' = [want EXCEPT ![o] = [@ EXCEPT !.proc = None, !.close = p]]
  /\ UNCHANGED <<frame, crash, requests>>

-----------------------------------------------------------------------------
Start(o, cb, c, p, asked, prev) ==
  frame' = [cb |-> cb, obj |-> o, cell |-> c, proc |-> p, args |-> <<>>, asked |-> <<asked, <<>>>>,
            prev |-> prev]

Crash == crash' = TRUE /\ UNCHANGED <<pool, frame>>

(* bgl_uv_alloc_cb and bgl_uv_read_cb up to the procedure.                 *)
BglUvReadCb(o) ==
  /\ o \in Streams /\ InLoop /\ handle[o].active
  /\ LET c == data[o]
         d == pool["stream"].cell[c]
     IN IF c = 0 THEN Crash
        ELSE /\ IF d.proc # None /\ d.state # "CLOSING"
                THEN /\ Start(o, "read", c, d.proc, want[o].proc, d.state)
                     /\ pool' = [pool EXCEPT !["stream"].cell[c].state = "READING"]
                ELSE UNCHANGED <<pool, frame>>
             /\ UNCHANGED crash
  /\ UNCHANGED <<data, handle, want, left, requests>>

(* The rest of bgl_uv_read_cb.                                             *)
ReadReturn ==
  /\ Running("read") /\ frame' = NoFrame
  /\ LET c == frame.cell
         d == pool["stream"].cell[c]
     IN CASE d.state = "CLOSING" -> FreeData("stream", pool["stream"], data, c)
          [] d.state = "FREE" -> UNCHANGED <<pool, data, crash>>
          [] OTHER -> /\ pool' = [pool EXCEPT !["stream"].cell[c].state = frame.prev]
                      /\ UNCHANGED <<data, crash>>
  /\ UNCHANGED <<handle, want, left, requests>>

(* uv_listen_cb and bgl_uv_udp_recv_cb: the procedure in field f of the    *)
(* data of o is called, if there is one.                                   *)
CallBack(cb, o, f) ==
  /\ InLoop
  /\ LET p == pool["stream"].cell[data[o]][f] IN
     IF data[o] = 0 THEN Crash
     ELSE /\ IF p # None THEN Start(o, cb, data[o], p, want[o][f], "") ELSE UNCHANGED frame
          /\ UNCHANGED <<pool, crash>>
  /\ UNCHANGED <<data, handle, want, left, requests>>

BglUvUdpRecvCb(o) ==
  o \in Sockets /\ handle[o].active /\ CallBack("recv", o, "proc")

UvListenCb(o) ==
  o \in Streams /\ handle[o].listening /\ CallBack("listen", o, "listen")

(* Mutant: the data is released before the close procedure is taken.       *)
CloseFreesFirst(o) ==
  /\ PoolOf(o) = "stream" /\ InLoop /\ handle[o].closing = "asked"
  /\ handle' = [handle EXCEPT ![o].closing = "done"]
  /\ IF data[o] # 0 THEN FreeData("stream", pool["stream"], data, data[o])
     ELSE UNCHANGED <<pool, data, crash>>
  /\ UNCHANGED <<frame, want, left, requests>>

(* bgl_uv_stream_close_cb: the procedure is called, or there is none and   *)
(* the data is released.  A stream that is not LOCKED turns CLOSING.       *)
BglUvStreamCloseCb(o) ==
  /\ PoolOf(o) = "stream" /\ InLoop /\ handle[o].closing = "asked"
  /\ handle' = [handle EXCEPT ![o].closing = "done"]
  /\ LET c == data[o]
         d == pool["stream"].cell[c]
     IN IF c = 0 THEN UNCHANGED <<pool, data, frame, crash>>
        ELSE IF d.close = None
        THEN FreeData("stream", pool["stream"], data, c) /\ UNCHANGED frame
        ELSE /\ Start(o, "close", c, d.close, want[o].close, d.state)
             /\ pool' = IF d.state = "LOCKED" THEN pool
                        ELSE [pool EXCEPT !["stream"].cell[c].state = "CLOSING"]
             /\ UNCHANGED <<data, crash>>
  /\ UNCHANGED <<want, left, requests>>

(* The data is released; when the procedure has stopped the stream, the    *)
(* cell has no object any more, or is that of another one.                 *)
CloseReturn ==
  /\ Running("close") /\ frame' = NoFrame
  /\ LET d == pool["stream"].cell[frame.cell] IN
     IF frame.prev = "LOCKED" \/ d.state # "FREE"
     THEN /\ FreeData("stream", pool["stream"], data, frame.cell)
          /\ handle' = IF d.obj \in Objects \ {frame.obj}
                       THEN [handle EXCEPT ![d.obj].bare = TRUE] ELSE handle
     ELSE UNCHANGED <<pool, data, crash, handle>>
  /\ UNCHANGED <<want, left, requests>>

-----------------------------------------------------------------------------
(* Timers: a repeat of zero makes it fire once.                            *)
BglUvTimerStart(o, p, repeat) ==
  /\ o \in Timers /\ Enters(o)
  /\ SetData(o, [Content(o) EXCEPT !.proc = p])
  /\ handle' = [handle EXCEPT ![o] = [@ EXCEPT !.active = TRUE, !.repeat = repeat]]
  /\ want' = [want EXCEPT ![o].proc = p]
  /\ UNCHANGED <<frame, crash, requests>>

BglUvTimerStop(o) ==
  /\ o \in Timers /\ Enters(o)
  /\ FreeData("watcher", GetData(o), data, CellOf(o))
  /\ handle' = [handle EXCEPT ![o].active = FALSE]
  /\ UNCHANGED <<frame, want, requests>>

(* The data of a timer that fires once is released before the procedure    *)
(* runs, which may start the timer again.                                  *)
BglUvTimerCb(o) ==
  /\ o \in Timers /\ InLoop /\ handle[o].active
  /\ handle' = [handle EXCEPT ![o].active = handle[o].repeat]
  /\ LET c == data[o] IN
     IF c = 0 THEN UNCHANGED <<pool, data, frame, crash>>
     ELSE /\ Start(o, "timer", c, pool["watcher"].cell[c].proc, want[o].proc, "")
          /\ IF handle[o].repeat THEN UNCHANGED <<pool, data, crash>>
             ELSE FreeData("watcher", pool["watcher"], data, c)
  /\ UNCHANGED <<want, left, requests>>

BglUvIdleStart(o, p) ==
  /\ o \in Idles /\ Enters(o)
  /\ SetData(o, [Content(o) EXCEPT !.proc = p])
  /\ handle' = [handle EXCEPT ![o].active = TRUE]
  /\ want' = [want EXCEPT ![o].proc = p]
  /\ UNCHANGED <<frame, crash, requests>>

BglUvIdleStop(o) ==
  /\ o \in Idles /\ Enters(o)
  /\ FreeData("watcher", GetData(o), data, CellOf(o))
  /\ handle' = [handle EXCEPT ![o].active = FALSE]
  /\ UNCHANGED <<frame, want, requests>>

BglUvIdleCb(o) ==
  /\ o \in Idles /\ InLoop /\ handle[o].active
  /\ LET c == data[o] IN
     IF c = 0 THEN Crash
     ELSE Start(o, "idle", c, pool["watcher"].cell[c].proc, want[o].proc, "") /\ UNCHANGED <<pool, crash>>
  /\ UNCHANGED <<data, handle, want, left, requests>>

(* The other watchers: check, async, poll, fs-poll, fs-event and process.  *)
(* They are started and stopped in Scheme; libuv calls the procedure of    *)
(* the object.                                                             *)
PlainStart(o, p) ==
  /\ o \in Plains /\ Enters(o) /\ handle[o].closing = "no"
  /\ handle' = [handle EXCEPT ![o].active = TRUE]
  /\ want' = [want EXCEPT ![o].proc = p]
  /\ UNCHANGED <<pool, data, frame, crash, requests>>

BglUvHandleCb(o) ==
  /\ o \in Plains /\ InLoop /\ handle[o].active
  /\ Start(o, "plain", 0, want[o].proc, want[o].proc, "")
  /\ UNCHANGED <<pool, data, crash, handle, want, left, requests>>
BglUvFsEventCb(o) == BglUvHandleCb(o)
BglUvFsPollCb(o) == BglUvHandleCb(o)
BglUvPollCb(o) == BglUvHandleCb(o)
BglUvAsyncCb(o) == BglUvHandleCb(o)
ProcessExitCb(o) == BglUvHandleCb(o)

(* uv-close of a watcher leaves its procedure in %onclose, which           *)
(* bgl_uv_close_cb calls.                                                  *)
UvClose(o, p) ==
  /\ o \in Plains /\ Calls /\ handle[o].closing = "no"
  /\ handle' = [handle EXCEPT ![o] = [@ EXCEPT !.active = FALSE, !.closing = "asked"]]
  /\ want' = [want EXCEPT ![o].close = p]
  /\ UNCHANGED <<pool, data, frame, crash, requests>>

BglUvCloseCb(o) ==
  /\ o \in Plains /\ InLoop /\ handle[o].closing = "asked"
  /\ handle' = [handle EXCEPT ![o].closing = "done"]
  /\ IF want[o].close # None THEN Start(o, "closed", 0, want[o].close, want[o].close, "")
     ELSE UNCHANGED frame
  /\ UNCHANGED <<pool, data, crash, want, left, requests>>

PlainReturn ==
  /\ frame.cb \in {"recv", "listen", "timer", "idle", "plain", "closed"}
  /\ frame' = NoFrame
  /\ UNCHANGED <<pool, data, crash, handle, want, left, requests>>

(* A procedure raises: the rest of the callback does not run.              *)
HandleRaises ==
  /\ frame.cb \in {"read", "close"} /\ frame' = NoFrame
  /\ UNCHANGED <<pool, data, crash, handle, want, left, requests>>

-----------------------------------------------------------------------------
(***************************************************************************)
(* The libuv binding: the loop, and a program that calls its operations    *)
(* from outside and from the procedures that the loop calls back.          *)
(***************************************************************************)
CONSTANT Ops   \* the groups of operations that the program uses

(* ROOTS_INCREMENT is positive, and an object is a stream or a socket, a   *)
(* timer or an idle watcher, or one of the other watchers.                 *)
UvConstants ==
  /\ Increment \in Nat \ {0} /\ MaxCells \in Nat
  /\ None \notin Objects
  /\ (Streams \cup Sockets) \cap (Timers \cup Idles \cup Plains) = {}
  /\ (Timers \cup Idles) \cap Plains = {}

VARIABLE ops   \* the group of this run

uvVars == <<pool, data, lost, marks, shared, flight, frame, crash, left, handle, want, ops>>

UvInit == InitPools /\ InitHandles /\ ops \in Ops

RequestOp(p) ==
  \/ "fs" \in ops /\ \/ \E op \in Wrapped : BglUvFsWrapper(op, p)
                     \/ BglUvFsOpen(p) \/ BglUvFsOpen4(p) \/ BglUvFsClose2(p)
                     \/ BglUvFsWrite(p) \/ BglUvFsWrite2(p) \/ BglUvFsWrite3(p)
                     \/ BglUvFsRead(p) \/ BglUvFsRead2(p) \/ BglUvFsRead3(p)
  \/ "stat" \in ops /\ (BglUvFsFstat(p) \/ BglUvFsLstat(p) \/ BglUvFsStat(p))
  \/ "net" \in ops /\ \/ BglUvFsReadlink(p) \/ BglUvGetaddrinfo(p) \/ BglUvTcpConnectX(p)
                      \/ BglUvPipeConnect(p) \/ BglUvUdpSend(p)
  \/ "write" \in ops /\ \/ BglUvShutdown(p)
                        \/ \E n \in {0, 5, 6} : BglUvWrite(p, n) \/ BglUvWrite2(p, n)

RequestCb(f) ==
  \/ BglUvFsCb(f) \/ BglUvFsRwCb(f) \/ BglUvFsOpenCb(f) \/ BglUvFsOpen4Cb(f)
  \/ BglUvFsFstatVecCb(f) \/ BglUvFsFstatCb(f) \/ BglUvFsReadlinkCb(f) \/ BglUvGetaddrinfoCb(f)
  \/ BglConnectCb(f) \/ BglUvUdpSendCb(f) \/ BglUvShutdownCb(f) \/ BglUvWriteCb(f)

StreamOp(o, p) ==
  \/ BglUvReadStart(o, p) \/ BglUvReadStop(o) \/ BglUvListen(o, p)
  \/ BglUvStreamClose(o, p) \/ BglUvStreamClose(o, None)
  \/ BglUvUdpRecvStart(o, p) \/ BglUvUdpRecvStop(o)

WatcherOp(o, p) ==
  \/ \E repeat \in BOOLEAN : BglUvTimerStart(o, p, repeat)
  \/ BglUvTimerStop(o) \/ BglUvIdleStart(o, p) \/ BglUvIdleStop(o)
  \/ PlainStart(o, p) \/ UvClose(o, p) \/ UvClose(o, None)

HandleCb(o) ==
  \/ BglUvReadCb(o) \/ BglUvUdpRecvCb(o) \/ UvListenCb(o) \/ BglUvStreamCloseCb(o)
  \/ BglUvTimerCb(o) \/ BglUvIdleCb(o) \/ BglUvCloseCb(o)
  \/ BglUvHandleCb(o) \/ BglUvFsEventCb(o) \/ BglUvFsPollCb(o) \/ BglUvPollCb(o)
  \/ BglUvAsyncCb(o) \/ ProcessExitCb(o)

Program ==
  \E p \in Procs : \/ RequestOp(p) /\ UNCHANGED <<handle, want>>
                   \/ "stream" \in ops /\ \E o \in Streams \cup Sockets : StreamOp(o, p)
                   \/ "watcher" \in ops /\ \E o \in Objects \ (Streams \cup Sockets) : WatcherOp(o, p)

Loop ==
  \/ (\E f \in flight : RequestCb(f)) /\ UNCHANGED <<handle, want>>
  \/ \E o \in Objects : HandleCb(o)

Returns ==
  \/ FreeRequest /\ UNCHANGED <<handle, want>>
  \/ ReadReturn \/ CloseReturn \/ PlainReturn

Raises == \/ RequestRaises /\ UNCHANGED <<handle, want>>
          \/ HandleRaises

UvNext == (Program \/ Loop \/ Returns \/ Raises) /\ UNCHANGED ops

Closes == (\E o \in Objects : BglUvStreamCloseCb(o) \/ BglUvCloseCb(o)) /\ UNCHANGED ops

(* The loop goes on, procedures return, and handles that are closing are   *)
(* served among the others (there are finitely many).                      *)
UvSpec == /\ UvInit /\ [][UvNext]_uvVars
          /\ WF_uvVars(Loop /\ UNCHANGED ops) /\ WF_uvVars(Returns /\ UNCHANGED ops)
          /\ SF_uvVars(Closes)

-----------------------------------------------------------------------------
UvTypeOK ==
  /\ \A k \in Pools : pool[k].idle \in Seq(Cells) /\ pool[k].size \in 0 .. MaxCells
  /\ data \in [Objects -> 0 .. MaxCells]
  /\ crash \in BOOLEAN

(* The cells of each pool that are in use: by a request that libuv has, by *)
(* the callback in progress, or by an object.                              *)
Used(k) ==
  {f.cell : f \in {g \in flight : g.pool = k}}
    \cup (IF frame.cb \in RequestCallbacks /\ frame.pool = k THEN {frame.cell} \ {0} ELSE {})
    \cup ({data[o] : o \in {x \in Objects : PoolOf(x) = k}} \ {0})

(* Every cell of a pool is free, in use or forgotten, and one of these     *)
(* only: nothing is released twice, whatever the procedures call and       *)
(* raise, and a request is forgotten only when a procedure raises or libuv *)
(* refuses a read, a write or a stat.                                      *)
PoolSound ==
  \A k \in Pools :
    LET idle == Range(pool[k].idle) IN
    /\ Cardinality(idle) = Len(pool[k].idle)
    /\ idle \cup Used(k) \cup lost[k] = 1 .. pool[k].size
    /\ idle \cap (Used(k) \cup lost[k]) = {} /\ Used(k) \cap lost[k] = {}

(* The assertions of assert_stream_data: an object and its data point to   *)
(* each other, and the data is not free.  A callback follows a pointer     *)
(* that was reset only when uv-read-stop, or a uv-listen that fails, was   *)
(* called on a stream while libuv had to call back for it.                 *)
DataSound ==
  /\ crash => \E o \in Objects : handle[o].bare
  /\ \A o \in Objects : data[o] # 0 =>
       LET d == pool[PoolOf(o)].cell[data[o]] IN d.obj = o /\ d.state # "FREE"

(* Cells of the pools are free, in use or forgotten, and handles and their *)
(* data point to each other.                                               *)
PoolsSound == UvTypeOK /\ PoolSound /\ DataSound

(* A callback calls the procedure, with the arguments, that the program    *)
(* gave for this request or this handle.                                   *)
CalledOwn == frame # NoFrame => <<frame.proc, frame.args>> = frame.asked

(* The procedure of a request that libuv has allocated by malloc is marked *)
(* as long as the request is pending, so that the collector keeps it,      *)
(* provided that it was not given to two such requests at a time.          *)
MarksKeep ==
  \A f \in flight : f.pool = "heap" /\ f.proc \notin shared => f.proc \in marks

(* A handle that is closed is reported closed in the end, and never        *)
(* without a call of the procedure that was given to uv-close for it,      *)
(* unless a stop or a failed listen has released its data in the meantime, *)
(* with the procedure; nothing is called after a null pointer.             *)
Closed(o) == handle[o].closing = "asked" /\ handle'[o].closing # "asked"
ToldClosed ==
  \A o \in Objects : Closed(o) /\ want[o].close # None /\ ~ handle[o].bare
                      => frame'.cb \in {"close", "closed"} /\ frame'.obj = o
AllClosed == \A o \in Objects : handle[o].closing # "asked"
CloseIsTold == [][ToldClosed]_uvVars /\ []<>(AllClosed \/ crash)
=============================================================================
