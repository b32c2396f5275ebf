------------------------------ MODULE UvRequest ------------------------------
(***************************************************************************)
(* What the libuv binding (api/libuv/src/Clib/bgluv.c) shares: the pools   *)
(* of requests and of the data of streams and watchers, the list that      *)
(* keeps procedures from the collector, and the C callback that is running *)
(* a procedure of the program; and the requests: file operations, writes,  *)
(* shutdowns, connections, name resolutions and datagrams.  Calls without  *)
(* a callback use a request on the C stack and leave no trace.  The loop   *)
(* is one thread; what makes it hard is that a procedure calls any other   *)
(* operation, or raises.                                                   *)
(***************************************************************************)
EXTENDS Naturals, Sequences, Functions, FiniteSets

CONSTANTS
  Procs,      \* procedures of the program
  None,
  Increment,  \* ROOTS_INCREMENT
  MaxCells,   \* bound: the size of a pool
  MaxCalls    \* bound: operations that the program calls

VARIABLES
  pool,       \* the pools, heap standing for malloc
  data,       \* the data of each stream and watcher: a cell of its pool or 0
  lost,       \* auxiliary: the cells that nobody will free
  marks,      \* GC_marks, as a set: bgl_remq_bang takes every occurrence away
  shared,     \* auxiliary: procedures that were marked twice at a time
  flight,     \* the requests that libuv has
  frame,      \* the C callback in progress
  crash,      \* a null pointer was followed
  left        \* operations that the program may still call

Pools == {"fs", "write", "shutdown", "heap", "stream", "watcher"}
Cells == 1 .. MaxCells

(* A cell with nothing in it; the fields are those of all the structures.  *)
Blank == [obj |-> None, proc |-> None, args |-> <<>>, close |-> None, listen |-> None,
          state |-> "FREE"]

NoFrame == [cb |-> "none"]
Running(cb) == frame.cb = cb
InLoop == frame = NoFrame /\ ~ crash

InitPools ==
  /\ pool = [k \in Pools |-> [idle |-> <<>>, size |-> 0, cell |-> [c \in Cells |-> Blank]]]
  /\ lost = [k \in Pools |-> {}]
  /\ marks = {} /\ shared = {} /\ flight = {}
  /\ frame = NoFrame /\ crash = FALSE /\ left = MaxCalls

(* Mutant: the new cells are numbered from the old size.                   *)
ExtendFromSize(S) ==
  LET size == IF S.size = 0 THEN Increment ELSE 2 * S.size
  IN IF S.idle # <<>> THEN S
     ELSE [S EXCEPT !.size = size, !.idle = [i \in 1 .. size - S.size |-> S.size + i - 1]]

(* UV_EXTEND_POOL, when the pool is used up.                               *)
UvExtendPool(S) ==
  LET size == IF S.size = 0 THEN Increment ELSE 2 * S.size
  IN IF S.idle # <<>> THEN S
     ELSE [S EXCEPT !.size = size, !.idle = [i \in 1 .. size - S.size |-> S.size + i]]

HasRoom(k) == UvExtendPool(pool[k]).size <= MaxCells

(* The cell that an allocation takes, and the pool after it.               *)
Taken(S) == Head(UvExtendPool(S).idle)
Alloc(S, content) ==
  [UvExtendPool(S) EXCEPT !.idle = Tail(@), !.cell[Taken(S)] = content]

Free(S, c) == [S EXCEPT !.idle = <<c>> \o @, !.cell[c] = Blank]

GcMark(list, p) == list \cup {p}

(* Mutant: the others are taken away.                                      *)
UnmarkOthers(list, p) == list \cap {p}

GcUnmark(list, p) == list \ {p}

(* A new operation of the program, from the outside of the loop or from a  *)
(* procedure that the loop calls.                                          *)
Calls == left > 0 /\ ~ crash /\ left' = left - 1
-----------------------------------------------------------------------------
others == <<data, frame, crash>>

(* An operation takes a request of pool k for callback cb, gives it the    *)
(* procedure and its arguments, and hands it to libuv, which may refuse    *)
(* it: refused says what the operation then does with the request.  The    *)
(* procedure is marked before the call, after it if it succeeds, or never. *)
Request(k, cb, p, n, mark, refused) ==
  /\ Calls /\ HasRoom(k)
  /\ LET c == Taken(pool[k])
         args == [i \in 1 .. n |-> <<p, i>>]
         filled == Alloc(pool[k], [Blank EXCEPT !.proc = p, !.args = args])
         Mark == /\ marks' = GcMark(marks, p)
                 /\ shared' = IF p \in marks THEN shared \cup {p} ELSE shared
     IN \/ /\ flight' = flight \cup {[pool |-> k, cell |-> c, cb |-> cb, proc |-> p, args |-> args]}
           /\ pool' = [pool EXCEPT ![k] = filled]
           /\ IF mark # "never" THEN Mark ELSE UNCHANGED <<marks, shared>>
           /\ UNCHANGED lost
        \/ /\ refused # "never"
           /\ IF refused = "free"
              THEN pool' = [pool EXCEPT ![k] = Free(filled, c)] /\ UNCHANGED lost
              ELSE /\ pool' = [pool EXCEPT ![k] = filled]
                   /\ lost' = [lost EXCEPT ![k] = @ \cup {c}]
           /\ IF mark = "before" THEN Mark ELSE UNCHANGED <<marks, shared>>
           /\ UNCHANGED flight
  /\ UNCHANGED others

(* The operations that the macros BGL_UV_FS_WRAPPER0, 1 and 2 make.        *)
Attributes == {"rename", "ftruncate", "fchown", "chown", "fchmod", "chmod"}
Links == {"link", "symlink"}
Directories == {"unlink", "rmdir", "mkdir", "fsync", "fdatasync", "futime", "utime"}
Wrapped == Attributes \cup Links \cup Directories \cup {"close", "copyfile"}
BglUvFsWrapper(op, p) == op \in Wrapped /\ Request("fs", "fs", p, 0, "never", "free")

BglUvFsOpen(p) == Request("fs", "open", p, 0, "never", "free")
BglUvFsOpen4(p) == Request("fs", "open4", p, 4, "never", "free")
BglUvFsClose2(p) == Request("fs", "rw2", p, 2, "never", "free")

(* A write that libuv refuses keeps its request.                           *)
BglUvFsWrite(p) == Request("fs", "rw", p, 0, "never", "keep")
BglUvFsWrite2(p) == Request("fs", "rw2", p, 2, "never", "keep")
BglUvFsWrite3(p) == Request("fs", "rw3", p, 3, "never", "keep")

(* So does a read, unless the error is -1.                                 *)
BglUvFsRead(p) == \E refused \in {"free", "keep"} : Request("fs", "rw", p, 0, "never", refused)
BglUvFsRead2(p) == \E refused \in {"free", "keep"} : Request("fs", "rw2", p, 2, "never", refused)
BglUvFsRead3(p) == \E refused \in {"free", "keep"} : Request("fs", "rw3", p, 3, "never", refused)

(* fstat, lstat and stat with a procedure of two arguments (and the vector *)
(* to fill) or of one.                                                     *)
BglUvFsFstat(p) == \/ Request("fs", "fstat_vec", p, 1, "never", "keep")
                   \/ Request("heap", "fstat", p, 0, "before", "keep")
BglUvFsLstat(p) == BglUvFsFstat(p)
BglUvFsStat(p) == BglUvFsFstat(p)

BglUvFsReadlink(p) == Request("heap", "readlink", p, 0, "before", "keep")
BglUvGetaddrinfo(p) == Request("heap", "getaddrinfo", p, 0, "after", "free")
BglUvTcpConnectX(p) == Request("heap", "connect", p, 0, "before", "free")
BglUvPipeConnect(p) == Request("heap", "connect", p, 0, "before", "never")
BglUvUdpSend(p) == Request("heap", "udp_send", p, 0, "before", "free")
BglUvShutdown(p) == Request("shutdown", "shutdown", p, 1, "never", "free")

(* uv-stream-write and its variant that sends a handle; the arity of the   *)
(* procedure is not looked at before the callback.                         *)
BglUvWrite(p, n) == Request("write", "write", p, n, "never", "free")
BglUvWrite2(p, n) == BglUvWrite(p, n)

-----------------------------------------------------------------------------
(* libuv calls back request f: the procedure runs, and the request is      *)
(* released before it or after it.                                         *)
Call(f, unmark, freed) ==
  /\ InLoop /\ f \in flight
  /\ flight' = flight \ {f}
  /\ LET d == pool[f.pool].cell[f.cell]
     IN frame' = [cb |-> f.cb, pool |-> f.pool, cell |-> IF freed = "before" THEN 0 ELSE f.cell,
                  proc |-> d.proc, args |-> d.args, asked |-> <<f.proc, f.args>>]
  /\ pool' = IF freed = "before" THEN [pool EXCEPT ![f.pool] = Free(@, f.cell)] ELSE pool
  /\ marks' = IF unmark THEN GcUnmark(marks, pool[f.pool].cell[f.cell].proc) ELSE marks
  /\ UNCHANGED <<data, lost, shared, crash, left>>

(* Mutant: the request goes back to its pool and is then read.             *)
FreeThenRead(f) ==
  /\ f.cb \in {"rw", "rw2", "rw3"} /\ InLoop
  /\ flight' = flight \ {f}
  /\ frame' = [cb |-> f.cb, pool |-> f.pool, cell |-> 0, proc |-> None, args |-> <<>>,
               asked |-> <<f.proc, f.args>>]
  /\ pool' = [pool EXCEPT ![f.pool] = Free(@, f.cell)]
  /\ UNCHANGED <<data, lost, marks, shared, crash, left>>

BglUvFsCb(f) == f.cb = "fs" /\ Call(f, FALSE, "after")
BglUvFsRwCb(f) == f.cb \in {"rw", "rw2", "rw3"} /\ Call(f, FALSE, "after")
BglUvFsOpenCb(f) == f.cb = "open" /\ Call(f, FALSE, "after")
BglUvFsOpen4Cb(f) == f.cb = "open4" /\ Call(f, FALSE, "after")
BglUvFsFstatVecCb(f) == f.cb = "fstat_vec" /\ Call(f, FALSE, "after")
BglUvFsFstatCb(f) == f.cb = "fstat" /\ Call(f, TRUE, "after")
BglUvFsReadlinkCb(f) == f.cb = "readlink" /\ Call(f, TRUE, "after")
BglUvGetaddrinfoCb(f) == f.cb = "getaddrinfo" /\ Call(f, TRUE, "before")
BglConnectCb(f) == f.cb = "connect" /\ Call(f, TRUE, "before")
BglUvUdpSendCb(f) == f.cb = "udp_send" /\ Call(f, TRUE, "after")
BglUvShutdownCb(f) == f.cb = "shutdown" /\ Call(f, FALSE, "after")

(* A procedure of the wrong arity makes the callback of a write raise; the *)
(* others get the first of the five arguments.                             *)
BglUvWriteCb(f) ==
  /\ f.cb = "write"
  /\ IF Len(f.args) <= 5 THEN Call(f, FALSE, "after")
     ELSE /\ InLoop /\ flight' = flight \ {f}
          /\ lost' = [lost EXCEPT !["write"] = @ \cup {f.cell}]
          /\ UNCHANGED <<pool, data, marks, shared, frame, crash, left>>

(* Mutant: a request is released twice.                                    *)
FreeTwice ==
  /\ frame.cb \in {"open", "open4"}
  /\ frame' = NoFrame
  /\ pool' = [pool EXCEPT !["fs"] = Free(Free(@, frame.cell), frame.cell)]
  /\ UNCHANGED <<data, lost, marks, shared, flight, crash, left>>

RequestCallbacks == {"fs", "rw", "rw2", "rw3", "open", "open4", "fstat_vec", "fstat", "readlink",
                     "getaddrinfo", "connect", "udp_send", "shutdown", "write"}

(* free_uv_fs, free_uv_write, free_uv_shutdown or free, when the procedure *)
(* returns.                                                                *)
FreeRequest ==
  /\ frame.cb \in RequestCallbacks
  /\ frame' = NoFrame
  /\ pool' = IF frame.cell # 0 THEN [pool EXCEPT ![frame.pool] = Free(@, frame.cell)] ELSE pool
  /\ UNCHANGED <<data, lost, marks, shared, flight, crash, left>>

(* The procedure raises: the rest of the callback does not run.            *)
RequestRaises ==
  /\ frame.cb \in RequestCallbacks
  /\ frame' = NoFrame
  /\ lost' = IF frame.cell # 0 THEN [lost EXCEPT ![frame.pool] = @ \cup {frame.cell}] ELSE lost
  /\ UNCHANGED <<pool, data, marks, shared, flight, crash, left>>
=============================================================================
