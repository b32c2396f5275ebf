------------------------------ MODULE UvProofs -------------------------------
(***************************************************************************)
(* The pools, the callbacks and the marks of the libuv binding (Uv) are    *)
(* right for any number of objects, procedures, cells and calls.           *)
(***************************************************************************)
EXTENDS Uv, FiniteSetTheorems, TLAPS

RequestPools == {"fs", "write", "shutdown", "heap"}
HandlePools  == {"stream", "watcher"}

(* The callbacks of the requests of a pool.                                *)
CallbacksOf(k) ==
  CASE k = "fs"       -> {"fs", "rw", "rw2", "rw3", "open", "open4", "fstat_vec"}
    [] k = "write"    -> {"write"}
    [] k = "shutdown" -> {"shutdown"}
    [] OTHER          -> {"fstat", "readlink", "getaddrinfo", "connect", "udp_send"}

-----------------------------------------------------------------------------
(* One pool.                                                               *)
Given    == Procs \cup {None}
States   == {"FREE", "LOCKED", "READING", "CLOSING"}
Args     == Seq(Procs \X Nat)
CellType == [obj : Objects \cup {None}, proc : Given, args : Args, close : Given,
             listen : Given, state : States]
PoolType == [idle : Seq(Cells), size : 0 .. MaxCells, cell : [Cells -> CellType]]

(* A pool whose free list names cells of its own, each one once.           *)
WellFormed(S) ==
  /\ S \in PoolType
  /\ Range(S.idle) \subseteq 1 .. S.size
  /\ \A i, j \in DOMAIN S.idle : S.idle[i] = S.idle[j] => i = j

(* The cells that are not free.                                            *)
Busy(S) == (1 .. S.size) \ Range(S.idle)

-----------------------------------------------------------------------------
(* The inductive invariant.                                                *)
RequestType == [pool : RequestPools, cell : Cells, cb : RequestCallbacks, proc : Given,
                args : Args]
RequestFrame == [cb : RequestCallbacks, pool : RequestPools, cell : 0 .. MaxCells,
                 proc : Given, args : Args, asked : Given \X Args]
HandleFrame == [cb : {"read", "recv", "listen", "close", "timer", "idle", "plain", "closed"},
                obj : Objects, cell : 0 .. MaxCells, proc : Given, args : Args,
                asked : Given \X Args, prev : States \cup {""}]

HandleType == [active : BOOLEAN, repeat : BOOLEAN, listening : BOOLEAN,
               closing : {"no", "asked", "done"}, bare : BOOLEAN]
WantType == [proc : Given, close : Given, listen : Given]

Types ==
  /\ pool \in [Pools -> PoolType]
  /\ data \in [Objects -> 0 .. MaxCells]
  /\ lost \in [Pools -> SUBSET Cells]
  /\ marks \subseteq Given
  /\ shared \subseteq Given
  /\ flight \subseteq RequestType
  /\ frame \in {NoFrame} \cup RequestFrame \cup HandleFrame
  /\ crash \in BOOLEAN
  /\ handle \in [Objects -> HandleType]
  /\ want \in [Objects -> WantType]

(* The cell that the callback of a request will give back.                 *)
InFrame(k) ==
  IF frame.cb \in RequestCallbacks THEN IF frame.pool = k THEN {frame.cell} \ {0} ELSE {}
  ELSE {}
InFlight(k) == {f.cell : f \in {g \in flight : g.pool = k}}

(* A busy cell belongs to one request that libuv has, to the callback in   *)
(* progress, or to nobody any more, and a pending request is what the      *)
(* program asked for.                                                      *)
RequestsInv(k) ==
  /\ WellFormed(pool[k])
  /\ Busy(pool[k]) = InFlight(k) \cup InFrame(k) \cup lost[k]
  /\ lost[k] \cap (InFlight(k) \cup InFrame(k)) = {}
  /\ InFlight(k) \cap InFrame(k) = {}
  /\ \A f \in flight : f.pool = k =>
       /\ f.cb \in CallbacksOf(k)
       /\ pool[k].cell[f.cell].proc = f.proc /\ pool[k].cell[f.cell].args = f.args
       /\ \A g \in flight : g.pool = k /\ g.cell = f.cell => g = f

(* A busy cell is the data of one object.                                  *)
CellsInv(k) ==
  /\ WellFormed(pool[k])
  /\ lost[k] = {}
  /\ \A c \in Busy(pool[k]) :
       LET d == pool[k].cell[c]
       IN d.obj \in Objects /\ PoolOf(d.obj) = k /\ data[d.obj] = c /\ d.state # "FREE"
  /\ \A c \in Cells \ Busy(pool[k]) : pool[k].cell[c].obj = None /\ pool[k].cell[c].state = "FREE"

(* The procedures in the data of an object are those that the program      *)
(* gave, as far as there are any.                                          *)
Agrees(d, w) ==
  d.proc \in {None, w.proc} /\ d.close \in {None, w.close} /\ d.listen \in {None, w.listen}

(* An object with handle h and the cell c, which holds d: libuv calls back *)
(* for it only when it has its data, unless this was released under way.   *)
ObjectRight(o, c, d, h, w) ==
  /\ c # 0 /\ o \notin Plains => Agrees(d, w)
  /\ ~ h.bare /\ o \notin Plains => /\ h.active => c # 0 /\ d.proc = w.proc
                                    /\ h.listening => c # 0
                                    /\ h.closing = "asked" => c # 0 /\ d.close = w.close
  /\ h.listening => o \in Streams
  /\ h.closing # "no" => ~ h.active /\ ~ h.listening /\ o \notin Timers \cup Idles
  /\ c # 0 /\ d.state = "CLOSING" => h.closing = "done"
  /\ h.bare => o \notin Timers \cup Idles

ObjectInv(o) ==
  LET d == pool[PoolOf(o)].cell[data[o]]
  IN /\ data[o] # 0 => data[o] \in Busy(pool[PoolOf(o)]) /\ d.obj = o
     /\ ObjectRight(o, data[o], d, handle[o], want[o])

(* A read may have lost its cell, or another object have it by now, and so *)
(* may a close callback whose object was stopped.                          *)
FrameInv ==
  /\ frame # NoFrame => <<frame.proc, frame.args>> = frame.asked
  /\ frame.cb = "read" => frame.cell # 0 /\ frame.prev \in {"LOCKED", "READING"}
  /\ frame.cb = "close" => /\ PoolOf(frame.obj) = "stream" /\ handle[frame.obj].closing = "done"
                           /\ frame.cell # 0
                           /\ ~ handle[frame.obj].bare => data[frame.obj] = frame.cell

(* A null pointer was followed only after the data of an object had been   *)
(* released under way.                                                     *)
CrashInv == crash => \E o \in Objects : handle[o].bare

(* A procedure that two pending requests hold is shared.                   *)
MarksInv ==
  \A f \in flight : f.pool = "heap" /\ f.proc \notin shared =>
    /\ f.proc \in marks
    /\ \A g \in flight : g.pool = "heap" /\ g.proc = f.proc => g = f

UvInv ==
  /\ Types
  /\ \A k \in RequestPools : RequestsInv(k)
  /\ \A k \in HandlePools : CellsInv(k)
  /\ \A o \in Objects : ObjectInv(o)
  /\ FrameInv
  /\ CrashInv
  /\ MarksInv
-----------------------------------------------------------------------------
(* What the operations on a pool do to its free list.                      *)

LEMMA ExtendPool ==
  ASSUME UvConstants, NEW S, WellFormed(S), UvExtendPool(S).size <= MaxCells
  PROVE  /\ WellFormed(UvExtendPool(S))
         /\ UvExtendPool(S).idle # <<>>
         /\ Busy(UvExtendPool(S)) = Busy(S)
         /\ UvExtendPool(S).cell = S.cell
<1> DEFINE E == UvExtendPool(S)
<1> DEFINE n == IF S.size = 0 THEN Increment ELSE 2 * S.size
<1>1. CASE S.idle # <<>>
  BY <1>1 DEF UvExtendPool
<1>2. CASE S.idle = <<>>
  <2> DEFINE s == [i \in 1 .. n - S.size |-> S.size + i]
  <2>0. MaxCells \in Nat /\ Increment \in Nat \ {0} /\ S.size \in 0 .. MaxCells
    BY DEF WellFormed, PoolType, UvConstants
  <2>1. S.size \in Nat /\ n \in Nat /\ n - S.size \in Nat \ {0} /\ S.size \in 0 .. MaxCells
    BY <2>0
  <2> HIDE DEF n
  <2>2. E = [S EXCEPT !.size = n, !.idle = s]
    BY <1>2 DEF UvExtendPool, n
  <2>3. E.size = n /\ E.idle = s /\ E.cell = S.cell
    BY <2>2 DEF WellFormed, PoolType
  <2>4. n <= MaxCells /\ MaxCells \in Nat
    BY <2>3 DEF UvConstants
  <2>5. s \in [1 .. n - S.size -> Cells]
    BY <2>1, <2>4 DEF Cells
  <2>6. s \in Seq(Cells) /\ Len(s) = n - S.size /\ s # <<>> /\ DOMAIN s = 1 .. n - S.size
    BY <2>5, <2>1
  <2>7. E \in PoolType
    <3> HIDE DEF E, s
    <3>1. S \in [idle : Seq(Cells), size : 0 .. MaxCells, cell : [Cells -> CellType]]
      BY DEF WellFormed, PoolType
    <3>2. n \in 0 .. MaxCells
      BY <2>1, <2>4
    <3> QED BY <2>2, <2>6, <3>1, <3>2 DEF PoolType
  <2>8. Range(s) = S.size + 1 .. n
    <3>1. ASSUME NEW x \in S.size + 1 .. n PROVE x \in Range(s)
      <4>1. x - S.size \in DOMAIN s /\ s[x - S.size] = x
        BY <2>1
      <4> QED BY <4>1 DEF Range
    <3>2. ASSUME NEW x \in Range(s) PROVE x \in S.size + 1 .. n
      <4>1. PICK i \in DOMAIN s : x = s[i]
        BY DEF Range
      <4> QED BY <4>1, <2>1
    <3> QED BY <3>1, <3>2
  <2>9. \A i, j \in DOMAIN s : s[i] = s[j] => i = j
    BY <2>1
  <2>10. Range(S.idle) = {}
    BY <1>2 DEF Range
  <2> HIDE DEF E, s
  <2>11. Busy(E) = 1 .. S.size /\ Busy(S) = 1 .. S.size
    <3>1. Busy(S) = 1 .. S.size
      BY <2>10 DEF Busy
    <3>2. Busy(E) = (1 .. n) \ (S.size + 1 .. n)
      BY <2>3, <2>8 DEF Busy
    <3>3. S.size <= n
      BY <2>1
    <3> QED BY <3>1, <3>2, <3>3, <2>1
  <2>12. Range(E.idle) \subseteq 1 .. E.size
    BY <2>3, <2>8, <2>1
  <2>13. WellFormed(E)
    BY <2>7, <2>9, <2>12, <2>3 DEF WellFormed
  <2> QED BY <2>13, <2>11, <2>3, <2>6 DEF E
<1> QED BY <1>1, <1>2

LEMMA AllocPool ==
  ASSUME UvConstants, NEW S, WellFormed(S), UvExtendPool(S).size <= MaxCells, NEW d \in CellType
  PROVE  /\ Taken(S) \in Cells /\ Taken(S) \notin Busy(S)
         /\ WellFormed(Alloc(S, d))
         /\ Busy(Alloc(S, d)) = Busy(S) \cup {Taken(S)}
         /\ Alloc(S, d).cell = [S.cell EXCEPT ![Taken(S)] = d]
<1> DEFINE E == UvExtendPool(S)
           q == E.idle
           c == Taken(S)
           A == Alloc(S, d)
<1>1. WellFormed(E) /\ q # <<>> /\ Busy(E) = Busy(S) /\ E.cell = S.cell
  BY ExtendPool
<1>2. c = Head(q) /\ A = [E EXCEPT !.idle = Tail(q), !.cell[c] = d]
  BY DEF Taken, Alloc
<1> HIDE DEF E, c, A
<1>3. E \in [idle : Seq(Cells), size : 0 .. MaxCells, cell : [Cells -> CellType]]
  BY <1>1 DEF WellFormed, PoolType
<1>4. q \in Seq(Cells)
  BY <1>3
<1>5. A.idle = Tail(q) /\ A.size = E.size /\ A.cell = [S.cell EXCEPT ![c] = d]
  BY <1>2, <1>3, <1>1
<1> HIDE DEF q
<1>6. Len(q) \in Nat \ {0} /\ c = q[1] /\ Tail(q) \in Seq(Cells) /\ Len(Tail(q)) = Len(q) - 1
      /\ \A i \in 1 .. Len(q) - 1 : Tail(q)[i] = q[i + 1]
  BY <1>1, <1>2, <1>4 DEF q
<1>7. \A i, j \in 1 .. Len(q) : q[i] = q[j] => i = j
  BY <1>1, <1>4 DEF WellFormed, q
<1>8. c \in Range(q) /\ c \in Cells
  BY <1>6, <1>4 DEF Range
<1>9. Range(Tail(q)) = Range(q) \ {c}
  <2>1. ASSUME NEW x \in Range(Tail(q)) PROVE x \in Range(q) /\ x # c
    <3>1. PICK i \in 1 .. Len(q) - 1 : x = Tail(q)[i]
      BY <1>6 DEF Range
    <3>2. i + 1 \in 1 .. Len(q) /\ i + 1 # 1 /\ x = q[i + 1] /\ 1 \in 1 .. Len(q)
      BY <3>1, <1>6
    <3>3. x # c
      BY <3>2, <1>7, <1>6
    <3> QED BY <3>2, <3>3, <1>4 DEF Range
  <2>2. ASSUME NEW x \in Range(q), x # c PROVE x \in Range(Tail(q))
    <3>1. PICK i \in 1 .. Len(q) : x = q[i]
      BY <1>4 DEF Range
    <3>2. i - 1 \in 1 .. Len(q) - 1 /\ Tail(q)[i - 1] = x
      BY <3>1, <2>2, <1>6
    <3>3. DOMAIN Tail(q) = 1 .. Len(q) - 1
      BY <1>6
    <3> QED BY <3>2, <3>3 DEF Range
  <2> QED BY <2>1, <2>2
<1>10. Range(q) \subseteq 1 .. E.size
  BY <1>1 DEF WellFormed, q
<1>11. c \notin Busy(S)
  BY <1>1, <1>8 DEF Busy, q
<1>12. Busy(A) = Busy(S) \cup {c}
  <2>1. Busy(A) = (1 .. E.size) \ (Range(q) \ {c})
    BY <1>5, <1>9 DEF Busy
  <2>2. Busy(S) = (1 .. E.size) \ Range(q)
    BY <1>1 DEF Busy, q
  <2> QED BY <2>1, <2>2, <1>8, <1>10
<1>13. WellFormed(A)
  <2>1. A \in PoolType
    BY <1>2, <1>3, <1>6, <1>8 DEF PoolType
  <2>2. Range(A.idle) \subseteq 1 .. A.size
    BY <1>5, <1>9, <1>10
  <2>3. ASSUME NEW i \in DOMAIN A.idle, NEW j \in DOMAIN A.idle, A.idle[i] = A.idle[j] PROVE i = j
    <3>1. DOMAIN A.idle = 1 .. Len(q) - 1
      BY <1>5, <1>6
    <3>2. i + 1 \in 1 .. Len(q) /\ j + 1 \in 1 .. Len(q) /\ q[i + 1] = q[j + 1] /\ i \in Nat /\ j \in Nat
      BY <3>1, <2>3, <1>5, <1>6
    <3>3. i + 1 = j + 1
      BY <3>2, <1>7
    <3> QED BY <3>2, <3>3
  <2> QED BY <2>1, <2>2, <2>3 DEF WellFormed
<1> QED BY <1>5, <1>8, <1>11, <1>12, <1>13 DEF c, A

LEMMA FreePool ==
  ASSUME UvConstants, NEW S, WellFormed(S), NEW c \in Busy(S)
  PROVE  /\ WellFormed(Free(S, c))
         /\ Busy(Free(S, c)) = Busy(S) \ {c}
         /\ Free(S, c).cell = [S.cell EXCEPT ![c] = Blank]
<1> DEFINE F == Free(S, c)
           q == S.idle
           r == <<c>> \o q
<1>1. S \in [idle : Seq(Cells), size : 0 .. MaxCells, cell : [Cells -> CellType]]
  BY DEF WellFormed, PoolType
<1>2. F = [S EXCEPT !.idle = r, !.cell[c] = Blank]
  BY DEF Free
<1> HIDE DEF F
<1>3. F.idle = r /\ F.size = S.size /\ F.cell = [S.cell EXCEPT ![c] = Blank]
  BY <1>1, <1>2
<1>4. q \in Seq(Cells) /\ S.size \in 0 .. MaxCells /\ MaxCells \in Nat
  BY <1>1 DEF UvConstants
<1>5. c \in 1 .. S.size /\ c \notin Range(q)
  BY DEF Busy
<1>6. c \in Cells
  BY <1>4, <1>5 DEF Cells
<1> HIDE DEF q
<1>7. r \in Seq(Cells) /\ Len(r) = Len(q) + 1 /\ Len(q) \in Nat /\ r[1] = c
      /\ (\A i \in 2 .. Len(r) : r[i] = q[i - 1]) /\ (\A i \in 1 .. Len(q) : q[i] = r[i + 1])
  BY <1>4, <1>6
<1> HIDE DEF r
<1>8. Range(r) = Range(q) \cup {c}
  <2>1. ASSUME NEW x \in Range(r), x # c PROVE x \in Range(q)
    <3>1. PICK i \in 1 .. Len(r) : x = r[i]
      BY <1>7 DEF Range
    <3>2. i - 1 \in 1 .. Len(q) /\ x = q[i - 1]
      BY <3>1, <2>1, <1>7
    <3> QED BY <3>2, <1>4 DEF Range
  <2>2. ASSUME NEW x \in Range(q) PROVE x \in Range(r)
    <3>1. PICK i \in 1 .. Len(q) : x = q[i]
      BY <1>4 DEF Range
    <3>2. i + 1 \in 1 .. Len(r) /\ x = r[i + 1]
      BY <3>1, <1>7
    <3> QED BY <3>2, <1>7 DEF Range
  <2>3. c \in Range(r)
    BY <1>7 DEF Range
  <2> QED BY <2>1, <2>2, <2>3
<1>9. Busy(F) = Busy(S) \ {c}
  BY <1>3, <1>8 DEF Busy, q
<1>10. WellFormed(F)
  <2>0. Blank \in CellType
    BY DEF Blank, CellType, Given, Args, States
  <2>1. F \in PoolType
    BY <1>1, <1>2, <1>6, <1>7, <2>0 DEF PoolType
  <2>2. Range(F.idle) \subseteq 1 .. F.size
    BY <1>3, <1>5, <1>8 DEF WellFormed, q
  <2>3. ASSUME NEW i \in DOMAIN F.idle, NEW j \in DOMAIN F.idle, F.idle[i] = F.idle[j] PROVE i = j
    <3>1. i \in 1 .. Len(r) /\ j \in 1 .. Len(r) /\ r[i] = r[j]
      BY <1>3, <1>7, <2>3
    <3>2. \A k \in 2 .. Len(r) : k - 1 \in 1 .. Len(q) /\ r[k] = q[k - 1] /\ r[k] # c
      BY <1>5, <1>7, <1>4 DEF Range
    <3>3. \A k, l \in 1 .. Len(q) : q[k] = q[l] => k = l
      BY <1>4 DEF WellFormed, q
    <3>4. CASE i = 1 \/ j = 1
      BY <3>1, <3>2, <3>4, <1>7
    <3>5. CASE i # 1 /\ j # 1
      <4>1. i \in 2 .. Len(r) /\ j \in 2 .. Len(r)
        BY <3>1, <3>5, <1>7
      <4>2. i - 1 = j - 1
        BY <4>1, <3>1, <3>2, <3>3
      <4> QED BY <4>1, <4>2
    <3> QED BY <3>4, <3>5
  <2> QED BY <2>1, <2>2, <2>3 DEF WellFormed
<1> QED BY <1>3, <1>9, <1>10 DEF F

LEMMA StorePool ==
  ASSUME NEW S, WellFormed(S), NEW c \in Cells, NEW d \in CellType
  PROVE  LET T == [S EXCEPT !.cell[c] = d]
         IN WellFormed(T) /\ Busy(T) = Busy(S) /\ T.cell = [S.cell EXCEPT ![c] = d]
<1> DEFINE T == [S EXCEPT !.cell[c] = d]
<1>1. S \in [idle : Seq(Cells), size : 0 .. MaxCells, cell : [Cells -> CellType]]
  BY DEF WellFormed, PoolType
<1>2. T \in PoolType /\ T.idle = S.idle /\ T.size = S.size /\ T.cell = [S.cell EXCEPT ![c] = d]
  BY <1>1 DEF PoolType
<1> HIDE DEF T
<1>3. WellFormed(T) /\ Busy(T) = Busy(S)
  BY <1>2 DEF WellFormed, Busy
<1> QED BY <1>2, <1>3 DEF T
-----------------------------------------------------------------------------
(* The invariant holds at the start.                                       *)

LEMMA InitInv ==
  ASSUME UvConstants, UvInit
  PROVE  UvInv
<1> DEFINE S == [idle |-> <<>>, size |-> 0, cell |-> [c \in Cells |-> Blank]]
<1>1. pool = [k \in Pools |-> S]
  BY DEF UvInit, InitPools
<1>2. Blank \in CellType /\ Blank.obj = None /\ Blank.state = "FREE"
  BY DEF Blank, CellType, Given, Args, States
<1>3. S \in PoolType /\ S.idle = <<>> /\ S.size = 0 /\ S.cell = [c \in Cells |-> Blank]
  BY <1>2 DEF PoolType, UvConstants
<1> HIDE DEF S
<1>4. WellFormed(S) /\ Busy(S) = {}
  BY <1>3 DEF WellFormed, Busy, Range
<1>5. Types
  <2>0. [active |-> FALSE, repeat |-> FALSE, listening |-> FALSE, closing |-> "no", bare |-> FALSE]
          \in HandleType /\ [proc |-> None, close |-> None, listen |-> None] \in WantType
    BY DEF HandleType, WantType, Given
  <2>1. handle \in [Objects -> HandleType] /\ want \in [Objects -> WantType]
    BY <2>0 DEF UvInit, InitHandles
  <2>2. pool \in [Pools -> PoolType] /\ lost \in [Pools -> SUBSET Cells]
    BY <1>1, <1>3 DEF UvInit, InitPools
  <2>3. data \in [Objects -> 0 .. MaxCells]
    BY DEF UvInit, InitHandles, UvConstants
  <2>4. marks = {} /\ shared = {} /\ flight = {} /\ frame = NoFrame /\ crash = FALSE
    BY DEF UvInit, InitPools
  <2> QED BY <2>1, <2>2, <2>3, <2>4 DEF Types
<1>6. ASSUME NEW k \in RequestPools PROVE RequestsInv(k)
  <2>1. k \in Pools /\ pool[k] = S
    BY <1>1 DEF RequestPools, Pools
  <2>2. InFlight(k) = {} /\ InFrame(k) = {} /\ lost[k] = {} /\ flight = {}
    BY <2>1 DEF InFlight, InFrame, RequestCallbacks, UvInit, InitPools, NoFrame
  <2> QED BY <2>1, <2>2, <1>4 DEF RequestsInv
<1>7. ASSUME NEW k \in HandlePools PROVE CellsInv(k)
  <2>1. k \in Pools /\ pool[k] = S /\ lost[k] = {}
    BY <1>1 DEF HandlePools, Pools, UvInit, InitPools
  <2> QED BY <2>1, <1>2, <1>3, <1>4 DEF CellsInv
<1>8. ASSUME NEW o \in Objects PROVE ObjectInv(o)
  <2>1. data[o] = 0 /\ handle[o] = [active |-> FALSE, repeat |-> FALSE, listening |-> FALSE,
                                    closing |-> "no", bare |-> FALSE]
    BY DEF UvInit, InitHandles
  <2> QED BY <2>1 DEF ObjectInv, ObjectRight
<1>9. FrameInv /\ MarksInv /\ CrashInv
  BY DEF UvInit, InitPools, FrameInv, NoFrame, MarksInv, CrashInv
<1> QED BY <1>5, <1>6, <1>7, <1>8, <1>9 DEF UvInv

-----------------------------------------------------------------------------
(* What a step that does not touch a part leaves of its invariant.         *)

LEMMA RequestsKept ==
  ASSUME NEW k, RequestsInv(k), pool'[k] = pool[k], lost'[k] = lost[k],
         {f \in flight' : f.pool = k} = {f \in flight : f.pool = k},
         InFrame(k)' = InFrame(k)
  PROVE  RequestsInv(k)'
<1>1. InFlight(k)' = InFlight(k)
  BY DEF InFlight
<1>2. \A f : f \in flight' /\ f.pool = k <=> f \in flight /\ f.pool = k
  OBVIOUS
<1> QED BY <1>1, <1>2 DEF RequestsInv

(* A pool that a step leaves alone, and its objects.                       *)
LEMMA CellsKept ==
  ASSUME NEW k, CellsInv(k), pool'[k] = pool[k], lost'[k] = lost[k], data' = data
  PROVE  CellsInv(k)'
BY DEF CellsInv

LEMMA HandlesKept ==
  ASSUME UvInv, \A k \in HandlePools : pool'[k] = pool[k] /\ lost'[k] = lost[k],
         data' = data, handle' = handle, want' = want, crash' = crash
  PROVE  /\ \A k \in HandlePools : CellsInv(k)'
         /\ \A o \in Objects : ObjectInv(o)'
         /\ CrashInv'
<1>1. ASSUME NEW k \in HandlePools PROVE CellsInv(k)'
  BY CellsKept DEF UvInv
<1>2. ASSUME NEW o \in Objects PROVE ObjectInv(o)'
  <2>1. PoolOf(o) \in HandlePools /\ PoolOf(o)' = PoolOf(o)
    BY DEF PoolOf, HandlePools
  <2>2. pool'[PoolOf(o)] = pool[PoolOf(o)]
    BY <2>1
  <2>3. ObjectInv(o)
    BY DEF UvInv
  <2> QED BY <2>1, <2>2, <2>3 DEF ObjectInv
<1>3. CrashInv'
  BY DEF UvInv, CrashInv
<1> QED BY <1>1, <1>2, <1>3

LEMMA PoolNames ==
  /\ \A k \in RequestPools : k \in Pools /\ k \notin HandlePools
  /\ \A k \in HandlePools : k \in Pools /\ k \notin RequestPools
  /\ \A k \in Pools : k \in RequestPools \/ k \in HandlePools
  /\ \A o \in Objects : PoolOf(o) \in HandlePools
  /\ \A k \in RequestPools : CallbacksOf(k) \subseteq RequestCallbacks
BY DEF RequestPools, HandlePools, Pools, PoolOf, CallbacksOf, RequestCallbacks
-----------------------------------------------------------------------------
(* Requests.                                                               *)

LEMMA RequestStep ==
  ASSUME UvConstants, UvInv, NEW k \in RequestPools, NEW cb \in CallbacksOf(k),
         NEW p \in Procs, NEW n \in Nat, NEW mark, NEW refused, k = "heap" <=> mark # "never",
         Request(k, cb, p, n, mark, refused), UNCHANGED <<handle, want>>
  PROVE  UvInv'
<1> DEFINE c == Taken(pool[k])
           args == [i \in 1 .. n |-> <<p, i>>]
           content == [Blank EXCEPT !.proc = p, !.args = args]
           filled == Alloc(pool[k], content)
           r == [pool |-> k, cell |-> c, cb |-> cb, proc |-> p, args |-> args]
           Mark == /\ marks' = GcMark(marks, p)
                   /\ shared' = IF p \in marks THEN shared \cup {p} ELSE shared
           Accepted == /\ flight' = flight \cup {r}
                       /\ pool' = [pool EXCEPT ![k] = filled]
                       /\ IF mark # "never" THEN Mark ELSE UNCHANGED <<marks, shared>>
                       /\ UNCHANGED lost
           Refused == /\ IF refused = "free"
                         THEN pool' = [pool EXCEPT ![k] = Free(filled, c)] /\ UNCHANGED lost
                         ELSE /\ pool' = [pool EXCEPT ![k] = filled]
                              /\ lost' = [lost EXCEPT ![k] = @ \cup {c}]
                      /\ IF mark = "before" THEN Mark ELSE UNCHANGED <<marks, shared>>
                      /\ UNCHANGED flight
<1>1. Accepted \/ Refused
  BY DEF Request
<1>2. UNCHANGED <<data, frame, crash, handle, want>> /\ HasRoom(k)
  BY DEF Request, others
<1>3. Types /\ FrameInv /\ MarksInv /\ RequestsInv(k) /\ k \in Pools /\ k \notin HandlePools
      /\ cb \in RequestCallbacks
  BY PoolNames DEF UvInv
<1>4. args \in Args /\ p \in Given
  BY DEF Args, Given
<1>5. content \in CellType /\ content.proc = p /\ content.args = args
  BY <1>4 DEF Blank, CellType, States, Given
<1> HIDE DEF args, content
<1>6. WellFormed(pool[k]) /\ UvExtendPool(pool[k]).size <= MaxCells
  BY <1>2, <1>3 DEF RequestsInv, HasRoom
<1>7. /\ c \in Cells /\ c \notin Busy(pool[k])
      /\ WellFormed(filled) /\ Busy(filled) = Busy(pool[k]) \cup {c}
      /\ filled.cell = [pool[k].cell EXCEPT ![c] = content]
  BY <1>5, <1>6, AllocPool
<1> HIDE DEF c, filled
<1>8. pool[k].cell \in [Cells -> CellType] /\ filled \in PoolType
  BY <1>6, <1>7 DEF WellFormed, PoolType
<1>9. filled.cell[c].proc = p /\ filled.cell[c].args = args
      /\ \A x \in Cells : x # c => filled.cell[x] = pool[k].cell[x]
  BY <1>5, <1>7, <1>8
<1>10. InFrame(k)' = InFrame(k) /\ FrameInv'
  BY <1>2, <1>3 DEF InFrame, FrameInv
<1>11. \A j : InFrame(j)' = InFrame(j)
  BY <1>2 DEF InFrame
<1>12. ASSUME Accepted PROVE UvInv'
  <2>1. r \in RequestType /\ r.pool = k /\ r.cell = c /\ r.cb = cb /\ r.proc = p /\ r.args = args
    BY <1>3, <1>4, <1>7 DEF RequestType
  <2> HIDE DEF r
  <2>2. Types'
    BY <1>2, <1>3, <1>4, <1>8, <1>12, <2>1 DEF Types, GcMark
  <2>3. pool'[k] = filled /\ lost'[k] = lost[k] /\ \A j \in Pools : j # k => pool'[j] = pool[j]
    BY <1>3, <1>12 DEF Types
  <2>4. InFlight(k)' = InFlight(k) \cup {c}
    BY <1>12, <2>1 DEF InFlight
  <2>5. c \notin InFlight(k) \cup InFrame(k) \cup lost[k]
    BY <1>3, <1>7 DEF RequestsInv
  <2>6. \A f \in flight : f.pool = k => f.cell \in Cells /\ f.cell # c
    BY <1>3, <2>5 DEF InFlight, Types, RequestType
  <2>7. ASSUME NEW f \in flight', f.pool = k
        PROVE  /\ f.cb \in CallbacksOf(k)
               /\ pool'[k].cell[f.cell].proc = f.proc /\ pool'[k].cell[f.cell].args = f.args
               /\ \A g \in flight' : g.pool = k /\ g.cell = f.cell => g = f
    <3>1. CASE f = r
      BY <3>1, <2>1, <2>3, <1>9, <2>6, <1>12
    <3>2. CASE f \in flight
      BY <3>2, <2>7, <2>1, <2>3, <1>9, <2>6, <1>12, <1>3 DEF RequestsInv
    <3> QED BY <3>1, <3>2, <1>12
  <2>8. RequestsInv(k)'
    <3>1. WellFormed(pool[k])' /\ Busy(pool[k])' = Busy(pool[k]) \cup {c}
      BY <1>7, <2>3 DEF WellFormed, Busy
    <3> QED BY <3>1, <2>3, <2>4, <2>5, <2>7, <1>10, <1>3 DEF RequestsInv
  <2>9. ASSUME NEW j \in RequestPools PROVE RequestsInv(j)'
    <3>1. CASE j # k
      <4>1. {f \in flight' : f.pool = j} = {f \in flight : f.pool = j}
        BY <3>1, <1>12, <2>1
      <4>2. RequestsInv(j) /\ pool'[j] = pool[j] /\ lost'[j] = lost[j]
        BY <3>1, <2>3, <1>12, PoolNames DEF UvInv
      <4> QED BY <4>1, <4>2, <1>11, RequestsKept
    <3> QED BY <3>1, <2>8
  <2>10. \A j \in HandlePools : pool'[j] = pool[j] /\ lost'[j] = lost[j]
    BY <2>3, <1>3, <1>12, PoolNames
  <2>11. MarksInv'
    <3>1. CASE k # "heap"
      BY <3>1, <1>3, <1>12, <2>1 DEF MarksInv
    <3>2. CASE k = "heap"
      <4>1. marks' = marks \cup {p} /\ shared' = IF p \in marks THEN shared \cup {p} ELSE shared
        BY <3>2, <1>12 DEF GcMark
      <4>2. \A f \in flight : f.pool = "heap" /\ f.proc \notin shared' => f.proc # p
        BY <4>1, <1>3 DEF MarksInv
      <4>3. ASSUME NEW f \in flight', f.pool = "heap", f.proc \notin shared'
            PROVE  f.proc \in marks' /\ \A g \in flight' : g.pool = "heap" /\ g.proc = f.proc => g = f
        <5>1. CASE f = r
          BY <5>1, <4>1, <4>2, <4>3, <1>12, <2>1
        <5>2. CASE f \in flight
          BY <5>2, <4>1, <4>2, <4>3, <1>12, <1>3, <2>1 DEF MarksInv
        <5> QED BY <5>1, <5>2, <1>12
      <4> QED BY <4>3 DEF MarksInv
    <3> QED BY <3>1, <3>2
  <2> QED BY <2>2, <2>9, <2>10, <2>11, <1>2, <1>10, HandlesKept DEF UvInv
<1>13. ASSUME Refused PROVE UvInv'
  <2>1. MarksInv'
    <3>1. marks \subseteq marks' /\ shared \subseteq shared' /\ flight' = flight
      BY <1>13 DEF GcMark
    <3> QED BY <3>1, <1>3 DEF MarksInv
  <2>2. marks' \subseteq Given /\ shared' \subseteq Given
    BY <1>3, <1>4, <1>13 DEF GcMark, Types
  <2>3. c \notin InFlight(k) \cup InFrame(k) \cup lost[k]
    BY <1>3, <1>7 DEF RequestsInv
  <2>4. c \in Busy(filled)
    BY <1>7
  <2>5. /\ WellFormed(Free(filled, c)) /\ Busy(Free(filled, c)) = Busy(pool[k])
        /\ Free(filled, c).cell = [filled.cell EXCEPT ![c] = Blank]
    <3>1. /\ WellFormed(Free(filled, c)) /\ Busy(Free(filled, c)) = Busy(filled) \ {c}
          /\ Free(filled, c).cell = [filled.cell EXCEPT ![c] = Blank]
      BY <1>7, <2>4, FreePool
    <3> QED BY <3>1, <1>7
  <2>6. filled.cell \in [Cells -> CellType] /\ Free(filled, c) \in PoolType
    BY <1>8, <2>5 DEF PoolType, WellFormed
  <2>7. /\ pool' \in [Pools -> PoolType] /\ lost' \in [Pools -> SUBSET Cells]
        /\ \A j \in Pools : j # k => pool'[j] = pool[j] /\ lost'[j] = lost[j]
    <3>1. pool \in [Pools -> PoolType] /\ lost \in [Pools -> SUBSET Cells]
      BY <1>3 DEF Types
    <3>2. CASE refused = "free"
      BY <3>1, <3>2, <2>6, <1>3, <1>13
    <3>3. CASE refused # "free"
      BY <3>1, <3>3, <1>3, <1>7, <1>8, <1>13
    <3> QED BY <3>2, <3>3
  <2>8. Types'
    BY <2>2, <2>7, <1>2, <1>3, <1>13 DEF Types
  <2>9. InFlight(k)' = InFlight(k)
    BY <1>13 DEF InFlight
  <2>10. \A f \in flight : f.pool = k => f.cell \in Cells /\ f.cell # c
    BY <1>3, <2>3 DEF InFlight, Types, RequestType
  <2>11. RequestsInv(k)'
    <3>1. CASE refused = "free"
      <4>1. pool'[k] = Free(filled, c) /\ lost'[k] = lost[k]
        BY <3>1, <1>3, <1>13 DEF Types
      <4>2. WellFormed(pool[k])' /\ Busy(pool[k])' = Busy(pool[k])
        BY <4>1, <2>5 DEF WellFormed, Busy
      <4>3. \A f \in flight : f.pool = k => pool'[k].cell[f.cell] = pool[k].cell[f.cell]
        BY <4>1, <2>5, <2>6, <2>10, <1>9
      <4> QED BY <4>1, <4>2, <4>3, <2>9, <1>10, <1>3, <1>13 DEF RequestsInv
    <3>2. CASE refused # "free"
      <4>1. pool'[k] = filled /\ lost'[k] = lost[k] \cup {c}
        BY <3>2, <1>3, <1>13 DEF Types
      <4>2. WellFormed(pool[k])' /\ Busy(pool[k])' = Busy(pool[k]) \cup {c}
        BY <4>1, <1>7 DEF WellFormed, Busy
      <4>3. \A f \in flight : f.pool = k => pool'[k].cell[f.cell] = pool[k].cell[f.cell]
        BY <4>1, <2>10, <1>9
      <4> QED BY <4>1, <4>2, <4>3, <2>3, <2>9, <1>10, <1>3, <1>13 DEF RequestsInv
    <3> QED BY <3>1, <3>2
  <2>12. ASSUME NEW j \in RequestPools PROVE RequestsInv(j)'
    <3>1. CASE j # k
      <4>1. RequestsInv(j) /\ pool'[j] = pool[j] /\ lost'[j] = lost[j]
        BY <3>1, <2>7, PoolNames DEF UvInv
      <4> QED BY <4>1, <1>11, <1>13, RequestsKept
    <3> QED BY <3>1, <2>11
  <2>13. \A j \in HandlePools : pool'[j] = pool[j] /\ lost'[j] = lost[j]
    BY <2>7, <1>3, PoolNames
  <2> QED BY <2>1, <2>8, <2>12, <2>13, <1>2, <1>10, HandlesKept DEF UvInv
<1> QED BY <1>1, <1>12, <1>13

LEMMA NoFrameFacts ==
  ASSUME frame = NoFrame
  PROVE  \A k : InFrame(k) = {}
BY DEF NoFrame, InFrame, RequestCallbacks

LEMMA CallStep ==
  ASSUME UvConstants, UvInv, NEW f, NEW unmark \in BOOLEAN, NEW freed, Call(f, unmark, freed),
         unmark <=> f.pool = "heap", UNCHANGED <<handle, want>>
  PROVE  UvInv'
<1> DEFINE k == f.pool
           d == pool[k].cell[f.cell]
           cell == IF freed = "before" THEN 0 ELSE f.cell
<1>1. f \in flight /\ frame = NoFrame /\ flight' = flight \ {f}
      /\ UNCHANGED <<data, lost, shared, crash, handle, want>>
  BY DEF Call, InLoop
<1>2. /\ pool' = IF freed = "before" THEN [pool EXCEPT ![k] = Free(@, f.cell)] ELSE pool
      /\ marks' = IF unmark THEN marks \ {d.proc} ELSE marks
      /\ frame' = [cb |-> f.cb, pool |-> k, cell |-> cell, proc |-> d.proc, args |-> d.args,
                   asked |-> <<f.proc, f.args>>]
  BY DEF Call, GcUnmark
<1>3. Types /\ MarksInv /\ f \in RequestType
  BY <1>1 DEF UvInv, Types
<1>4. k \in RequestPools /\ k \in Pools /\ k \notin HandlePools /\ f.cell \in Cells
      /\ f.cb \in RequestCallbacks /\ f.proc \in Given /\ f.args \in Args
  BY <1>3, PoolNames DEF RequestType
<1>5. RequestsInv(k)
  BY <1>4 DEF UvInv
<1>6. d.proc = f.proc /\ d.args = f.args
      /\ \A g \in flight : g.pool = k /\ g.cell = f.cell => g = f
  BY <1>1, <1>5 DEF RequestsInv
<1>7. cell \in 0 .. MaxCells /\ f.cell # 0
  BY <1>4 DEF UvConstants, Cells
<1>8. frame' \in RequestFrame
  BY <1>2, <1>4, <1>6, <1>7 DEF RequestFrame
<1>9. frame'.cb = f.cb /\ frame'.pool = k /\ frame'.cell = cell
      /\ <<frame'.proc, frame'.args>> = frame'.asked
  BY <1>2, <1>6
<1>10. FrameInv'
  <2>1. f.cb # "read" /\ f.cb # "close"
    BY <1>4 DEF RequestCallbacks
  <2> QED BY <2>1, <1>9 DEF FrameInv
<1>11. \A j : InFrame(j) = {} /\ (InFrame(j)' = IF j = k THEN {cell} \ {0} ELSE {})
  BY <1>1, <1>4, <1>9, NoFrameFacts DEF InFrame
<1>12. InFlight(k)' = InFlight(k) \ {f.cell} /\ f.cell \in InFlight(k)
  BY <1>1, <1>6 DEF InFlight
<1>13. f.cell \in Busy(pool[k]) /\ f.cell \notin lost[k] /\ WellFormed(pool[k])
  BY <1>5, <1>12 DEF RequestsInv
<1>14. /\ WellFormed(Free(pool[k], f.cell))
       /\ Busy(Free(pool[k], f.cell)) = Busy(pool[k]) \ {f.cell}
       /\ Free(pool[k], f.cell).cell = [pool[k].cell EXCEPT ![f.cell] = Blank]
  BY <1>13, FreePool
<1>15. Free(pool[k], f.cell) \in PoolType /\ pool[k].cell \in [Cells -> CellType]
  BY <1>13, <1>14 DEF WellFormed, PoolType
<1>16. Types'
  <2>1. pool' \in [Pools -> PoolType]
    BY <1>2, <1>3, <1>15 DEF Types
  <2>2. marks' \subseteq Given /\ flight' \subseteq RequestType
    BY <1>1, <1>2, <1>3 DEF Types
  <2> QED BY <2>1, <2>2, <1>1, <1>3, <1>8 DEF Types
<1>17. \A j \in Pools : j # k => pool'[j] = pool[j] /\ lost'[j] = lost[j]
  BY <1>1, <1>2, <1>3 DEF Types
<1>18. RequestsInv(k)'
  <2>1. \A g \in flight' : g.pool = k => g.cell \in Cells /\ g.cell # f.cell
    BY <1>1, <1>3, <1>6 DEF Types, RequestType
  <2>2. CASE freed = "before"
    <3>1. pool'[k] = Free(pool[k], f.cell) /\ lost'[k] = lost[k] /\ InFrame(k)' = {}
      BY <2>2, <1>1, <1>2, <1>3, <1>4, <1>11 DEF Types
    <3>2. WellFormed(pool[k])' /\ Busy(pool[k])' = Busy(pool[k]) \ {f.cell}
      BY <3>1, <1>14 DEF WellFormed, Busy
    <3>3. \A g \in flight' : g.pool = k => pool'[k].cell[g.cell] = pool[k].cell[g.cell]
      BY <3>1, <1>14, <1>15, <2>1
    <3> QED BY <3>1, <3>2, <3>3, <1>1, <1>5, <1>11, <1>12, <1>13 DEF RequestsInv
  <2>3. CASE freed # "before"
    <3>1. pool'[k] = pool[k] /\ lost'[k] = lost[k] /\ InFrame(k)' = {f.cell}
      BY <2>3, <1>1, <1>2, <1>7, <1>11
    <3>2. WellFormed(pool[k])' /\ Busy(pool[k])' = Busy(pool[k])
      BY <3>1, <1>13 DEF WellFormed, Busy
    <3> QED BY <3>1, <3>2, <1>1, <1>5, <1>11, <1>12, <1>13 DEF RequestsInv
  <2> QED BY <2>2, <2>3
<1>19. ASSUME NEW j \in RequestPools PROVE RequestsInv(j)'
  <2>1. CASE j # k
    <3>1. {g \in flight' : g.pool = j} = {g \in flight : g.pool = j}
      BY <2>1, <1>1
    <3>2. RequestsInv(j) /\ pool'[j] = pool[j] /\ lost'[j] = lost[j] /\ InFrame(j)' = InFrame(j)
      BY <2>1, <1>11, <1>17, PoolNames DEF UvInv
    <3> QED BY <3>1, <3>2, RequestsKept
  <2> QED BY <2>1, <1>18
<1>20. \A j \in HandlePools : pool'[j] = pool[j] /\ lost'[j] = lost[j]
  BY <1>4, <1>17, PoolNames
<1>21. MarksInv'
  <2>1. ASSUME NEW g \in flight', g.pool = "heap", g.proc \notin shared'
        PROVE  /\ g.proc \in marks'
               /\ \A x \in flight' : x.pool = "heap" /\ x.proc = g.proc => x = g
    <3>1. g \in flight /\ g # f /\ g.proc \notin shared
      BY <1>1, <2>1
    <3>2. g.proc \in marks /\ \A x \in flight : x.pool = "heap" /\ x.proc = g.proc => x = g
      BY <1>3, <2>1, <3>1 DEF MarksInv
    <3>3. k = "heap" => f.proc # g.proc
      BY <1>1, <3>1, <3>2
    <3>4. g.proc \in marks'
      BY <1>2, <1>6, <3>2, <3>3
    <3> QED BY <3>2, <3>4, <1>1
  <2> QED BY <2>1 DEF MarksInv
<1> QED BY <1>10, <1>16, <1>19, <1>20, <1>21, <1>1, HandlesKept DEF UvInv

(* The callback of a write that raises at once.                            *)
LEMMA WriteLost ==
  ASSUME UvConstants, UvInv, NEW f \in flight, f.cb = "write", InLoop,
         flight' = flight \ {f}, lost' = [lost EXCEPT !["write"] = @ \cup {f.cell}],
         UNCHANGED <<pool, data, marks, shared, frame, crash, handle, want>>
  PROVE  UvInv'
<1>1. Types /\ MarksInv /\ FrameInv /\ f \in RequestType
  BY DEF UvInv, Types
<1>2. f.pool \in RequestPools /\ RequestsInv(f.pool) /\ f.cell \in Cells
  BY <1>1 DEF UvInv, RequestType
<1>3. f.pool = "write"
  BY <1>2 DEF RequestsInv, CallbacksOf, RequestPools
<1>4. \A j : InFrame(j)' = InFrame(j)
  BY DEF InFrame
<1>5. Types' /\ FrameInv' /\ lost'["write"] = lost["write"] \cup {f.cell}
      /\ \A j \in Pools : j # "write" => lost'[j] = lost[j]
  BY <1>1, <1>2 DEF Types, FrameInv, Pools
<1>6. \A g \in flight : g.pool = "write" /\ g.cell = f.cell => g = f
  BY <1>2, <1>3 DEF RequestsInv
<1>7. InFlight("write")' = InFlight("write") \ {f.cell} /\ f.cell \in InFlight("write")
  BY <1>3, <1>6 DEF InFlight
<1>8. RequestsInv("write")'
  BY <1>2, <1>3, <1>4, <1>5, <1>7 DEF RequestsInv, WellFormed, Busy
<1>9. ASSUME NEW j \in RequestPools PROVE RequestsInv(j)'
  <2>1. CASE j # "write"
    <3>1. {g \in flight' : g.pool = j} = {g \in flight : g.pool = j}
      BY <2>1, <1>3
    <3>2. RequestsInv(j) /\ lost'[j] = lost[j]
      BY <2>1, <1>5, PoolNames DEF UvInv
    <3> QED BY <3>1, <3>2, <1>4, RequestsKept
  <2> QED BY <2>1, <1>8
<1>10. \A j \in HandlePools : pool'[j] = pool[j] /\ lost'[j] = lost[j]
  BY <1>5, PoolNames DEF HandlePools
<1>11. MarksInv'
  BY <1>1 DEF MarksInv
<1> QED BY <1>5, <1>9, <1>10, <1>11, HandlesKept DEF UvInv

LEMMA ReturnStep ==
  ASSUME UvConstants, UvInv, FreeRequest \/ RequestRaises, UNCHANGED <<handle, want>>
  PROVE  UvInv'
<1>1. frame.cb \in RequestCallbacks /\ frame' = NoFrame
      /\ UNCHANGED <<data, marks, shared, flight, crash, handle, want>>
  BY DEF FreeRequest, RequestRaises
<1>2. Types /\ MarksInv
  BY DEF UvInv
<1>3. frame \in RequestFrame
  <2>1. frame # NoFrame
    BY <1>1 DEF NoFrame, RequestCallbacks
  <2>2. frame \notin HandleFrame
    BY <1>1 DEF HandleFrame, RequestCallbacks
  <2> QED BY <2>1, <2>2, <1>2 DEF Types
<1>0. PICK k, c : k = frame.pool /\ c = frame.cell
  OBVIOUS
<1>4. k \in RequestPools /\ k \in Pools /\ k \notin HandlePools /\ c \in 0 .. MaxCells
  BY <1>0, <1>3, PoolNames DEF RequestFrame
<1>5. RequestsInv(k)
  BY <1>4 DEF UvInv
<1>6. \A j : InFrame(j)' = {} /\ (InFrame(j) = IF j = k THEN {c} \ {0} ELSE {})
  <2>1. \A j : InFrame(j)' = {}
    BY <1>1 DEF NoFrame, InFrame, RequestCallbacks
  <2> QED BY <2>1, <1>0, <1>1 DEF InFrame
<1>7. FrameInv'
  BY <1>1 DEF NoFrame, FrameInv
<1>8. MarksInv'
  BY <1>1, <1>2 DEF MarksInv
<1>9. \A j : InFlight(j)' = InFlight(j)
  BY <1>1 DEF InFlight
<1>10. CASE c = 0 \/ RequestRaises
  <2>1. UNCHANGED pool /\ lost' = IF c # 0 THEN [lost EXCEPT ![k] = @ \cup {c}] ELSE lost
    BY <1>0, <1>10 DEF FreeRequest, RequestRaises
  <2>2. lost'[k] = lost[k] \cup InFrame(k) /\ \A j \in Pools : j # k => lost'[j] = lost[j]
    BY <2>1, <1>2, <1>4, <1>6 DEF Types
  <2>3. c # 0 => c \in Cells
    BY <1>4 DEF Cells, UvConstants
  <2>4. Types'
    BY <2>1, <2>3, <1>1, <1>2 DEF Types
  <2>5. RequestsInv(k)'
    BY <2>1, <2>2, <1>1, <1>5, <1>6, <1>9 DEF RequestsInv, WellFormed, Busy
  <2>6. ASSUME NEW j \in RequestPools PROVE RequestsInv(j)'
    <3>1. CASE j # k
      <4>1. RequestsInv(j) /\ lost'[j] = lost[j] /\ InFrame(j)' = InFrame(j)
        BY <3>1, <2>2, <1>6, PoolNames DEF UvInv
      <4> QED BY <4>1, <2>1, <1>1, RequestsKept
    <3> QED BY <3>1, <2>5
  <2>7. \A j \in HandlePools : pool'[j] = pool[j] /\ lost'[j] = lost[j]
    BY <2>1, <2>2, <1>4, PoolNames
  <2> QED BY <2>4, <2>6, <2>7, <1>1, <1>7, <1>8, HandlesKept DEF UvInv
<1>11. CASE c # 0 /\ FreeRequest
  <2>1. UNCHANGED lost /\ pool' = [pool EXCEPT ![k] = Free(@, c)]
    BY <1>0, <1>11 DEF FreeRequest
  <2>2. InFrame(k) = {c} /\ c \in Busy(pool[k]) /\ WellFormed(pool[k])
        /\ c \notin lost[k] /\ c \notin InFlight(k)
    BY <1>5, <1>6, <1>11 DEF RequestsInv
  <2>3. /\ WellFormed(Free(pool[k], c)) /\ Busy(Free(pool[k], c)) = Busy(pool[k]) \ {c}
        /\ Free(pool[k], c).cell = [pool[k].cell EXCEPT ![c] = Blank]
    BY <2>2, FreePool
  <2>4. Free(pool[k], c) \in PoolType /\ pool[k].cell \in [Cells -> CellType]
    BY <2>2, <2>3 DEF WellFormed, PoolType
  <2>5. Types'
    BY <2>1, <2>4, <1>1, <1>2 DEF Types
  <2>6. pool'[k] = Free(pool[k], c) /\ \A j \in Pools : j # k => pool'[j] = pool[j]
    BY <2>1, <1>2, <1>4 DEF Types
  <2>7. \A f \in flight : f.pool = k => f.cell \in Cells /\ f.cell # c
    BY <2>2, <1>2 DEF InFlight, Types, RequestType
  <2>8. RequestsInv(k)'
    <3>1. \A f \in flight : f.pool = k => pool'[k].cell[f.cell] = pool[k].cell[f.cell]
      BY <2>3, <2>4, <2>6, <2>7
    <3>2. WellFormed(pool[k])' /\ Busy(pool[k])' = Busy(pool[k]) \ {c}
      BY <2>3, <2>6 DEF WellFormed, Busy
    <3> QED BY <3>1, <3>2, <2>1, <2>2, <1>1, <1>5, <1>6, <1>9 DEF RequestsInv
  <2>9. ASSUME NEW j \in RequestPools PROVE RequestsInv(j)'
    <3>1. CASE j # k
      <4>1. RequestsInv(j) /\ pool'[j] = pool[j] /\ InFrame(j)' = InFrame(j)
        BY <3>1, <2>6, <1>6, PoolNames DEF UvInv
      <4> QED BY <4>1, <2>1, <1>1, RequestsKept
    <3> QED BY <3>1, <2>8
  <2>10. \A j \in HandlePools : pool'[j] = pool[j] /\ lost'[j] = lost[j]
    BY <2>1, <2>6, <1>4, PoolNames
  <2> QED BY <2>5, <2>9, <2>10, <1>1, <1>7, <1>8, HandlesKept DEF UvInv
<1> QED BY <1>10, <1>11, <1>1

LEMMA RequestOps ==
  ASSUME UvConstants, UvInv, NEW p \in Procs, RequestOp(p), UNCHANGED <<handle, want>>
  PROVE  UvInv'
<1> DEFINE R(k, cb) == \E n \in Nat : \E refused : Request(k, cb, p, n, "never", refused)
           H(cb) == \E refused : \/ Request("heap", cb, p, 0, "before", refused)
                                 \/ Request("heap", cb, p, 0, "after", refused)
<1>1. ASSUME NEW k \in RequestPools \ {"heap"}, NEW cb \in CallbacksOf(k), R(k, cb) PROVE UvInv'
  BY <1>1, RequestStep
<1>2. ASSUME NEW cb \in CallbacksOf("heap"), H(cb) PROVE UvInv'
  BY <1>2, RequestStep DEF RequestPools
<1>3. \/ \E cb \in CallbacksOf("fs") : R("fs", cb)
      \/ \E cb \in CallbacksOf("write") : R("write", cb)
      \/ \E cb \in CallbacksOf("shutdown") : R("shutdown", cb)
      \/ \E cb \in CallbacksOf("heap") : H(cb)
  <2> DEFINE Ok == \/ \E cb \in CallbacksOf("fs") : R("fs", cb)
                   \/ \E cb \in CallbacksOf("write") : R("write", cb)
                   \/ \E cb \in CallbacksOf("shutdown") : R("shutdown", cb)
                   \/ \E cb \in CallbacksOf("heap") : H(cb)
  <2>1. CallbacksOf("fs") = {"fs", "rw", "rw2", "rw3", "open", "open4", "fstat_vec"}
        /\ CallbacksOf("write") = {"write"} /\ CallbacksOf("shutdown") = {"shutdown"}
        /\ CallbacksOf("heap") = {"fstat", "readlink", "getaddrinfo", "connect", "udp_send"}
    BY DEF CallbacksOf
  <2>2. ASSUME NEW op \in Wrapped, BglUvFsWrapper(op, p) PROVE Ok
    BY <2>1, <2>2 DEF BglUvFsWrapper
  <2>3. BglUvFsOpen(p) \/ BglUvFsOpen4(p) \/ BglUvFsClose2(p) => Ok
    BY <2>1 DEF BglUvFsOpen, BglUvFsOpen4, BglUvFsClose2
  <2>4. BglUvFsWrite(p) \/ BglUvFsWrite2(p) \/ BglUvFsWrite3(p) => Ok
    BY <2>1 DEF BglUvFsWrite, BglUvFsWrite2, BglUvFsWrite3
  <2>5. BglUvFsRead(p) \/ BglUvFsRead2(p) \/ BglUvFsRead3(p) => Ok
    BY <2>1 DEF BglUvFsRead, BglUvFsRead2, BglUvFsRead3
  <2>6. BglUvFsFstat(p) \/ BglUvFsLstat(p) \/ BglUvFsStat(p) => Ok
    BY <2>1 DEF BglUvFsFstat, BglUvFsLstat, BglUvFsStat
  <2>7. BglUvFsReadlink(p) \/ BglUvGetaddrinfo(p) \/ BglUvTcpConnectX(p) => Ok
    BY <2>1 DEF BglUvFsReadlink, BglUvGetaddrinfo, BglUvTcpConnectX
  <2>8. BglUvPipeConnect(p) \/ BglUvUdpSend(p) \/ BglUvShutdown(p) => Ok
    BY <2>1 DEF BglUvPipeConnect, BglUvUdpSend, BglUvShutdown
  <2>9. ASSUME NEW n \in {0, 5, 6}, BglUvWrite(p, n) \/ BglUvWrite2(p, n) PROVE Ok
    BY <2>1, <2>9 DEF BglUvWrite, BglUvWrite2
  <2> QED BY <2>2, <2>3, <2>4, <2>5, <2>6, <2>7, <2>8, <2>9 DEF RequestOp
<1>4. {"fs", "write", "shutdown"} \subseteq RequestPools \ {"heap"}
  BY DEF RequestPools
<1> QED BY <1>1, <1>2, <1>3, <1>4

LEMMA RequestCallbackSteps ==
  ASSUME UvConstants, UvInv, NEW f \in flight, RequestCb(f), UNCHANGED <<handle, want>>
  PROVE  UvInv'
<1>1. f.pool \in RequestPools /\ f.cb \in CallbacksOf(f.pool)
  BY DEF UvInv, Types, RequestType, RequestsInv
<1>2. f.pool = "heap" <=> f.cb \in {"fstat", "readlink", "getaddrinfo", "connect", "udp_send"}
  BY <1>1 DEF CallbacksOf, RequestPools
<1>3. BglUvFsCb(f) \/ BglUvFsRwCb(f) \/ BglUvFsOpenCb(f) \/ BglUvFsOpen4Cb(f)
      \/ BglUvFsFstatVecCb(f) \/ BglUvShutdownCb(f) => UvInv'
  BY <1>2, CallStep DEF BglUvFsCb, BglUvFsRwCb, BglUvFsOpenCb, BglUvFsOpen4Cb, BglUvFsFstatVecCb,
     BglUvShutdownCb
<1>4. BglUvFsFstatCb(f) \/ BglUvFsReadlinkCb(f) \/ BglUvGetaddrinfoCb(f) \/ BglConnectCb(f)
      \/ BglUvUdpSendCb(f) => UvInv'
  BY <1>2, CallStep DEF BglUvFsFstatCb, BglUvFsReadlinkCb, BglUvGetaddrinfoCb, BglConnectCb,
     BglUvUdpSendCb
<1>5. ASSUME BglUvWriteCb(f) PROVE UvInv'
  <2>1. CASE Len(f.args) <= 5
    BY <1>2, <1>5, <2>1, CallStep DEF BglUvWriteCb
  <2>2. CASE ~ (Len(f.args) <= 5)
    BY <1>5, <2>2, WriteLost DEF BglUvWriteCb
  <2> QED BY <2>1, <2>2
<1> QED BY <1>3, <1>4, <1>5 DEF RequestCb
-----------------------------------------------------------------------------
(* Handles.                                                                *)

LEMMA CrashKept ==
  ASSUME UvInv, NEW o \in Objects, \A x \in Objects \ {o} : handle'[x] = handle[x],
         handle[o].bare => handle'[o].bare,
         UNCHANGED crash \/ \E y \in Objects : handle[y].bare
  PROVE  CrashInv'
BY DEF UvInv, CrashInv

(* The data of an object stays what it is.                                 *)
DataKept(x) ==
  LET k == PoolOf(x)
  IN /\ data'[x] = data[x]
     /\ data[x] # 0 => /\ data[x] \in Busy(pool'[k])
                       /\ pool'[k].cell[data[x]] = pool[k].cell[data[x]]

LEMMA HandleStep ==
  ASSUME UvInv, NEW o \in Objects, Types', FrameInv', \A k \in HandlePools : CellsInv(k)',
         ObjectInv(o)', \A x \in Objects \ {o} : DataKept(x) /\ handle'[x] = handle[x] /\ want'[x] = want[x],
         \A k \in RequestPools : pool'[k] = pool[k], UNCHANGED requests, CrashInv',
         \A k : InFrame(k)' = InFrame(k)
  PROVE  UvInv'
<1>1. UNCHANGED <<lost, marks, shared, flight>>
  BY DEF requests
<1>2. ASSUME NEW k \in RequestPools PROVE RequestsInv(k)'
  <2>1. RequestsInv(k) /\ pool'[k] = pool[k] /\ InFrame(k)' = InFrame(k)
    BY DEF UvInv
  <2> QED BY <2>1, <1>1, RequestsKept
<1>3. MarksInv'
  BY <1>1 DEF UvInv, MarksInv
<1>4. ASSUME NEW x \in Objects PROVE ObjectInv(x)'
  <2>1. CASE x # o
    <3>1. ObjectInv(x) /\ DataKept(x) /\ handle'[x] = handle[x] /\ want'[x] = want[x]
      BY <2>1 DEF UvInv
    <3>2. CASE data[x] = 0
      BY <3>1, <3>2 DEF ObjectInv, ObjectRight, DataKept, PoolOf
    <3>3. CASE data[x] # 0
      BY <3>1, <3>3 DEF ObjectInv, DataKept, Busy, PoolOf
    <3> QED BY <3>2, <3>3
  <2> QED BY <2>1
<1> QED BY <1>2, <1>3, <1>4 DEF UvInv

LEMMA GetDataFacts ==
  ASSUME UvConstants, UvInv, NEW o \in Objects, HasRoom(PoolOf(o))
  PROVE  LET S == pool[PoolOf(o)]
             G == GetData(o)
             c == CellOf(o)
         IN /\ WellFormed(G) /\ c \in Cells /\ Busy(G) = Busy(S) \cup {c}
            /\ G.cell \in [Cells -> CellType]
            /\ G.cell[c].obj = o /\ G.cell[c].state # "FREE"
            /\ \A x \in Cells : x # c => G.cell[x] = S.cell[x]
            /\ data[o] # 0 => c = data[o] /\ G.cell[c] = S.cell[data[o]]
            /\ data[o] = 0 => c \notin Busy(S) /\ G.cell[c] = Fresh(o)
<1> DEFINE k == PoolOf(o)
           S == pool[k]
           G == GetData(o)
           c == CellOf(o)
<1>1. k \in HandlePools /\ k \in Pools /\ CellsInv(k) /\ ObjectInv(o) /\ Types
  BY PoolNames DEF UvInv
<1>2. WellFormed(S) /\ UvExtendPool(S).size <= MaxCells
  BY <1>1 DEF CellsInv, HasRoom
<1>3. S.cell \in [Cells -> CellType] /\ S.size \in 0 .. MaxCells /\ MaxCells \in Nat
  BY <1>2 DEF WellFormed, PoolType, UvConstants
<1>4. CASE data[o] # 0
  <2>1. c = data[o] /\ G = S
    BY <1>4 DEF CellOf, GetData
  <2>2. c \in Busy(S) /\ S.cell[c].obj = o
    BY <1>1, <1>4, <2>1 DEF ObjectInv
  <2>3. c \in Cells
    BY <2>2, <1>3 DEF Busy, Cells
  <2>4. S.cell[c].state # "FREE"
    BY <2>2, <1>1 DEF CellsInv
  <2> HIDE DEF c, G, S
  <2>5. Busy(S) = Busy(S) \cup {c}
    BY <2>2
  <2> QED BY <2>1, <2>2, <2>3, <2>4, <2>5, <1>2, <1>3, <1>4 DEF S, G, c
<1>5. CASE data[o] = 0
  <2>1. c = Taken(S) /\ G = Alloc(S, Fresh(o))
    BY <1>5 DEF CellOf, GetData
  <2>2. Fresh(o) \in CellType /\ Fresh(o).obj = o /\ Fresh(o).state = "LOCKED"
    <3>1. Blank \in CellType
      BY DEF Blank, CellType, Given, Args, States
    <3>2. Fresh(o) = [Blank EXCEPT !.obj = o, !.state = "LOCKED"]
      BY DEF Fresh
    <3> QED BY <3>1, <3>2 DEF CellType, States
  <2>3. /\ c \in Cells /\ c \notin Busy(S) /\ WellFormed(G) /\ Busy(G) = Busy(S) \cup {c}
        /\ G.cell = [S.cell EXCEPT ![c] = Fresh(o)]
    BY <2>1, <2>2, <1>2, AllocPool
  <2>4. G.cell \in [Cells -> CellType]
    BY <2>3 DEF WellFormed, PoolType
  <2> HIDE DEF c, G, S
  <2>5. G.cell[c] = Fresh(o) /\ \A x \in Cells : x # c => G.cell[x] = S.cell[x]
    BY <2>3, <1>3
  <2> QED BY <2>2, <2>3, <2>4, <2>5, <1>5 DEF S, G, c
<1> QED BY <1>4, <1>5

LEMMA SetDataStep ==
  ASSUME UvConstants, UvInv, NEW o \in Objects, HasRoom(PoolOf(o)), NEW d \in CellType,
         d.obj = o, d.state = Content(o).state, SetData(o, d), UNCHANGED lost
  PROVE  /\ pool' \in [Pools -> PoolType] /\ data' \in [Objects -> 0 .. MaxCells]
         /\ \A k \in RequestPools : pool'[k] = pool[k]
         /\ \A k \in HandlePools : CellsInv(k)'
         /\ data'[o] # 0 /\ data'[o] \in Busy(pool'[PoolOf(o)])
         /\ pool'[PoolOf(o)].cell[data'[o]] = d
         /\ \A x \in Objects \ {o} : DataKept(x)
<1> DEFINE k == PoolOf(o)
           S == pool[k]
           G == GetData(o)
           c == CellOf(o)
           T == [G EXCEPT !.cell[c] = d]
<1>1. k \in HandlePools /\ k \in Pools /\ CellsInv(k) /\ ObjectInv(o) /\ Types /\ k \notin RequestPools
  BY PoolNames DEF UvInv
<1>2. /\ WellFormed(G) /\ c \in Cells /\ Busy(G) = Busy(S) \cup {c}
      /\ G.cell \in [Cells -> CellType]
      /\ G.cell[c].state # "FREE"
      /\ \A x \in Cells : x # c => G.cell[x] = S.cell[x]
      /\ data[o] # 0 => c = data[o]
      /\ data[o] = 0 => c \notin Busy(S)
  BY GetDataFacts
<1>3. WellFormed(T) /\ Busy(T) = Busy(G) /\ T.cell = [G.cell EXCEPT ![c] = d]
  BY <1>2, StorePool
<1>4. pool' = [pool EXCEPT ![k] = T] /\ data' = [data EXCEPT ![o] = c]
  BY DEF SetData
<1>5. d.state # "FREE"
  BY <1>2 DEF Content
<1>6. c # 0 /\ c \in 0 .. MaxCells
  BY <1>2 DEF Cells, UvConstants
<1>7. CellsInv(k) /\ ObjectInv(o)
  BY <1>1
<1> HIDE DEF T, c, G
<1>8. pool' \in [Pools -> PoolType] /\ data' \in [Objects -> 0 .. MaxCells]
  BY <1>1, <1>3, <1>4, <1>6 DEF Types, WellFormed
<1>9. pool'[k] = T /\ (\A j \in Pools : j # k => pool'[j] = pool[j])
      /\ data'[o] = c /\ (\A x \in Objects : x # o => data'[x] = data[x])
  BY <1>1, <1>4 DEF Types
<1>10. T.cell[c] = d /\ \A x \in Cells : x # c => T.cell[x] = S.cell[x]
  BY <1>2, <1>3
<1>11. Busy(T) = Busy(S) \cup {c} /\ Busy(T) \subseteq Cells
  <2>1. T \in PoolType
    BY <1>3 DEF WellFormed
  <2>2. T.size \in 0 .. MaxCells /\ MaxCells \in Nat
    BY <2>1 DEF PoolType, UvConstants
  <2> QED BY <1>2, <1>3, <2>2 DEF Busy, Cells
<1>12. ASSUME NEW x \in Objects, x # o, data[x] # 0, PoolOf(x) = k
       PROVE  data[x] \in Busy(S) /\ data[x] # c
  <2>1. data[x] \in Busy(S) /\ S.cell[data[x]].obj = x
    BY <1>12 DEF UvInv, ObjectInv
  <2>2. CASE data[o] # 0
    <3>1. S.cell[data[o]].obj = o
      BY <2>2, <1>7 DEF ObjectInv
    <3> QED BY <2>1, <2>2, <3>1, <1>2, <1>12
  <2>3. CASE data[o] = 0
    BY <2>1, <2>3, <1>2
  <2> QED BY <2>1, <2>2, <2>3
<1>13. ASSUME NEW x \in Objects \ {o} PROVE DataKept(x)
  <2>1. CASE PoolOf(x) = k
    BY <2>1, <1>9, <1>10, <1>11, <1>12 DEF DataKept
  <2>2. CASE PoolOf(x) # k
    <3>1. PoolOf(x) \in Pools /\ pool'[PoolOf(x)] = pool[PoolOf(x)]
      BY <2>2, <1>9, PoolNames
    <3>2. ObjectInv(x)
      BY DEF UvInv
    <3> QED BY <3>1, <3>2, <1>9 DEF DataKept, ObjectInv
  <2> QED BY <2>1, <2>2
<1>14. CellsInv(k)'
  <2>1. ASSUME NEW x \in Busy(T)
        PROVE  /\ T.cell[x].obj \in Objects /\ PoolOf(T.cell[x].obj) = k
               /\ data'[T.cell[x].obj] = x /\ T.cell[x].state # "FREE"
    <3>1. CASE x = c
      BY <3>1, <1>5, <1>9, <1>10
    <3>2. CASE x # c
      <4>1. x \in Busy(S) /\ x \in Cells /\ T.cell[x] = S.cell[x]
        BY <2>1, <3>2, <1>10, <1>11
      <4>2. LET y == S.cell[x] IN y.obj \in Objects /\ PoolOf(y.obj) = k /\ data[y.obj] = x
                                  /\ y.state # "FREE"
        BY <4>1, <1>7 DEF CellsInv
      <4>3. S.cell[x].obj # o
        <5>1. SUFFICES ASSUME S.cell[x].obj = o PROVE FALSE
          OBVIOUS
        <5>2. data[o] = x /\ x # 0
          BY <5>1, <4>2, <4>1 DEF Cells
        <5> QED BY <5>2, <1>2, <3>2
      <4> QED BY <4>1, <4>2, <4>3, <1>9
    <3> QED BY <3>1, <3>2
  <2>2. ASSUME NEW x \in Cells \ Busy(T) PROVE T.cell[x].obj = None /\ T.cell[x].state = "FREE"
    BY <2>2, <1>7, <1>10, <1>11 DEF CellsInv
  <2>3. lost'[k] = {}
    BY <1>7 DEF CellsInv
  <2> QED BY <2>1, <2>2, <2>3, <1>3, <1>9, ZenonT(40) DEF CellsInv, WellFormed, Busy, PoolOf
<1>15. ASSUME NEW j \in HandlePools PROVE CellsInv(j)'
  <2>1. CASE j # k
    <3>1. CellsInv(j) /\ pool'[j] = pool[j] /\ lost'[j] = lost[j]
      BY <2>1, <1>9, PoolNames DEF UvInv
    <3>2. ASSUME NEW x \in Busy(pool[j])
          PROVE  LET y == pool[j].cell[x] IN data'[y.obj] = data[y.obj]
      BY <2>1, <3>1, <1>9 DEF CellsInv
    <3> QED BY <3>1, <3>2 DEF CellsInv, WellFormed, Busy, PoolOf
  <2> QED BY <2>1, <1>14
<1> QED BY <1>1, <1>6, <1>8, <1>9, <1>10, <1>11, <1>13, <1>15, PoolNames

(* Cell c of S is given back; S is the pool of its object o, which may     *)
(* just have taken c.                                                      *)
LEMMA FreeDataStep ==
  ASSUME UvConstants, UvInv, NEW o \in Objects, NEW S, NEW c \in Cells, WellFormed(S),
         Busy(S) = Busy(pool[PoolOf(o)]) \cup {c},
         S.cell[c].obj = o, \A x \in Cells : x # c => S.cell[x] = pool[PoolOf(o)].cell[x],
         data[o] # 0 => c = data[o], data[o] = 0 => c \notin Busy(pool[PoolOf(o)]),
         FreeData(PoolOf(o), S, data, c), UNCHANGED lost
  PROVE  /\ pool' \in [Pools -> PoolType] /\ data' \in [Objects -> 0 .. MaxCells]
         /\ UNCHANGED crash
         /\ \A k \in RequestPools : pool'[k] = pool[k]
         /\ \A k \in HandlePools : CellsInv(k)'
         /\ data'[o] = 0
         /\ \A x \in Objects \ {o} : DataKept(x)
<1> DEFINE k == PoolOf(o)
           F == Free(S, c)
<1>1. k \in HandlePools /\ k \in Pools /\ CellsInv(k) /\ Types /\ k \notin RequestPools
  BY PoolNames DEF UvInv
<1>2. c \in Busy(S)
  OBVIOUS
<1>3. WellFormed(F) /\ Busy(F) = Busy(S) \ {c} /\ F.cell = [S.cell EXCEPT ![c] = Blank]
  BY <1>2, FreePool
<1>4. o # None
  BY DEF UvConstants
<1>5. UNCHANGED crash /\ pool' = [pool EXCEPT ![k] = F] /\ data' = [data EXCEPT ![o] = 0]
  BY <1>4 DEF FreeData
<1>6. S.cell \in [Cells -> CellType]
  BY DEF WellFormed, PoolType
<1> HIDE DEF F
<1>7. pool' \in [Pools -> PoolType] /\ data' \in [Objects -> 0 .. MaxCells]
  BY <1>1, <1>3, <1>5 DEF Types, WellFormed, UvConstants
<1>8. pool'[k] = F /\ (\A j \in Pools : j # k => pool'[j] = pool[j])
      /\ data'[o] = 0 /\ (\A x \in Objects : x # o => data'[x] = data[x])
  BY <1>1, <1>5 DEF Types
<1>9. F.cell[c] = Blank /\ \A x \in Cells : x # c => F.cell[x] = pool[k].cell[x]
  BY <1>3, <1>6
<1>10. Busy(F) = Busy(pool[k]) \ {c} /\ Busy(F) \subseteq Cells
  <2>1. F \in PoolType
    BY <1>3 DEF WellFormed
  <2>2. F.size \in 0 .. MaxCells /\ MaxCells \in Nat
    BY <2>1 DEF PoolType, UvConstants
  <2>3. Busy(F) = Busy(pool[k]) \ {c}
    BY <1>3
  <2> QED BY <2>2, <2>3 DEF Busy, Cells
<1>11. ASSUME NEW x \in Objects, x # o, data[x] # 0, PoolOf(x) = k
       PROVE  data[x] \in Busy(pool[k]) /\ data[x] # c
  <2>1. data[x] \in Busy(pool[k]) /\ pool[k].cell[data[x]].obj = x
    BY <1>11 DEF UvInv, ObjectInv
  <2>2. CASE data[o] # 0
    <3>1. pool[k].cell[data[o]].obj = o
      BY <2>2 DEF UvInv, ObjectInv
    <3> QED BY <2>1, <2>2, <3>1, <1>11
  <2>3. CASE data[o] = 0
    BY <2>1, <2>3
  <2> QED BY <2>1, <2>2, <2>3
<1>12. ASSUME NEW x \in Objects \ {o} PROVE DataKept(x)
  <2>1. CASE PoolOf(x) = k
    BY <2>1, <1>8, <1>9, <1>10, <1>11 DEF DataKept
  <2>2. CASE PoolOf(x) # k
    <3>1. PoolOf(x) \in Pools /\ pool'[PoolOf(x)] = pool[PoolOf(x)]
      BY <2>2, <1>8, PoolNames
    <3>2. ObjectInv(x)
      BY DEF UvInv
    <3> QED BY <3>1, <3>2, <1>8 DEF DataKept, ObjectInv
  <2> QED BY <2>1, <2>2
<1>13. CellsInv(k)'
  <2>1. ASSUME NEW x \in Busy(F)
        PROVE  /\ F.cell[x].obj \in Objects /\ PoolOf(F.cell[x].obj) = k
               /\ data'[F.cell[x].obj] = x /\ F.cell[x].state # "FREE"
    <3>1. x \in Busy(pool[k]) /\ x \in Cells /\ x # c /\ F.cell[x] = pool[k].cell[x]
      BY <2>1, <1>9, <1>10
    <3>2. LET y == pool[k].cell[x] IN y.obj \in Objects /\ PoolOf(y.obj) = k /\ data[y.obj] = x
                                      /\ y.state # "FREE"
      BY <3>1, <1>1 DEF CellsInv
    <3>3. pool[k].cell[x].obj # o
      <4>1. SUFFICES ASSUME pool[k].cell[x].obj = o PROVE FALSE
        OBVIOUS
      <4>2. data[o] = x /\ x # 0
        BY <4>1, <3>2, <3>1 DEF Cells
      <4> QED BY <4>2, <3>1
    <3> QED BY <3>1, <3>2, <3>3, <1>8
  <2>2. ASSUME NEW x \in Cells \ Busy(F) PROVE F.cell[x].obj = None /\ F.cell[x].state = "FREE"
    <3>1. CASE x = c
      BY <3>1, <1>9 DEF Blank
    <3>2. CASE x # c
      BY <3>2, <1>1, <1>9, <1>10 DEF CellsInv
    <3> QED BY <3>1, <3>2
  <2>3. lost'[k] = {}
    BY <1>1 DEF CellsInv
  <2>4. WellFormed(pool'[k]) /\ Busy(pool'[k]) = Busy(F)
    BY <1>3, <1>8
  <2> QED BY <2>1, <2>2, <2>3, <2>4, <1>8 DEF CellsInv, WellFormed, Busy, PoolOf
<1>14. ASSUME NEW j \in HandlePools PROVE CellsInv(j)'
  <2>1. CASE j # k
    <3>1. CellsInv(j) /\ pool'[j] = pool[j] /\ lost'[j] = lost[j]
      BY <2>1, <1>8, PoolNames DEF UvInv
    <3>2. ASSUME NEW x \in Busy(pool[j])
          PROVE  LET y == pool[j].cell[x] IN data'[y.obj] = data[y.obj]
      BY <2>1, <3>1, <1>8 DEF CellsInv
    <3> QED BY <3>1, <3>2 DEF CellsInv, WellFormed, Busy, PoolOf
  <2> QED BY <2>1, <1>13
<1> QED BY <1>1, <1>5, <1>7, <1>8, <1>12, <1>14, PoolNames

(* The same for the cell that an object has.                               *)
LEMMA FreeOwn ==
  ASSUME UvConstants, UvInv, NEW o \in Objects, data[o] # 0,
         FreeData(PoolOf(o), pool[PoolOf(o)], data, data[o]), UNCHANGED lost
  PROVE  /\ pool' \in [Pools -> PoolType] /\ data' \in [Objects -> 0 .. MaxCells]
         /\ UNCHANGED crash
         /\ \A k \in RequestPools : pool'[k] = pool[k]
         /\ \A k \in HandlePools : CellsInv(k)'
         /\ data'[o] = 0
         /\ \A x \in Objects \ {o} : DataKept(x)
<1>1. PoolOf(o) \in HandlePools /\ ObjectInv(o)
  BY PoolNames DEF UvInv
<1>2. WellFormed(pool[PoolOf(o)]) /\ data[o] \in Busy(pool[PoolOf(o)])
      /\ pool[PoolOf(o)].cell[data[o]].obj = o
  BY <1>1 DEF UvInv, CellsInv, ObjectInv
<1>3. pool[PoolOf(o)].size \in 0 .. MaxCells /\ MaxCells \in Nat
  BY <1>2 DEF WellFormed, PoolType, UvConstants
<1>4. data[o] \in Cells
  BY <1>2, <1>3 DEF Busy, Cells
<1>5. Busy(pool[PoolOf(o)]) = Busy(pool[PoolOf(o)]) \cup {data[o]}
  BY <1>2
<1> QED BY <1>2, <1>4, <1>5, FreeDataStep

(* The same for the cell that an object has or takes to give it back.      *)
LEMMA FreeGot ==
  ASSUME UvConstants, UvInv, NEW o \in Objects, HasRoom(PoolOf(o)),
         FreeData(PoolOf(o), GetData(o), data, CellOf(o)), UNCHANGED lost
  PROVE  /\ pool' \in [Pools -> PoolType] /\ data' \in [Objects -> 0 .. MaxCells]
         /\ UNCHANGED crash
         /\ \A k \in RequestPools : pool'[k] = pool[k]
         /\ \A k \in HandlePools : CellsInv(k)'
         /\ data'[o] = 0
         /\ \A x \in Objects \ {o} : DataKept(x)
BY GetDataFacts, FreeDataStep
-----------------------------------------------------------------------------
(* The operations of the program on a handle.                              *)

LEMMA ProgramFrame ==
  ASSUME UvInv, frame' = frame, NEW o \in Objects,
         \A x \in Objects \ {o} : DataKept(x) /\ handle'[x] = handle[x],
         handle[o].closing = "done" =>
           /\ handle'[o].closing = "done"
           /\ ~ handle'[o].bare => ~ handle[o].bare /\ (data[o] # 0 => data'[o] = data[o])
  PROVE  FrameInv' /\ \A k : InFrame(k)' = InFrame(k)
<1>1. \A k : InFrame(k)' = InFrame(k)
  BY DEF InFrame
<1>2. FrameInv
  BY DEF UvInv
<1>3. ASSUME frame.cb = "close" PROVE frame.obj \in Objects
  <2>1. frame \in {NoFrame} \cup RequestFrame \cup HandleFrame
    BY DEF UvInv, Types
  <2>2. frame # NoFrame /\ frame \notin RequestFrame
    BY <1>3 DEF NoFrame, RequestFrame, RequestCallbacks
  <2>3. frame \in HandleFrame
    BY <2>1, <2>2
  <2> QED BY <2>3 DEF HandleFrame
<1>4. ASSUME frame.cb = "close"
      PROVE  /\ handle'[frame.obj].closing = "done"
             /\ ~ handle'[frame.obj].bare => data'[frame.obj] = frame.cell
  <2>1. PICK x : x = frame.obj
    OBVIOUS
  <2>2. /\ x \in Objects /\ handle[x].closing = "done" /\ frame.cell # 0
        /\ ~ handle[x].bare => data[x] = frame.cell
    BY <1>2, <1>3, <1>4, <2>1 DEF FrameInv
  <2>3. CASE x = o
    BY <2>1, <2>2, <2>3
  <2>4. CASE x # o
    <3>1. handle'[x] = handle[x] /\ data'[x] = data[x]
      BY <2>2, <2>4 DEF DataKept
    <3> QED BY <3>1, <2>1, <2>2
  <2> QED BY <2>3, <2>4
<1> QED BY <1>1, <1>2, <1>4 DEF FrameInv, PoolOf

LEMMA ContentFacts ==
  ASSUME UvConstants, UvInv, NEW o \in Objects, Enters(o)
  PROVE  /\ HasRoom(PoolOf(o))
         /\ Content(o) \in CellType /\ Content(o).obj = o
         /\ Content(o).state = "CLOSING" => handle[o].closing = "done"
         /\ o \notin Plains => Agrees(Content(o), want[o])
         /\ data[o] # 0 => Content(o) = pool[PoolOf(o)].cell[data[o]] /\ CellOf(o) = data[o]
<1>1. HasRoom(PoolOf(o)) /\ ObjectInv(o)
  BY DEF Enters, UvInv
<1>2. /\ CellOf(o) \in Cells /\ GetData(o).cell \in [Cells -> CellType]
      /\ Content(o).obj = o
      /\ data[o] # 0 => Content(o) = pool[PoolOf(o)].cell[data[o]] /\ CellOf(o) = data[o]
      /\ data[o] = 0 => Content(o) = Fresh(o)
  BY <1>1, GetDataFacts DEF Content
<1>3. Content(o) \in CellType
  BY <1>2 DEF Content
<1>4. /\ Content(o).state = "CLOSING" => handle[o].closing = "done"
      /\ o \notin Plains => Agrees(Content(o), want[o])
  <2>1. CASE data[o] = 0
    BY <2>1, <1>2 DEF Fresh, Blank, Agrees
  <2>2. CASE data[o] # 0
    BY <2>2, <1>1, <1>2 DEF ObjectInv, ObjectRight
  <2> QED BY <2>1, <2>2
<1> QED BY <1>1, <1>2, <1>3, <1>4

(* An operation that writes d into the data of o.                          *)
LEMMA SetOp ==
  ASSUME UvConstants, UvInv, NEW o \in Objects, Enters(o), NEW d \in CellType, d.obj = o,
         d.state = Content(o).state, SetData(o, d), UNCHANGED <<frame, crash, requests>>,
         handle' \in [Objects -> HandleType], want' \in [Objects -> WantType],
         \A x \in Objects \ {o} : handle'[x] = handle[x] /\ want'[x] = want[x],
         handle'[o].bare = handle[o].bare, Agrees(d, want'[o]),
         handle'[o].active => d.proc = want'[o].proc,
         handle'[o].listening => o \in Streams,
         handle'[o].closing = "asked" /\ ~ handle'[o].bare => d.close = want'[o].close,
         handle'[o].closing # "no" => /\ ~ handle'[o].active /\ ~ handle'[o].listening
                                      /\ o \notin Timers \cup Idles,
         handle[o].closing = "done" => handle'[o].closing = "done"
  PROVE  UvInv'
<1>1. /\ HasRoom(PoolOf(o)) /\ UNCHANGED lost /\ ObjectInv(o)
      /\ d.state = "CLOSING" => handle'[o].closing = "done"
      /\ data[o] # 0 => CellOf(o) = data[o]
  BY ContentFacts DEF requests, UvInv
<1>2. /\ pool' \in [Pools -> PoolType] /\ data' \in [Objects -> 0 .. MaxCells]
      /\ \A k \in RequestPools : pool'[k] = pool[k]
      /\ \A k \in HandlePools : CellsInv(k)'
      /\ data'[o] # 0 /\ data'[o] \in Busy(pool'[PoolOf(o)])
      /\ pool'[PoolOf(o)].cell[data'[o]] = d
      /\ \A x \in Objects \ {o} : DataKept(x)
  BY <1>1, SetDataStep
<1>3. Types'
  BY <1>2 DEF UvInv, Types, requests
<1>4. data[o] # 0 => data'[o] = data[o]
  BY <1>1 DEF SetData, UvInv, Types
<1>5. FrameInv' /\ \A k : InFrame(k)' = InFrame(k)
  BY <1>2, <1>4, ProgramFrame
<1>6. handle[o].bare => o \notin Timers \cup Idles
  BY <1>1 DEF ObjectInv, ObjectRight
<1>7. ObjectRight(o, data'[o], d, handle'[o], want'[o])
  BY <1>1, <1>2, <1>6 DEF ObjectRight
<1>8. ObjectInv(o)'
  <2>1. PICK h, w : h = handle'[o] /\ w = want'[o]
    OBVIOUS
  <2>2. ObjectRight(o, data'[o], d, h, w) /\ PoolOf(o)' = PoolOf(o)
    BY <1>7, <2>1 DEF PoolOf
  <2> QED BY <1>2, <2>1, <2>2 DEF ObjectInv, ObjectRight, PoolOf, Busy
<1>9. CrashInv'
  BY CrashKept
<1> QED BY <1>2, <1>3, <1>5, <1>8, <1>9, HandleStep

(* An operation that gives the data of o back.                             *)
LEMMA FreeOp ==
  ASSUME UvConstants, UvInv, NEW o \in Objects, Enters(o), UNCHANGED <<frame, requests>>,
         FreeData(PoolOf(o), GetData(o), data, CellOf(o)),
         handle' \in [Objects -> HandleType], want' \in [Objects -> WantType],
         \A x \in Objects \ {o} : handle'[x] = handle[x] /\ want'[x] = want[x],
         handle[o].bare => handle'[o].bare,
         handle'[o].active \/ handle'[o].listening \/ handle'[o].closing # "no" => handle'[o].bare,
         handle'[o].bare => o \notin Timers \cup Idles,
         handle'[o].listening => o \in Streams,
         handle'[o].closing # "no" => ~ handle'[o].active /\ ~ handle'[o].listening,
         handle'[o].closing = handle[o].closing
  PROVE  UvInv'
<1>1. HasRoom(PoolOf(o)) /\ UNCHANGED lost
  BY ContentFacts DEF requests
<1>2. /\ pool' \in [Pools -> PoolType] /\ data' \in [Objects -> 0 .. MaxCells]
      /\ UNCHANGED crash
      /\ \A k \in RequestPools : pool'[k] = pool[k]
      /\ \A k \in HandlePools : CellsInv(k)'
      /\ data'[o] = 0
      /\ \A x \in Objects \ {o} : DataKept(x)
  BY <1>1, FreeGot
<1>3. Types'
  BY <1>2 DEF UvInv, Types, requests
<1>4. FrameInv' /\ \A k : InFrame(k)' = InFrame(k)
  BY <1>2, ProgramFrame
<1>5. ObjectInv(o)'
  BY <1>2 DEF ObjectInv, ObjectRight
<1>6. CrashInv'
  BY <1>2, CrashKept
<1> QED BY <1>2, <1>3, <1>4, <1>5, <1>6, HandleStep

(* Read, receive, timer and idle start.                                    *)
LEMMA StartOp ==
  ASSUME UvConstants, UvInv, NEW o \in Objects, o \notin Plains, NEW p \in Procs, Enters(o),
         SetData(o, [Content(o) EXCEPT !.proc = p]), UNCHANGED <<frame, crash, requests>>,
         NEW h \in HandleType, handle' = [handle EXCEPT ![o] = h],
         h.listening = handle[o].listening, h.closing = handle[o].closing, h.bare = handle[o].bare,
         h.active => h.closing = "no", want' = [want EXCEPT ![o].proc = p]
  PROVE  UvInv'
<1> DEFINE d == [Content(o) EXCEPT !.proc = p]
<1>1. Types /\ ObjectInv(o)
  BY DEF UvInv
<1>2. handle \in [Objects -> HandleType] /\ want \in [Objects -> WantType] /\ p \in Given
  BY <1>1 DEF Types, Given
<1>3. /\ Content(o) \in CellType /\ Content(o).obj = o /\ Agrees(Content(o), want[o])
      /\ data[o] # 0 => Content(o) = pool[PoolOf(o)].cell[data[o]]
  BY ContentFacts
<1>4. d \in CellType /\ d.obj = o /\ d.state = Content(o).state /\ d.proc = p
      /\ d.listen = Content(o).listen /\ d.close = Content(o).close
  BY <1>2, <1>3 DEF CellType
<1>5. /\ handle' \in [Objects -> HandleType] /\ want' \in [Objects -> WantType]
      /\ \A x \in Objects \ {o} : handle'[x] = handle[x] /\ want'[x] = want[x]
      /\ handle'[o] = h /\ want'[o].proc = p
      /\ want'[o].close = want[o].close /\ want'[o].listen = want[o].listen
  BY <1>2 DEF WantType
<1>6. ObjectRight(o, data[o], pool[PoolOf(o)].cell[data[o]], handle[o], want[o])
  BY <1>1 DEF ObjectInv
<1>7. handle'[o].closing = "asked" /\ ~ handle'[o].bare => d.close = want'[o].close
  BY <1>3, <1>4, <1>5, <1>6 DEF ObjectRight
<1>8. /\ handle'[o].closing # "no" => /\ ~ handle'[o].active /\ ~ handle'[o].listening
                                      /\ o \notin Timers \cup Idles
      /\ handle'[o].listening => o \in Streams
  BY <1>5, <1>6 DEF ObjectRight
<1>9. /\ SetData(o, d) /\ (handle'[o].active => d.proc = want'[o].proc)
      /\ Agrees(d, want'[o]) /\ handle'[o].bare = handle[o].bare
      /\ handle[o].closing = "done" => handle'[o].closing = "done"
  BY <1>3, <1>4, <1>5 DEF Agrees
<1> HIDE DEF d
<1> QED BY <1>4, <1>5, <1>7, <1>8, <1>9, SetOp

LEMMA StreamOps ==
  ASSUME UvConstants, UvInv, NEW o \in Streams \cup Sockets, NEW p \in Procs, StreamOp(o, p)
  PROVE  UvInv'
<1>1. Types /\ ObjectInv(o) /\ o \in Objects /\ o \notin Plains /\ o \notin Timers \cup Idles
      /\ PoolOf(o) = "stream"
  BY DEF UvInv, Objects, UvConstants, PoolOf
<1>2. handle \in [Objects -> HandleType] /\ want \in [Objects -> WantType] /\ p \in Given
      /\ None \in Given
  BY <1>1 DEF Types, Given
<1>3. /\ handle[o].closing # "no" => ~ handle[o].active /\ ~ handle[o].listening
      /\ handle[o].listening => o \in Streams
      /\ handle[o] \in HandleType /\ want[o] \in WantType
  BY <1>1, <1>2 DEF ObjectInv, ObjectRight
<1>4. ASSUME BglUvReadStart(o, p) \/ BglUvUdpRecvStart(o, p) PROVE UvInv'
  <2>1. PICK a \in BOOLEAN : /\ a => handle[o].closing = "no"
                             /\ handle' = [handle EXCEPT ![o].active = a]
    BY <1>4 DEF BglUvReadStart, BglUvUdpRecvStart
  <2> DEFINE h == [handle[o] EXCEPT !.active = a]
  <2>2. /\ Enters(o) /\ SetData(o, [Content(o) EXCEPT !.proc = p])
        /\ handle' = [handle EXCEPT ![o] = h]
        /\ want' = [want EXCEPT ![o].proc = p] /\ UNCHANGED <<frame, crash, requests>>
    BY <1>4, <2>1 DEF BglUvReadStart, BglUvUdpRecvStart
  <2>3. h \in HandleType /\ h.listening = handle[o].listening /\ h.closing = handle[o].closing
        /\ h.bare = handle[o].bare /\ (h.active => h.closing = "no")
    BY <1>3, <2>1 DEF HandleType
  <2> HIDE DEF h
  <2> QED BY <1>1, <2>2, <2>3, StartOp
<1>5. ASSUME Stop(o) PROVE UvInv'
  <2>1. PICK b : b = (handle[o].bare \/ handle[o].listening \/ handle[o].closing # "no")
    OBVIOUS
  <2>2. PICK h : h = [handle[o] EXCEPT !.active = FALSE, !.bare = b]
    OBVIOUS
  <2>3. /\ h \in HandleType /\ ~ h.active /\ h.listening = handle[o].listening
        /\ h.closing = handle[o].closing /\ h.bare = b
    BY <1>3, <2>1, <2>2 DEF HandleType
  <2>4. /\ Enters(o) /\ FreeData(PoolOf(o), GetData(o), data, CellOf(o))
        /\ handle' = [handle EXCEPT ![o] = h]
        /\ want' = [want EXCEPT ![o].proc = None] /\ UNCHANGED <<frame, requests>>
    BY <1>2, <1>5, <2>1, <2>2 DEF Stop
  <2>5. /\ handle' \in [Objects -> HandleType] /\ want' \in [Objects -> WantType]
        /\ \A x \in Objects \ {o} : handle'[x] = handle[x] /\ want'[x] = want[x]
        /\ handle'[o] = h
    BY <1>1, <1>2, <2>3, <2>4 DEF WantType
  <2> QED BY <1>1, <1>3, <2>1, <2>3, <2>4, <2>5, FreeOp
<1>6. ASSUME BglUvListen(o, p) PROVE UvInv'
  <2>1. o \in Streams /\ Enters(o) /\ UNCHANGED <<frame, requests>>
    BY <1>6 DEF BglUvListen
  <2>2. CASE /\ handle[o].closing = "no" /\ ~ handle[o].active
             /\ SetData(o, [Content(o) EXCEPT !.listen = p])
             /\ handle' = [handle EXCEPT ![o].listening = TRUE]
             /\ want' = [want EXCEPT ![o].listen = p]
             /\ UNCHANGED crash
    <3> DEFINE d == [Content(o) EXCEPT !.listen = p]
    <3>1. Content(o) \in CellType /\ Content(o).obj = o /\ Agrees(Content(o), want[o])
      BY <1>1, <2>1, ContentFacts
    <3>2. d \in CellType /\ d.obj = o /\ d.state = Content(o).state /\ d.listen = p
          /\ d.proc = Content(o).proc /\ d.close = Content(o).close
      BY <1>2, <3>1 DEF CellType
    <3>3. /\ want' \in [Objects -> WantType] /\ \A x \in Objects \ {o} : want'[x] = want[x]
          /\ want'[o].proc = want[o].proc /\ want'[o].close = want[o].close /\ want'[o].listen = p
      BY <1>1, <1>2, <2>2 DEF WantType
    <3>4. /\ handle' \in [Objects -> HandleType] /\ \A x \in Objects \ {o} : handle'[x] = handle[x]
          /\ ~ handle'[o].active /\ handle'[o].closing = "no" /\ handle'[o].bare = handle[o].bare
      BY <1>1, <1>2, <2>2, ZenonT(40) DEF HandleType
    <3>5. Agrees(d, want'[o])
      BY <3>1, <3>2, <3>3 DEF Agrees
    <3> HIDE DEF d
    <3> QED BY <1>1, <2>1, <2>2, <3>2, <3>3, <3>4, <3>5, SetOp DEF d
  <2>3. CASE /\ FreeData("stream", GetData(o), data, CellOf(o))
             /\ LET h == handle[o]
                IN handle' = [handle EXCEPT
                     ![o].bare = @ \/ h.active \/ h.listening \/ h.closing # "no"]
             /\ UNCHANGED want
    <3>1. PICK b : b = (handle[o].bare \/ handle[o].active \/ handle[o].listening
                        \/ handle[o].closing # "no")
      OBVIOUS
    <3>2. PICK h : h = [handle[o] EXCEPT !.bare = b]
      OBVIOUS
    <3>3. /\ h \in HandleType /\ h.active = handle[o].active /\ h.listening = handle[o].listening
          /\ h.closing = handle[o].closing /\ h.bare = b
      BY <1>3, <3>1, <3>2 DEF HandleType
    <3>4. handle' = [handle EXCEPT ![o] = h]
      BY <1>2, <2>3, <3>1, <3>2
    <3>5. /\ handle' \in [Objects -> HandleType] /\ want' \in [Objects -> WantType]
          /\ \A x \in Objects \ {o} : handle'[x] = handle[x] /\ want'[x] = want[x]
          /\ handle'[o] = h
      BY <1>1, <1>2, <2>3, <3>3, <3>4
    <3> QED BY <1>1, <1>3, <2>1, <2>3, <3>1, <3>3, <3>5, FreeOp
  <2> QED BY <1>6, <2>2, <2>3 DEF BglUvListen
<1>7. ASSUME NEW q \in Given, BglUvStreamClose(o, q) PROVE UvInv'
  <2> DEFINE d == [Content(o) EXCEPT !.proc = None, !.close = q]
  <2>1. /\ Enters(o) /\ handle[o].closing = "no" /\ SetData(o, d)
        /\ handle' = [handle EXCEPT ![o] = [@ EXCEPT !.active = FALSE, !.listening = FALSE,
                                            !.closing = "asked"]]
        /\ want' = [want EXCEPT ![o] = [@ EXCEPT !.proc = None, !.close = q]]
        /\ UNCHANGED <<frame, crash, requests>>
    BY <1>7 DEF BglUvStreamClose
  <2>2. Content(o) \in CellType /\ Content(o).obj = o /\ Agrees(Content(o), want[o])
    BY <1>1, <2>1, ContentFacts
  <2>3. d \in CellType /\ d.obj = o /\ d.state = Content(o).state /\ d.close = q
        /\ d.proc = None /\ d.listen = Content(o).listen
    BY <1>2, <2>2 DEF CellType
  <2>4. /\ handle' \in [Objects -> HandleType] /\ \A x \in Objects \ {o} : handle'[x] = handle[x]
        /\ ~ handle'[o].active /\ ~ handle'[o].listening /\ handle'[o].bare = handle[o].bare
    BY <1>1, <1>2, <2>1, ZenonT(40) DEF HandleType
  <2>5. /\ want' \in [Objects -> WantType] /\ \A x \in Objects \ {o} : want'[x] = want[x]
        /\ want'[o].close = q /\ want'[o].listen = want[o].listen
    BY <1>1, <1>2, <2>1, ZenonT(40) DEF WantType
  <2>6. Agrees(d, want'[o])
    BY <2>2, <2>3, <2>5 DEF Agrees
  <2> HIDE DEF d
  <2> QED BY <1>1, <2>1, <2>3, <2>4, <2>5, <2>6, SetOp
<1> QED BY <1>2, <1>4, <1>5, <1>6, <1>7 DEF StreamOp, BglUvReadStop, BglUvUdpRecvStop

LEMMA WatcherOps ==
  ASSUME UvConstants, UvInv, NEW o \in Objects \ (Streams \cup Sockets), NEW p \in Procs,
         WatcherOp(o, p)
  PROVE  UvInv'
<1>1. Types /\ ObjectInv(o) /\ o \in Objects /\ PoolOf(o) = "watcher"
  BY DEF UvInv, PoolOf
<1>2. handle \in [Objects -> HandleType] /\ want \in [Objects -> WantType] /\ p \in Given
      /\ None \in Given
  BY <1>1 DEF Types, Given
<1>3. ASSUME o \in Timers \cup Idles
      PROVE  o \notin Plains /\ handle[o].closing = "no" /\ ~ handle[o].listening /\ ~ handle[o].bare
  BY <1>1, <1>3 DEF ObjectInv, ObjectRight, UvConstants
<1>4. ASSUME NEW repeat \in BOOLEAN, BglUvTimerStart(o, p, repeat) PROVE UvInv'
  <2> DEFINE h == [handle[o] EXCEPT !.active = TRUE, !.repeat = repeat]
  <2>1. /\ o \in Timers /\ Enters(o) /\ SetData(o, [Content(o) EXCEPT !.proc = p])
        /\ handle' = [handle EXCEPT ![o] = h]
        /\ want' = [want EXCEPT ![o].proc = p] /\ UNCHANGED <<frame, crash, requests>>
    BY <1>4 DEF BglUvTimerStart
  <2>2. h \in HandleType /\ h.listening = handle[o].listening /\ h.closing = handle[o].closing
        /\ h.bare = handle[o].bare
    BY <1>1, <1>2 DEF HandleType
  <2> HIDE DEF h
  <2> QED BY <1>1, <1>3, <2>1, <2>2, StartOp
<1>5. ASSUME BglUvIdleStart(o, p) PROVE UvInv'
  <2> DEFINE h == [handle[o] EXCEPT !.active = TRUE]
  <2>1. /\ o \in Idles /\ Enters(o) /\ SetData(o, [Content(o) EXCEPT !.proc = p])
        /\ handle' = [handle EXCEPT ![o] = h]
        /\ want' = [want EXCEPT ![o].proc = p] /\ UNCHANGED <<frame, crash, requests>>
    BY <1>5 DEF BglUvIdleStart
  <2>2. h \in HandleType /\ h.listening = handle[o].listening /\ h.closing = handle[o].closing
        /\ h.bare = handle[o].bare
    BY <1>1, <1>2 DEF HandleType
  <2> HIDE DEF h
  <2> QED BY <1>1, <1>3, <2>1, <2>2, StartOp
<1>6. ASSUME BglUvTimerStop(o) \/ BglUvIdleStop(o) PROVE UvInv'
  <2>1. /\ o \in Timers \cup Idles /\ Enters(o) /\ FreeData("watcher", GetData(o), data, CellOf(o))
        /\ handle' = [handle EXCEPT ![o].active = FALSE] /\ UNCHANGED <<frame, want, requests>>
    BY <1>6 DEF BglUvTimerStop, BglUvIdleStop
  <2>2. /\ handle' \in [Objects -> HandleType] /\ want' \in [Objects -> WantType]
        /\ \A x \in Objects \ {o} : handle'[x] = handle[x] /\ want'[x] = want[x]
        /\ ~ handle'[o].active /\ ~ handle'[o].listening /\ handle'[o].closing = "no"
        /\ ~ handle'[o].bare
    BY <1>1, <1>2, <1>3, <2>1 DEF HandleType
  <2> QED BY <1>1, <1>3, <2>1, <2>2, FreeOp
<1>7. ASSUME PlainStart(o, p) \/ (\E q \in Given : UvClose(o, q)) PROVE UvInv'
  <2>1. /\ o \in Plains /\ handle[o].closing = "no" /\ UNCHANGED <<pool, data, frame, crash, requests>>
        /\ \/ /\ handle' = [handle EXCEPT ![o].active = TRUE]
              /\ want' = [want EXCEPT ![o].proc = p]
           \/ /\ handle' = [handle EXCEPT ![o] = [@ EXCEPT !.active = FALSE, !.closing = "asked"]]
              /\ \E q \in Given : want' = [want EXCEPT ![o].close = q]
    BY <1>7 DEF PlainStart, UvClose
  <2>2. /\ handle' \in [Objects -> HandleType] /\ want' \in [Objects -> WantType]
        /\ \A x \in Objects \ {o} : handle'[x] = handle[x] /\ want'[x] = want[x]
        /\ handle'[o].listening = handle[o].listening /\ handle'[o].bare = handle[o].bare
        /\ handle'[o].closing # "no" => handle'[o].closing = "asked" /\ ~ handle'[o].active
    <3>1. CASE /\ handle' = [handle EXCEPT ![o].active = TRUE]
               /\ want' = [want EXCEPT ![o].proc = p]
      <4>1. want' \in [Objects -> WantType] /\ \A x \in Objects \ {o} : want'[x] = want[x]
        BY <1>2, <3>1 DEF WantType
      <4>2. /\ handle' \in [Objects -> HandleType] /\ \A x \in Objects \ {o} : handle'[x] = handle[x]
            /\ handle'[o].listening = handle[o].listening /\ handle'[o].closing = handle[o].closing
            /\ handle'[o].bare = handle[o].bare
        BY <1>1, <1>2, <3>1 DEF HandleType
      <4> QED BY <4>1, <4>2, <2>1
    <3>2. CASE /\ handle' = [handle EXCEPT ![o] = [@ EXCEPT !.active = FALSE, !.closing = "asked"]]
               /\ \E q \in Given : want' = [want EXCEPT ![o].close = q]
      <4>0. PICK q \in Given : want' = [want EXCEPT ![o].close = q]
        BY <3>2
      <4>1. want' \in [Objects -> WantType] /\ \A x \in Objects \ {o} : want'[x] = want[x]
        BY <1>2, <4>0 DEF WantType
      <4>2. /\ handle' \in [Objects -> HandleType] /\ \A x \in Objects \ {o} : handle'[x] = handle[x]
            /\ handle'[o].listening = handle[o].listening /\ handle'[o].closing = "asked"
            /\ ~ handle'[o].active /\ handle'[o].bare = handle[o].bare
        BY <1>1, <1>2, <3>2, ZenonT(40) DEF HandleType
      <4> QED BY <4>1, <4>2
    <3> QED BY <2>1, <3>1, <3>2
  <2>3. o \notin Streams /\ o \notin Timers \cup Idles /\ ~ handle[o].listening
    BY <1>1, <2>1 DEF ObjectInv, ObjectRight, UvConstants
  <2>4. \A x \in Objects : DataKept(x)
    BY <2>1 DEF DataKept, UvInv, ObjectInv
  <2>5. ObjectInv(o)'
    <3>1. data[o] # 0 => data[o] \in Busy(pool[PoolOf(o)]) /\ pool[PoolOf(o)].cell[data[o]].obj = o
                         /\ pool[PoolOf(o)].cell[data[o]].state # "CLOSING"
      BY <1>1, <2>1 DEF ObjectInv, ObjectRight
    <3> QED BY <2>1, <2>2, <2>3, <3>1 DEF ObjectInv, ObjectRight, PoolOf, Busy
  <2>6. Types' /\ \A k \in HandlePools : CellsInv(k)'
    BY <1>1, <2>1, <2>2 DEF UvInv, Types, CellsInv, WellFormed, Busy, requests
  <2>7. FrameInv' /\ \A k : InFrame(k)' = InFrame(k)
    BY <1>1, <2>1, <2>2, <2>4, ProgramFrame
  <2>8. CrashInv'
    BY <1>1, <2>1, <2>2, CrashKept
  <2> QED BY <1>1, <2>1, <2>2, <2>4, <2>5, <2>6, <2>7, <2>8, HandleStep
<1> QED BY <1>2, <1>4, <1>5, <1>6, <1>7 DEF WatcherOp
-----------------------------------------------------------------------------
(* What the loop calls for a handle.                                       *)

HandleCallbacks == {"read", "recv", "listen", "close", "timer", "idle", "plain", "closed"}

LEMMA NoArgs == <<>> \in Args
BY DEF Args

LEMMA Started ==
  ASSUME frame = NoFrame, NEW o \in Objects, NEW cb \in HandleCallbacks, NEW c \in 0 .. MaxCells,
         NEW p \in Given, NEW prev \in States \cup {""}, Start(o, cb, c, p, p, prev),
         cb = "read" => c # 0 /\ prev \in {"LOCKED", "READING"},
         cb = "close" => PoolOf(o) = "stream" /\ handle'[o].closing = "done"
                         /\ c # 0 /\ (~ handle'[o].bare => data'[o] = c)
  PROVE  frame' \in HandleFrame /\ FrameInv' /\ \A k : InFrame(k)' = InFrame(k)
<1>1. /\ frame' = [cb |-> cb, obj |-> o, cell |-> c, proc |-> p, args |-> <<>>,
                   asked |-> <<p, <<>>>>, prev |-> prev]
  BY DEF Start
<1>2. <<>> \in Args
  BY NoArgs
<1>3. frame' \in HandleFrame
  BY <1>1, <1>2 DEF HandleFrame, HandleCallbacks
<1>4. frame'.cb = cb /\ frame'.obj = o /\ frame'.cell = c /\ frame'.prev = prev
      /\ <<frame'.proc, frame'.args>> = frame'.asked
  BY <1>1
<1>5. frame'.cb \notin RequestCallbacks
  BY <1>4 DEF HandleCallbacks, RequestCallbacks
<1>6. \A k : InFrame(k)' = InFrame(k)
  BY <1>5, NoFrameFacts DEF InFrame
<1>7. FrameInv'
  BY <1>4 DEF FrameInv, PoolOf
<1> QED BY <1>3, <1>6, <1>7

LEMMA Ended ==
  ASSUME frame.cb \notin RequestCallbacks, frame' = NoFrame
  PROVE  FrameInv' /\ \A k : InFrame(k)' = InFrame(k)
BY DEF FrameInv, NoFrame, InFrame, RequestCallbacks

(* A cell of a stream turns to another state.                              *)
LEMMA StateStep ==
  ASSUME UvConstants, UvInv, NEW o \in Objects, PoolOf(o) = "stream", data[o] # 0,
         NEW s \in States \ {"FREE"}, UNCHANGED <<data, lost>>,
         pool' = [pool EXCEPT !["stream"].cell[data[o]].state = s]
  PROVE  /\ pool' \in [Pools -> PoolType]
         /\ \A k \in RequestPools : pool'[k] = pool[k]
         /\ \A k \in HandlePools : CellsInv(k)'
         /\ data[o] \in Busy(pool'["stream"])
         /\ pool'["stream"].cell[data[o]] = [pool["stream"].cell[data[o]] EXCEPT !.state = s]
         /\ \A x \in Objects \ {o} : DataKept(x)
<1>0. PICK S, c, d : S = pool["stream"] /\ c = data[o] /\ d = [S.cell[c] EXCEPT !.state = s]
  OBVIOUS
<1>1. /\ "stream" \in HandlePools /\ "stream" \in Pools /\ CellsInv("stream") /\ ObjectInv(o)
      /\ Types /\ "stream" \notin RequestPools
  BY PoolNames DEF UvInv, HandlePools
<1>2. pool \in [Pools -> PoolType] /\ WellFormed(S) /\ c \in Busy(S) /\ S.cell[c].obj = o
  BY <1>0, <1>1 DEF Types, CellsInv, ObjectInv
<1>3. S.cell \in [Cells -> CellType] /\ c \in Cells /\ S \in PoolType
  <2>1. S \in PoolType /\ S.size \in 0 .. MaxCells /\ MaxCells \in Nat
    BY <1>2 DEF WellFormed, PoolType, UvConstants
  <2> QED BY <2>1, <1>2 DEF Busy, Cells, PoolType
<1>4. d \in CellType /\ d.obj = o /\ d.state = s
  BY <1>0, <1>2, <1>3 DEF CellType
<1>5. pool' = [pool EXCEPT !["stream"] = [S EXCEPT !.cell[c] = d]]
  BY <1>0, <1>1, <1>2, <1>3
<1>6. PICK T : T = [S EXCEPT !.cell[c] = d]
  OBVIOUS
<1>7. WellFormed(T) /\ Busy(T) = Busy(S) /\ T.cell = [S.cell EXCEPT ![c] = d]
  BY <1>2, <1>3, <1>4, <1>6, StorePool
<1>8. T \in PoolType
  BY <1>7 DEF WellFormed
<1>9. pool' \in [Pools -> PoolType] /\ pool'["stream"] = T
      /\ \A k \in Pools : k # "stream" => pool'[k] = pool[k]
  BY <1>1, <1>2, <1>5, <1>6, <1>8
<1>10. T.cell[c] = d /\ \A x \in Cells : x # c => T.cell[x] = S.cell[x]
  BY <1>3, <1>7
<1>11. \A x \in Objects \ {o} : data[x] # 0 => /\ data[x] \in Busy(pool[PoolOf(x)])
                                               /\ PoolOf(x) = "stream" => data[x] # c
  <2> TAKE x \in Objects \ {o}
  <2>1. ObjectInv(x)
    BY DEF UvInv
  <2> QED BY <2>1, <1>0, <1>2 DEF ObjectInv
<1>12. ASSUME NEW x \in Objects \ {o} PROVE DataKept(x)
  <2>1. CASE PoolOf(x) = "stream"
    <3>1. data[x] # 0 => data[x] \in Busy(T) /\ data[x] \in Cells /\ data[x] # c
      <4>1. data[x] # 0 => data[x] \in Busy(S)
        BY <1>0, <1>11, <2>1
      <4>2. S.size \in 0 .. MaxCells /\ MaxCells \in Nat
        BY <1>3 DEF PoolType, UvConstants
      <4> QED BY <4>1, <4>2, <1>7, <1>11, <2>1 DEF Busy, Cells
    <3> QED BY <3>1, <2>1, <1>0, <1>9, <1>10 DEF DataKept
  <2>2. CASE PoolOf(x) # "stream"
    <3>1. PoolOf(x) \in Pools /\ pool'[PoolOf(x)] = pool[PoolOf(x)]
      BY <2>2, <1>9, PoolNames
    <3> QED BY <3>1, <1>11 DEF DataKept
  <2> QED BY <2>1, <2>2
<1>13. CellsInv("stream")'
  <2>1. \A x \in Busy(T) : x \in Cells
    <3>1. T.size \in 0 .. MaxCells /\ MaxCells \in Nat
      BY <1>8 DEF PoolType, UvConstants
    <3> QED BY <3>1 DEF Busy, Cells
  <2>2. ASSUME NEW x \in Busy(T)
        PROVE  /\ T.cell[x].obj \in Objects /\ PoolOf(T.cell[x].obj) = "stream"
               /\ data'[T.cell[x].obj] = x /\ T.cell[x].state # "FREE"
    <3>1. CASE x = c
      BY <3>1, <1>0, <1>4, <1>10
    <3>2. CASE x # c
      <4>1. T.cell[x] = S.cell[x] /\ x \in Busy(S)
        BY <3>2, <2>1, <1>7, <1>10
      <4> QED BY <4>1, <1>0, <1>1 DEF CellsInv
    <3> QED BY <3>1, <3>2
  <2>3. ASSUME NEW x \in Cells \ Busy(T) PROVE T.cell[x].obj = None /\ T.cell[x].state = "FREE"
    <3>1. x # c /\ x \notin Busy(S)
      BY <1>2, <1>7
    <3> QED BY <3>1, <1>0, <1>1, <1>10 DEF CellsInv
  <2>4. lost'["stream"] = {}
    BY <1>1 DEF CellsInv
  <2>5. WellFormed(pool'["stream"]) /\ Busy(pool'["stream"]) = Busy(T)
    BY <1>7, <1>9
  <2> QED BY <1>9, <2>2, <2>3, <2>4, <2>5 DEF CellsInv, WellFormed, Busy, PoolOf
<1>14. ASSUME NEW k \in HandlePools PROVE CellsInv(k)'
  <2>1. CASE k # "stream"
    <3>1. CellsInv(k) /\ pool'[k] = pool[k]
      BY <2>1, <1>9, PoolNames DEF UvInv
    <3> QED BY <3>1, CellsKept
  <2> QED BY <2>1, <1>13
<1> QED BY <1>0, <1>2, <1>7, <1>9, <1>10, <1>12, <1>14, PoolNames
-----------------------------------------------------------------------------
(* A callback that leaves the data of the objects alone.                   *)
LEMMA CalledBack ==
  ASSUME UvConstants, UvInv, NEW o \in Objects, UNCHANGED <<pool, data, crash, want, requests>>,
         handle' \in [Objects -> HandleType], \A x \in Objects \ {o} : handle'[x] = handle[x],
         handle'[o].active => handle[o].active, handle'[o].listening = handle[o].listening,
         handle'[o].bare = handle[o].bare,
         \/ handle'[o].closing = handle[o].closing
         \/ handle[o].closing = "asked" /\ handle'[o].closing = "done",
         frame' \in {NoFrame} \cup HandleFrame, FrameInv', \A k : InFrame(k)' = InFrame(k)
  PROVE  UvInv'
<1>1. Types /\ ObjectInv(o) /\ UNCHANGED <<lost, marks, shared, flight>>
  BY DEF UvInv, requests
<1>2. Types'
  BY <1>1 DEF Types
<1>3. ASSUME NEW x \in Objects PROVE DataKept(x)
  <2>1. ObjectInv(x)
    BY DEF UvInv
  <2> QED BY <2>1 DEF DataKept, ObjectInv
<1>4. ASSUME NEW k \in HandlePools PROVE CellsInv(k)'
  <2>1. CellsInv(k)
    BY DEF UvInv
  <2> QED BY <2>1, <1>1 DEF CellsInv, WellFormed, Busy, PoolOf
<1>5. ObjectInv(o)'
  <2>1. PICK c, d, h, g, w : /\ c = data[o] /\ d = pool[PoolOf(o)].cell[data[o]]
                             /\ h = handle[o] /\ g = handle'[o] /\ w = want[o]
    OBVIOUS
  <2>2. (c # 0 => c \in Busy(pool[PoolOf(o)]) /\ d.obj = o) /\ ObjectRight(o, c, d, h, w)
    BY <1>1, <2>1 DEF ObjectInv
  <2>3. /\ g.active => h.active
        /\ g.listening = h.listening /\ g.bare = h.bare
        /\ g.closing = h.closing \/ (h.closing = "asked" /\ g.closing = "done")
    <3>1. h = handle[o] /\ g = handle'[o]
      BY <2>1
    <3>2. g.active => h.active
      BY <3>1
    <3>3. g.listening = h.listening /\ g.bare = h.bare
      BY <3>1
    <3>4. g.closing = h.closing \/ (h.closing = "asked" /\ g.closing = "done")
      BY <3>1
    <3> QED BY <3>2, <3>3, <3>4
  <2>4. ObjectRight(o, c, d, g, w)
    BY <2>2, <2>3 DEF ObjectRight
  <2>5. data'[o] = c /\ pool'[PoolOf(o)'].cell[data'[o]] = d /\ handle'[o] = g /\ want'[o] = w
        /\ pool' = pool /\ PoolOf(o)' = PoolOf(o)
    BY <2>1 DEF PoolOf
  <2> QED BY <2>2, <2>4, <2>5 DEF ObjectInv, ObjectRight, PoolOf, Busy
<1>6. CrashInv'
  BY CrashKept
<1> QED BY <1>1, <1>2, <1>3, <1>4, <1>5, <1>6, HandleStep

LEMMA ObjectTypes ==
  ASSUME UvInv, NEW o \in Objects
  PROVE  /\ handle[o] \in HandleType /\ want[o] \in WantType /\ data[o] \in 0 .. MaxCells
         /\ want[o].proc \in Given /\ want[o].close \in Given /\ want[o].listen \in Given
         /\ handle \in [Objects -> HandleType] /\ want \in [Objects -> WantType]
<1>1. handle \in [Objects -> HandleType] /\ want \in [Objects -> WantType]
      /\ data \in [Objects -> 0 .. MaxCells]
  BY DEF UvInv, Types
<1>2. want[o] \in WantType
  BY <1>1
<1> QED BY <1>1, <1>2 DEF WantType

(* A callback, or what follows its procedure, that meets a null pointer.   *)
LEMMA CrashStep ==
  ASSUME UvConstants, UvInv, NEW o \in Objects, handle[o].bare, frame.cb \notin RequestCallbacks,
         frame' = NoFrame, crash' = TRUE, UNCHANGED <<pool, data, handle, want, requests>>
  PROVE  UvInv'
<1>3. FrameInv' /\ \A k : InFrame(k)' = InFrame(k)
  BY Ended
<1>4. Types /\ UNCHANGED <<lost, marks, shared, flight>>
  BY DEF UvInv, requests
<1>5. Types'
  BY <1>4 DEF Types
<1>6. ASSUME NEW x \in Objects PROVE DataKept(x) /\ ObjectInv(x)'
  <2>1. ObjectInv(x)
    BY DEF UvInv
  <2> QED BY <2>1 DEF DataKept, ObjectInv, ObjectRight, Agrees, Busy, PoolOf
<1>7. ASSUME NEW k \in HandlePools PROVE CellsInv(k)'
  <2>1. CellsInv(k)
    BY DEF UvInv
  <2> QED BY <2>1, <1>4, CellsKept
<1>8. CrashInv'
  BY DEF CrashInv
<1> QED BY <1>3, <1>5, <1>6, <1>7, <1>8, HandleStep

LEMMA NullCb ==
  ASSUME UvConstants, UvInv, NEW o \in Objects, handle[o].bare, frame = NoFrame, Crash,
         UNCHANGED <<data, handle, want, requests>>
  PROVE  UvInv'
<1>1. crash' = TRUE /\ UNCHANGED pool /\ frame' = NoFrame
  BY DEF Crash
<1>2. frame.cb \notin RequestCallbacks
  BY DEF NoFrame, RequestCallbacks
<1> QED BY <1>1, <1>2, CrashStep

(* A callback that finds no procedure.                                     *)
LEMMA IdleStep ==
  ASSUME UvConstants, UvInv, NEW o \in Objects, frame = NoFrame,
         UNCHANGED <<pool, data, frame, crash, handle, want, requests>>
  PROVE  UvInv'
<1>1. frame' = NoFrame /\ frame.cb \notin RequestCallbacks
  BY DEF NoFrame, RequestCallbacks
<1>2. FrameInv' /\ \A k : InFrame(k)' = InFrame(k)
  BY <1>1, Ended
<1> QED BY <1>1, <1>2, ObjectTypes, CalledBack

(* Receive, listen, idle and the callbacks of the other watchers.          *)
LEMMA QuietCb ==
  ASSUME UvConstants, UvInv, NEW o \in Objects,
         BglUvUdpRecvCb(o) \/ UvListenCb(o) \/ BglUvIdleCb(o) \/ BglUvHandleCb(o) \/ BglUvCloseCb(o)
  PROVE  UvInv'
<1>1. ObjectInv(o) /\ frame = NoFrame /\ data[o] \in 0 .. MaxCells /\ 0 \in 0 .. MaxCells
  <2>1. frame = NoFrame
    BY DEF BglUvUdpRecvCb, UvListenCb, CallBack, BglUvIdleCb, BglUvHandleCb, BglUvCloseCb, InLoop
  <2>2. ObjectInv(o) /\ 0 \in 0 .. MaxCells
    BY DEF UvInv, UvConstants
  <2> QED BY <2>1, <2>2, ObjectTypes
<1>2. /\ handle[o] \in HandleType /\ want[o].proc \in Given /\ want[o].close \in Given
      /\ want[o].listen \in Given /\ handle \in [Objects -> HandleType]
  BY ObjectTypes
<1>3. ASSUME NEW cb \in {"recv", "listen", "idle", "plain"}, NEW c \in 0 .. MaxCells, NEW p \in Given,
             Start(o, cb, c, p, p, ""), UNCHANGED <<pool, data, crash, handle, want, requests>>
      PROVE  UvInv'
  <2>1. frame' \in HandleFrame /\ FrameInv' /\ \A k : InFrame(k)' = InFrame(k)
    <3>1. cb \in HandleCallbacks /\ cb # "read" /\ cb # "close"
      BY DEF HandleCallbacks
    <3> QED BY <3>1, <1>1, <1>3, Started
  <2> QED BY <2>1, <1>2, <1>3, CalledBack
<1>4. ASSUME o \in Streams \cup Sockets
      PROVE  o \notin Plains /\ PoolOf(o) = "stream"
  BY <1>4 DEF UvConstants, PoolOf
<1>5. ASSUME BglUvUdpRecvCb(o) PROVE UvInv'
  <2>1. /\ o \in Sockets /\ handle[o].active /\ UNCHANGED <<data, handle, want, requests>>
        /\ LET p == pool["stream"].cell[data[o]].proc IN
           IF data[o] = 0 THEN Crash
           ELSE /\ IF p # None THEN Start(o, "recv", data[o], p, want[o].proc, "") ELSE UNCHANGED frame
                /\ UNCHANGED <<pool, crash>>
    BY <1>5 DEF BglUvUdpRecvCb, CallBack
  <2>2. o \notin Plains /\ PoolOf(o) = "stream"
    BY <2>1, <1>4
  <2>3. CASE data[o] = 0
    <3>1. handle[o].bare
      BY <2>1, <2>2, <2>3, <1>1 DEF ObjectInv, ObjectRight
    <3> QED BY <3>1, <2>1, <2>3, <1>1, NullCb
  <2>4. CASE data[o] # 0
    <3>1. PICK p : p = pool["stream"].cell[data[o]].proc
      OBVIOUS
    <3>2. p \in {None, want[o].proc}
      BY <2>2, <2>4, <3>1, <1>1 DEF ObjectInv, ObjectRight, Agrees
    <3>3. CASE p # None
      BY <3>1, <3>2, <3>3, <2>1, <2>4, <1>1, <1>2, <1>3
    <3>4. CASE p = None
      BY <3>1, <3>4, <2>1, <2>4, <1>1, IdleStep
    <3> QED BY <3>3, <3>4
  <2> QED BY <2>3, <2>4
<1>6. ASSUME UvListenCb(o) PROVE UvInv'
  <2>1. /\ o \in Streams /\ handle[o].listening /\ UNCHANGED <<data, handle, want, requests>>
        /\ LET p == pool["stream"].cell[data[o]].listen IN
           IF data[o] = 0 THEN Crash
           ELSE /\ IF p # None THEN Start(o, "listen", data[o], p, want[o].listen, "") ELSE UNCHANGED frame
                /\ UNCHANGED <<pool, crash>>
    BY <1>6 DEF UvListenCb, CallBack
  <2>2. o \notin Plains /\ PoolOf(o) = "stream"
    BY <2>1, <1>4
  <2>3. CASE data[o] = 0
    <3>1. handle[o].bare
      BY <2>1, <2>2, <2>3, <1>1 DEF ObjectInv, ObjectRight
    <3> QED BY <3>1, <2>1, <2>3, <1>1, NullCb
  <2>4. CASE data[o] # 0
    <3>1. PICK p : p = pool["stream"].cell[data[o]].listen
      OBVIOUS
    <3>2. p \in {None, want[o].listen}
      BY <2>2, <2>4, <3>1, <1>1 DEF ObjectInv, ObjectRight, Agrees
    <3>3. CASE p # None
      BY <3>1, <3>2, <3>3, <2>1, <2>4, <1>1, <1>2, <1>3
    <3>4. CASE p = None
      BY <3>1, <3>4, <2>1, <2>4, <1>1, IdleStep
    <3> QED BY <3>3, <3>4
  <2> QED BY <2>3, <2>4
<1>7. ASSUME BglUvIdleCb(o) PROVE UvInv'
  <2>1. o \in Idles /\ handle[o].active
    BY <1>7 DEF BglUvIdleCb
  <2>2. o \notin Plains /\ PoolOf(o) = "watcher"
    BY <2>1 DEF UvConstants, PoolOf
  <2>3. data[o] # 0 /\ pool["watcher"].cell[data[o]].proc = want[o].proc
    BY <1>1, <2>1, <2>2 DEF ObjectInv, ObjectRight
  <2>4. Start(o, "idle", data[o], want[o].proc, want[o].proc, "")
        /\ UNCHANGED <<pool, data, crash, handle, want, requests>>
    BY <2>3, <1>7 DEF BglUvIdleCb
  <2> QED BY <2>4, <1>1, <1>2, <1>3
<1>8. ASSUME BglUvHandleCb(o) PROVE UvInv'
  <2>1. Start(o, "plain", 0, want[o].proc, want[o].proc, "")
        /\ UNCHANGED <<pool, data, crash, handle, want, requests>>
    BY <1>8 DEF BglUvHandleCb
  <2> QED BY <2>1, <1>1, <1>2, <1>3
<1>9. ASSUME BglUvCloseCb(o) PROVE UvInv'
  <2>1. /\ handle[o].closing = "asked" /\ handle' = [handle EXCEPT ![o].closing = "done"]
        /\ UNCHANGED <<pool, data, crash, want, requests>>
    BY <1>9 DEF BglUvCloseCb
  <2>2. /\ handle' \in [Objects -> HandleType] /\ \A x \in Objects \ {o} : handle'[x] = handle[x]
        /\ handle'[o].active = handle[o].active /\ handle'[o].listening = handle[o].listening
        /\ handle'[o].closing = "done" /\ handle'[o].bare = handle[o].bare
    BY <1>2, <2>1 DEF HandleType
  <2>3. CASE Start(o, "closed", 0, want[o].close, want[o].close, "")
    <3>1. "closed" \in HandleCallbacks
      BY DEF HandleCallbacks
    <3>2. frame' \in HandleFrame /\ FrameInv' /\ \A k : InFrame(k)' = InFrame(k)
      BY <3>1, <2>3, <1>1, <1>2, Started
    <3> QED BY <3>2, <2>1, <2>2, CalledBack
  <2>4. CASE UNCHANGED frame
    <3>1. frame' = NoFrame /\ frame.cb \notin RequestCallbacks
      BY <2>4, <1>1 DEF NoFrame, RequestCallbacks
    <3>2. FrameInv' /\ \A k : InFrame(k)' = InFrame(k)
      BY <3>1, Ended
    <3> QED BY <3>1, <3>2, <2>1, <2>2, CalledBack
  <2> QED BY <2>3, <2>4, <1>9 DEF BglUvCloseCb
<1> QED BY <1>5, <1>6, <1>7, <1>8, <1>9
-----------------------------------------------------------------------------
(* A callback, or what follows its procedure, that gives the data of o     *)
(* back.                                                                   *)
LEMMA FreedBack ==
  ASSUME UvConstants, UvInv, NEW o \in Objects, data[o] # 0,
         FreeData(PoolOf(o), pool[PoolOf(o)], data, data[o]), UNCHANGED <<want, requests>>,
         handle' \in [Objects -> HandleType], \A x \in Objects \ {o} : handle'[x] = handle[x],
         handle[o].bare => handle'[o].bare,
         handle'[o].active \/ handle'[o].listening \/ handle'[o].closing = "asked" => handle'[o].bare,
         handle'[o].closing # "no" => ~ handle'[o].active /\ ~ handle'[o].listening,
         handle'[o].closing # "no" \/ handle'[o].bare => o \notin Timers \cup Idles,
         handle'[o].listening => o \in Streams,
         frame' \in {NoFrame} \cup HandleFrame, FrameInv', \A k : InFrame(k)' = InFrame(k)
  PROVE  UvInv'
<1>1. Types /\ UNCHANGED <<lost, marks, shared, flight>>
  BY DEF UvInv, requests
<1>2. /\ pool' \in [Pools -> PoolType] /\ data' \in [Objects -> 0 .. MaxCells]
      /\ UNCHANGED crash
      /\ \A k \in RequestPools : pool'[k] = pool[k]
      /\ \A k \in HandlePools : CellsInv(k)'
      /\ data'[o] = 0
      /\ \A x \in Objects \ {o} : DataKept(x)
  BY <1>1, FreeOwn
<1>3. Types'
  BY <1>1, <1>2 DEF Types
<1>4. ObjectInv(o)'
  BY <1>2 DEF ObjectInv, ObjectRight
<1>5. CrashInv'
  BY <1>2, CrashKept
<1> QED BY <1>2, <1>3, <1>4, <1>5, HandleStep

(* A callback, or what follows its procedure, that sets the state of the   *)
(* data of o.                                                              *)
LEMMA StateBack ==
  ASSUME UvConstants, UvInv, NEW o \in Objects, PoolOf(o) = "stream", data[o] # 0,
         NEW s \in States \ {"FREE"}, UNCHANGED <<data, crash, want, requests>>,
         pool' = [pool EXCEPT !["stream"].cell[data[o]].state = s],
         handle' \in [Objects -> HandleType], \A x \in Objects \ {o} : handle'[x] = handle[x],
         handle'[o].active = handle[o].active, handle'[o].listening = handle[o].listening,
         handle'[o].bare = handle[o].bare,
         \/ handle'[o].closing = handle[o].closing
         \/ handle[o].closing = "asked" /\ handle'[o].closing = "done",
         s = "CLOSING" => handle'[o].closing = "done",
         frame' \in {NoFrame} \cup HandleFrame, FrameInv', \A k : InFrame(k)' = InFrame(k)
  PROVE  UvInv'
<1>1. Types /\ ObjectInv(o) /\ UNCHANGED <<lost, marks, shared, flight>>
  BY DEF UvInv, requests
<1>2. /\ pool' \in [Pools -> PoolType]
      /\ \A k \in RequestPools : pool'[k] = pool[k]
      /\ \A k \in HandlePools : CellsInv(k)'
      /\ data[o] \in Busy(pool'["stream"])
      /\ pool'["stream"].cell[data[o]] = [pool["stream"].cell[data[o]] EXCEPT !.state = s]
      /\ \A x \in Objects \ {o} : DataKept(x)
  BY <1>1, StateStep
<1>3. Types'
  BY <1>1, <1>2 DEF Types
<1>4. ObjectInv(o)'
  <2>1. PICK d, e, h, g, w, c : /\ d = pool["stream"].cell[data[o]]
                                /\ e = pool'["stream"].cell[data[o]]
                                /\ h = handle[o] /\ g = handle'[o] /\ w = want[o] /\ c = data[o]
    OBVIOUS
  <2>2. d \in CellType
    <3>1. "stream" \in Pools /\ "stream" \in HandlePools
      BY DEF Pools, HandlePools
    <3>2. pool["stream"] \in PoolType /\ CellsInv("stream") /\ data[o] \in Busy(pool["stream"])
      BY <1>1, <3>1 DEF Types, UvInv, ObjectInv
    <3>3. data[o] \in Cells /\ pool["stream"].cell \in [Cells -> CellType]
      <4>1. pool["stream"].size \in 0 .. MaxCells /\ MaxCells \in Nat
        BY <3>2 DEF PoolType, UvConstants
      <4> QED BY <3>2, <4>1 DEF PoolType, Busy, Cells
    <3> QED BY <3>3, <2>1
  <2>3. e.obj = d.obj /\ e.proc = d.proc /\ e.listen = d.listen /\ e.close = d.close /\ e.state = s
    BY <2>1, <2>2, <1>2 DEF CellType
  <2>4. d.obj = o /\ ObjectRight(o, c, d, h, w) /\ c # 0
    BY <1>1, <2>1 DEF ObjectInv
  <2>5. /\ g.active = h.active /\ g.listening = h.listening /\ g.bare = h.bare
        /\ g.closing = h.closing \/ (h.closing = "asked" /\ g.closing = "done")
        /\ s = "CLOSING" => g.closing = "done"
    <3>1. h = handle[o] /\ g = handle'[o]
      BY <2>1
    <3>2. g.active = h.active
      BY <3>1
    <3>3. g.listening = h.listening /\ g.bare = h.bare
      BY <3>1
    <3>4. g.closing = h.closing \/ (h.closing = "asked" /\ g.closing = "done")
      BY <3>1
    <3>5. s = "CLOSING" => g.closing = "done"
      BY <3>1
    <3> QED BY <3>2, <3>3, <3>4, <3>5
  <2>6. ObjectRight(o, c, e, g, w)
    BY <2>3, <2>4, <2>5 DEF ObjectRight, Agrees
  <2>7. PoolOf(o)' = "stream" /\ data'[o] = c /\ want'[o] = w /\ handle'[o] = g
        /\ pool'[PoolOf(o)'].cell[data'[o]] = e /\ data'[o] \in Busy(pool'[PoolOf(o)'])
    BY <1>2, <2>1 DEF PoolOf
  <2> QED BY <2>3, <2>4, <2>6, <2>7 DEF ObjectInv, ObjectRight, Agrees, Busy
<1>5. CrashInv'
  BY CrashKept
<1> QED BY <1>1, <1>2, <1>3, <1>4, <1>5, HandleStep

(* The data of an object that has some.                                    *)
LEMMA OwnData ==
  ASSUME UvConstants, UvInv, NEW o \in Objects, data[o] # 0
  PROVE  pool[PoolOf(o)].cell[data[o]] \in CellType
         /\ pool[PoolOf(o)].cell[data[o]].state \in States \ {"FREE"}
<1>1. ObjectInv(o) /\ PoolOf(o) \in HandlePools /\ PoolOf(o) \in Pools /\ Types
  BY PoolNames DEF UvInv
<1>2. CellsInv(PoolOf(o)) /\ pool[PoolOf(o)] \in PoolType /\ data[o] \in Busy(pool[PoolOf(o)])
  BY <1>1 DEF UvInv, Types, ObjectInv
<1>3. pool[PoolOf(o)].size \in 0 .. MaxCells /\ MaxCells \in Nat
      /\ pool[PoolOf(o)].cell \in [Cells -> CellType]
  BY <1>2 DEF PoolType, UvConstants
<1>4. pool[PoolOf(o)].cell[data[o]] \in CellType
  BY <1>2, <1>3 DEF Busy, Cells
<1>5. pool[PoolOf(o)].cell[data[o]].state # "FREE"
  BY <1>2 DEF CellsInv
<1> QED BY <1>4, <1>5 DEF CellType
-----------------------------------------------------------------------------
(* Read, close and timer.                                                  *)
LEMMA ReadCb ==
  ASSUME UvConstants, UvInv, NEW o \in Objects, BglUvReadCb(o)
  PROVE  UvInv'
<1>1. /\ o \in Streams /\ frame = NoFrame /\ handle[o].active
      /\ UNCHANGED <<data, handle, want, requests>>
  BY DEF BglUvReadCb, InLoop
<1>2. /\ handle \in [Objects -> HandleType] /\ data[o] \in 0 .. MaxCells
      /\ want[o].proc \in Given /\ ObjectInv(o) /\ PoolOf(o) = "stream" /\ o \notin Plains
  BY <1>1, ObjectTypes DEF UvInv, PoolOf, UvConstants
<1>3. CASE data[o] = 0
  <2>1. handle[o].bare
    BY <1>1, <1>2, <1>3 DEF ObjectInv, ObjectRight
  <2>2. Crash
    BY <1>3 DEF BglUvReadCb
  <2> QED BY <1>1, <2>1, <2>2, NullCb
<1>4. CASE data[o] # 0
  <2>1. PICK s, p : s = pool["stream"].cell[data[o]].state /\ p = pool["stream"].cell[data[o]].proc
    OBVIOUS
  <2>2. s \in States \ {"FREE"}
    BY <1>2, <1>4, <2>1, OwnData
  <2>3. p \in {None, want[o].proc}
    BY <1>2, <1>4, <2>1 DEF ObjectInv, ObjectRight, Agrees
  <2>4. CASE /\ p # None /\ s # "CLOSING" /\ Start(o, "read", data[o], p, want[o].proc, s)
             /\ pool' = [pool EXCEPT !["stream"].cell[data[o]].state = "READING"]
             /\ UNCHANGED crash
    <3>1. s \in {"LOCKED", "READING"} /\ s \in States \cup {""} /\ "READING" \in States \ {"FREE"}
          /\ "read" \in HandleCallbacks
      BY <2>2, <2>4 DEF States, HandleCallbacks
    <3>2. Start(o, "read", data[o], want[o].proc, want[o].proc, s)
      BY <2>3, <2>4
    <3>3. frame' \in HandleFrame /\ FrameInv' /\ \A k : InFrame(k)' = InFrame(k)
      BY <1>1, <1>2, <1>4, <3>1, <3>2, Started
    <3> QED BY <1>1, <1>2, <1>4, <2>4, <3>1, <3>3, StateBack
  <2>5. CASE UNCHANGED <<pool, frame, crash>>
    BY <1>1, <2>5, IdleStep
  <2> QED BY <1>4, <2>1, <2>4, <2>5 DEF BglUvReadCb
<1> QED BY <1>3, <1>4

LEMMA StreamCloseCb ==
  ASSUME UvConstants, UvInv, NEW o \in Objects, BglUvStreamCloseCb(o)
  PROVE  UvInv'
<1>1. /\ PoolOf(o) = "stream" /\ frame = NoFrame /\ handle[o].closing = "asked"
      /\ handle' = [handle EXCEPT ![o].closing = "done"]
      /\ UNCHANGED <<want, requests>>
  BY DEF BglUvStreamCloseCb, InLoop
<1>2. /\ handle \in [Objects -> HandleType] /\ data[o] \in 0 .. MaxCells
      /\ want[o].close \in Given /\ ObjectInv(o) /\ o \notin Plains
  BY <1>1, ObjectTypes DEF UvInv, PoolOf, UvConstants
<1>3. ~ handle[o].active /\ ~ handle[o].listening /\ o \notin Timers \cup Idles
  BY <1>1, <1>2 DEF ObjectInv, ObjectRight
<1>4. /\ handle' \in [Objects -> HandleType] /\ \A x \in Objects \ {o} : handle'[x] = handle[x]
      /\ handle'[o].active = handle[o].active /\ handle'[o].listening = handle[o].listening
      /\ handle'[o].closing = "done" /\ handle'[o].bare = handle[o].bare
  BY <1>1, <1>2 DEF HandleType
<1>5. ASSUME UNCHANGED frame
      PROVE  frame' = NoFrame /\ FrameInv' /\ \A k : InFrame(k)' = InFrame(k)
  <2>1. frame' = NoFrame /\ frame.cb \notin RequestCallbacks
    BY <1>1, <1>5 DEF NoFrame, RequestCallbacks
  <2> QED BY <2>1, Ended
<1>6. CASE data[o] = 0
  <2>1. UNCHANGED <<pool, data, frame, crash>>
    BY <1>6 DEF BglUvStreamCloseCb
  <2> QED BY <1>1, <1>4, <1>5, <2>1, CalledBack
<1>7. CASE data[o] # 0
  <2>1. PICK s, p : s = pool["stream"].cell[data[o]].state /\ p = pool["stream"].cell[data[o]].close
    OBVIOUS
  <2>2. s \in States \ {"FREE"}
    BY <1>1, <1>7, <2>1, OwnData
  <2>3. p \in {None, want[o].close}
    BY <1>1, <1>2, <1>7, <2>1 DEF ObjectInv, ObjectRight, Agrees
  <2>4. CASE FreeData("stream", pool["stream"], data, data[o]) /\ UNCHANGED frame
    BY <1>1, <1>3, <1>4, <1>5, <1>7, <2>4, FreedBack
  <2>5. CASE /\ p # None /\ Start(o, "close", data[o], p, want[o].close, s)
             /\ pool' = IF s = "LOCKED" THEN pool
                        ELSE [pool EXCEPT !["stream"].cell[data[o]].state = "CLOSING"]
             /\ UNCHANGED <<data, crash>>
    <3>1. s \in States \cup {""} /\ "CLOSING" \in States \ {"FREE"} /\ "close" \in HandleCallbacks
      BY <2>2 DEF States, HandleCallbacks
    <3>2. Start(o, "close", data[o], want[o].close, want[o].close, s)
      BY <2>3, <2>5
    <3>3. frame' \in HandleFrame /\ FrameInv' /\ \A k : InFrame(k)' = InFrame(k)
      BY <1>1, <1>2, <1>4, <1>7, <2>5, <3>1, <3>2, Started
    <3>4. CASE s = "LOCKED"
      <4>1. UNCHANGED pool
        BY <2>5, <3>4
      <4> QED BY <1>1, <1>4, <2>5, <3>3, <4>1, CalledBack
    <3>5. CASE s # "LOCKED"
      <4>1. pool' = [pool EXCEPT !["stream"].cell[data[o]].state = "CLOSING"]
        BY <2>5, <3>5
      <4> QED BY <1>1, <1>4, <1>7, <2>5, <3>1, <3>3, <4>1, StateBack
    <3> QED BY <3>4, <3>5
  <2> QED BY <1>7, <2>1, <2>4, <2>5 DEF BglUvStreamCloseCb
<1> QED BY <1>6, <1>7

LEMMA TimerCb ==
  ASSUME UvConstants, UvInv, NEW o \in Objects, BglUvTimerCb(o)
  PROVE  UvInv'
<1>1. /\ o \in Timers /\ frame = NoFrame /\ handle[o].active
      /\ handle' = [handle EXCEPT ![o].active = handle[o].repeat]
      /\ UNCHANGED <<want, requests>>
  BY DEF BglUvTimerCb, InLoop
<1>2. /\ handle \in [Objects -> HandleType] /\ data[o] \in 0 .. MaxCells
      /\ want[o].proc \in Given /\ ObjectInv(o) /\ o \notin Plains /\ PoolOf(o) = "watcher"
  BY <1>1, ObjectTypes DEF UvInv, PoolOf, UvConstants
<1>3. /\ data[o] # 0 /\ pool["watcher"].cell[data[o]].proc = want[o].proc
      /\ handle[o].closing = "no" /\ ~ handle[o].listening /\ ~ handle[o].bare
  <2>1. o \notin Streams
    BY <1>1 DEF UvConstants
  <2> QED BY <1>1, <1>2, <2>1 DEF ObjectInv, ObjectRight
<1>4. /\ handle' \in [Objects -> HandleType] /\ \A x \in Objects \ {o} : handle'[x] = handle[x]
      /\ handle'[o].active = handle[o].repeat /\ handle'[o].listening = handle[o].listening
      /\ handle'[o].closing = "no" /\ handle'[o].bare = handle[o].bare
  BY <1>1, <1>2, <1>3 DEF HandleType
<1>5. Start(o, "timer", data[o], want[o].proc, want[o].proc, "")
  BY <1>3 DEF BglUvTimerCb
<1>6. "timer" \in HandleCallbacks
  BY DEF HandleCallbacks
<1>7. frame' \in HandleFrame /\ FrameInv' /\ \A k : InFrame(k)' = InFrame(k)
  BY <1>1, <1>2, <1>5, <1>6, Started
<1>8. CASE handle[o].repeat
  <2>1. UNCHANGED <<pool, data, crash>>
    BY <1>3, <1>8 DEF BglUvTimerCb
  <2> QED BY <1>1, <1>3, <1>4, <1>7, <2>1, CalledBack
<1>9. CASE ~ handle[o].repeat
  <2>1. FreeData("watcher", pool["watcher"], data, data[o])
    BY <1>3, <1>9 DEF BglUvTimerCb
  <2> QED BY <1>1, <1>2, <1>3, <1>4, <1>7, <1>9, <2>1, FreedBack
<1> QED BY <1>8, <1>9

LEMMA HandleCbs ==
  ASSUME UvConstants, UvInv, NEW o \in Objects, HandleCb(o)
  PROVE  UvInv'
BY ReadCb, StreamCloseCb, TimerCb, QuietCb
   DEF HandleCb, BglUvFsEventCb, BglUvFsPollCb, BglUvPollCb, BglUvAsyncCb, ProcessExitCb
-----------------------------------------------------------------------------
(* What follows the procedure.                                             *)
LEMMA FrameTypes ==
  ASSUME UvInv, frame.cb \in HandleCallbacks
  PROVE  frame \in HandleFrame /\ frame.obj \in Objects /\ frame.cb \notin RequestCallbacks
         /\ frame.cell \in 0 .. MaxCells
<1>1. frame \in {NoFrame} \cup RequestFrame \cup HandleFrame
  BY DEF UvInv, Types
<1>2. frame # NoFrame /\ frame \notin RequestFrame /\ frame.cb \notin RequestCallbacks
  BY DEF NoFrame, RequestFrame, RequestCallbacks, HandleCallbacks
<1>3. frame \in HandleFrame
  BY <1>1, <1>2
<1> QED BY <1>2, <1>3 DEF HandleFrame

LEMMA ReadReturns ==
  ASSUME UvConstants, UvInv, ReadReturn
  PROVE  UvInv'
<1>1. frame.cb = "read" /\ frame' = NoFrame /\ UNCHANGED <<handle, want, requests>>
  BY DEF ReadReturn, Running
<1>2. frame.cb \in HandleCallbacks
  BY <1>1 DEF HandleCallbacks
<1>3. frame.obj \in Objects /\ frame.cb \notin RequestCallbacks /\ frame.cell \in 0 .. MaxCells
  BY <1>2, FrameTypes
<1>4. FrameInv' /\ \A k : InFrame(k)' = InFrame(k)
  BY <1>1, <1>3, Ended
<1>5. frame.cell # 0 /\ frame.prev \in {"LOCKED", "READING"}
  BY <1>1 DEF UvInv, FrameInv
<1>6. PICK c, d : c = frame.cell /\ d = pool["stream"].cell[c]
  OBVIOUS
<1>7. c \in Cells
  BY <1>3, <1>5, <1>6 DEF Cells, UvConstants
<1>8. handle \in [Objects -> HandleType]
  BY DEF UvInv, Types
<1>9. ASSUME d.state # "FREE"
      PROVE  d.obj \in Objects /\ PoolOf(d.obj) = "stream" /\ data[d.obj] = c /\ c # 0
  <2>1. CellsInv("stream")
    BY DEF UvInv, HandlePools
  <2>2. c \in Busy(pool["stream"])
    BY <2>1, <1>6, <1>7, <1>9 DEF CellsInv
  <2> QED BY <2>1, <2>2, <1>5, <1>6 DEF CellsInv
<1>10. CASE d.state = "CLOSING"
  <2>1. FreeData("stream", pool["stream"], data, c)
    BY <1>6, <1>10 DEF ReadReturn
  <2>2. d.obj \in Objects /\ PoolOf(d.obj) = "stream" /\ data[d.obj] = c /\ c # 0
    BY <1>9, <1>10
  <2>3. ObjectInv(d.obj)
    BY <2>2 DEF UvInv
  <2>4. /\ handle[d.obj].closing = "done" /\ ~ handle[d.obj].active /\ ~ handle[d.obj].listening
        /\ d.obj \notin Timers \cup Idles
    BY <2>2, <2>3, <1>6, <1>10 DEF ObjectInv, ObjectRight
  <2> QED BY <2>1, <2>2, <2>4, <1>1, <1>4, <1>8, FreedBack
<1>11. CASE d.state = "FREE"
  <2>1. UNCHANGED <<pool, data, crash>>
    BY <1>6, <1>11 DEF ReadReturn
  <2> QED BY <2>1, <1>1, <1>3, <1>4, <1>8, CalledBack
<1>12. CASE d.state # "CLOSING" /\ d.state # "FREE"
  <2>1. pool' = [pool EXCEPT !["stream"].cell[c].state = frame.prev] /\ UNCHANGED <<data, crash>>
    BY <1>6, <1>12 DEF ReadReturn
  <2>2. d.obj \in Objects /\ PoolOf(d.obj) = "stream" /\ data[d.obj] = c /\ c # 0
    BY <1>9, <1>12
  <2>3. frame.prev \in States \ {"FREE"} /\ frame.prev # "CLOSING"
    BY <1>5 DEF States
  <2> QED BY <2>1, <2>2, <2>3, <1>1, <1>4, <1>8, StateBack
<1> QED BY <1>10, <1>11, <1>12

LEMMA CloseReturns ==
  ASSUME UvConstants, UvInv, CloseReturn
  PROVE  UvInv'
<1>1. frame.cb = "close" /\ frame' = NoFrame /\ UNCHANGED <<want, requests>>
  BY DEF CloseReturn, Running
<1>2. frame.cb \in HandleCallbacks
  BY <1>1 DEF HandleCallbacks
<1>3. PICK o, c, d : o = frame.obj /\ c = frame.cell /\ d = pool["stream"].cell[c]
  OBVIOUS
<1>4. o \in Objects /\ frame.cb \notin RequestCallbacks /\ c \in 0 .. MaxCells
  BY <1>2, <1>3, FrameTypes
<1>5. FrameInv' /\ \A k : InFrame(k)' = InFrame(k)
  BY <1>1, <1>4, Ended
<1>6. /\ PoolOf(o) = "stream" /\ handle[o].closing = "done" /\ c # 0
      /\ ~ handle[o].bare => data[o] = c
  BY <1>1, <1>3 DEF UvInv, FrameInv
<1>7. ObjectInv(o) /\ handle \in [Objects -> HandleType] /\ c \in Cells
  BY <1>4, <1>6 DEF UvInv, Types, Cells, UvConstants
<1>8. CellsInv("stream") /\ None \notin Objects
  BY DEF UvInv, HandlePools, UvConstants
<1>9. c \in Busy(pool["stream"]) =>
        d.obj \in Objects /\ PoolOf(d.obj) = "stream" /\ data[d.obj] = c
  BY <1>3, <1>8 DEF CellsInv
<1>10. c \notin Busy(pool["stream"]) => d.obj = None
  BY <1>3, <1>7, <1>8 DEF CellsInv
<1>11. CASE /\ FreeData("stream", pool["stream"], data, c)
            /\ handle' = IF d.obj \in Objects \ {o}
                         THEN [handle EXCEPT ![d.obj].bare = TRUE] ELSE handle
  <2>1. CASE d.obj = None
    <3>1. crash' = TRUE /\ UNCHANGED <<pool, data, handle>>
      BY <2>1, <1>3, <1>8, <1>11 DEF FreeData
    <3>2. handle[o].bare
      <4>1. SUFFICES ASSUME ~ handle[o].bare PROVE FALSE
        OBVIOUS
      <4>2. c \in Busy(pool["stream"])
        BY <4>1, <1>6, <1>7 DEF ObjectInv
      <4> QED BY <4>2, <2>1, <1>8, <1>9
    <3> QED BY <3>1, <3>2, <1>1, <1>4, <1>5, <1>7, CrashStep
  <2>2. CASE d.obj # None
    <3>1. PICK x : x = d.obj
      OBVIOUS
    <3>2. x \in Objects /\ PoolOf(x) = "stream" /\ data[x] = c
      BY <2>2, <3>1, <1>9, <1>10
    <3>3. x \notin Timers \cup Idles
      BY <3>2 DEF PoolOf, UvConstants
    <3>4. ObjectRight(x, data[x], pool[PoolOf(x)].cell[data[x]], handle[x], want[x])
      BY <3>2 DEF UvInv, ObjectInv
    <3>5. /\ handle[x].closing # "no" => ~ handle[x].active /\ ~ handle[x].listening
          /\ handle[x].listening => x \in Streams
      BY <3>4 DEF ObjectRight
    <3>6. CASE x = o
      <4>1. UNCHANGED handle
        BY <3>1, <3>6, <1>11
      <4> QED BY <3>2, <3>3, <3>5, <3>6, <4>1, <1>1, <1>5, <1>6, <1>7, <1>11, FreedBack
    <3>7. CASE x # o
      <4>1. handle' = [handle EXCEPT ![x].bare = TRUE]
        BY <3>1, <3>2, <3>7, <1>11
      <4>2. /\ handle' \in [Objects -> HandleType] /\ \A y \in Objects \ {x} : handle'[y] = handle[y]
            /\ handle'[x].bare /\ handle'[x].active = handle[x].active
            /\ handle'[x].listening = handle[x].listening /\ handle'[x].closing = handle[x].closing
        BY <3>2, <4>1, <1>7 DEF HandleType
      <4>3. FreeData(PoolOf(x), pool[PoolOf(x)], data, data[x]) /\ data[x] # 0
        BY <3>2, <1>6, <1>11
      <4>4. handle'[x].closing # "no" => ~ handle'[x].active /\ ~ handle'[x].listening
        BY <3>5, <4>2
      <4>5. handle'[x].listening => x \in Streams
        BY <3>5, <4>2
      <4> QED BY <3>2, <3>3, <4>2, <4>3, <4>4, <4>5, <1>1, <1>5, FreedBack
    <3> QED BY <3>6, <3>7
  <2> QED BY <2>1, <2>2
<1>12. CASE UNCHANGED <<pool, data, crash, handle>>
  BY <1>1, <1>4, <1>5, <1>7, <1>12, CalledBack
<1> QED BY <1>3, <1>11, <1>12 DEF CloseReturn

LEMMA QuietReturns ==
  ASSUME UvConstants, UvInv, PlainReturn \/ HandleRaises
  PROVE  UvInv'
<1>1. frame.cb \in HandleCallbacks /\ frame' = NoFrame
      /\ UNCHANGED <<pool, data, crash, handle, want, requests>>
  BY DEF PlainReturn, HandleRaises, HandleCallbacks
<1>2. frame.obj \in Objects /\ frame.cb \notin RequestCallbacks
  BY <1>1, FrameTypes
<1>3. FrameInv' /\ \A k : InFrame(k)' = InFrame(k)
  BY <1>1, <1>2, Ended
<1>4. handle \in [Objects -> HandleType]
  BY DEF UvInv, Types
<1> QED BY <1>1, <1>2, <1>3, <1>4, CalledBack
-----------------------------------------------------------------------------
(* Every step keeps the invariant.                                         *)
LEMMA NextInv ==
  ASSUME UvConstants, UvInv, [UvNext]_uvVars
  PROVE  UvInv'
<1>1. CASE Program
  <2>1. PICK p \in Procs :
          \/ RequestOp(p) /\ UNCHANGED <<handle, want>>
          \/ \E o \in Streams \cup Sockets : StreamOp(o, p)
          \/ \E o \in Objects \ (Streams \cup Sockets) : WatcherOp(o, p)
    BY <1>1 DEF Program
  <2> QED BY <2>1, RequestOps, StreamOps, WatcherOps
<1>2. CASE Loop
  BY <1>2, RequestCallbackSteps, HandleCbs DEF Loop
<1>3. CASE Returns
  BY <1>3, ReturnStep, ReadReturns, CloseReturns, QuietReturns DEF Returns
<1>4. CASE Raises
  BY <1>4, ReturnStep, QuietReturns DEF Raises
<1>5. CASE UNCHANGED uvVars
  <2>1. UNCHANGED <<pool, data, lost, marks, shared, flight, frame, crash, handle, want>>
    BY <1>5 DEF uvVars
  <2>2. \A k : InFrame(k)' = InFrame(k)
    BY <2>1 DEF InFrame
  <2>3. ASSUME NEW k \in RequestPools PROVE RequestsInv(k)'
    BY <2>1, <2>2, RequestsKept DEF UvInv
  <2>4. (\A k \in HandlePools : CellsInv(k)') /\ (\A o \in Objects : ObjectInv(o)')
    BY <2>1, HandlesKept
  <2>5. Types' /\ MarksInv' /\ FrameInv' /\ CrashInv'
    BY <2>1 DEF UvInv, Types, MarksInv, FrameInv, CrashInv, PoolOf
  <2> QED BY <2>3, <2>4, <2>5 DEF UvInv
<1> QED BY <1>1, <1>2, <1>3, <1>4, <1>5 DEF UvNext

LEMMA Inductive ==
  ASSUME UvConstants
  PROVE  UvSpec => []UvInv
<1>1. UvInit => UvInv
  BY InitInv
<1>2. UvInv /\ [UvNext]_uvVars => UvInv'
  BY NextInv
<1> QED BY <1>1, <1>2, PTL DEF UvSpec
-----------------------------------------------------------------------------
(* What the invariant says of the pools.                                   *)
LEMMA Distinct ==
  ASSUME NEW S, WellFormed(S)
  PROVE  Cardinality(Range(S.idle)) = Len(S.idle)
<1>0. PICK q : q = S.idle
  OBVIOUS
<1>1. q \in Seq(Cells) /\ \A i, j \in DOMAIN q : q[i] = q[j] => i = j
  BY <1>0 DEF WellFormed, PoolType
<1>2. Len(q) \in Nat /\ DOMAIN q = 1 .. Len(q) /\ q \in [1 .. Len(q) -> Range(q)]
  BY <1>1 DEF Range
<1>3. q \in Injection(1 .. Len(q), Range(q))
  BY <1>1, <1>2 DEF Injection, IsInjective
<1>4. \A t \in Range(q) : \E s \in 1 .. Len(q) : q[s] = t
  BY <1>2 DEF Range
<1>5. q \in Surjection(1 .. Len(q), Range(q))
  BY <1>2, <1>4 DEF Surjection
<1>6. ExistsBijection(1 .. Len(q), Range(q))
  BY <1>3, <1>5 DEF Bijection, ExistsBijection
<1> QED BY <1>0, <1>2, <1>6, FS_CountingElements

LEMMA UsedCells ==
  ASSUME UvConstants, UvInv, NEW k \in Pools
  PROVE  /\ WellFormed(pool[k])
         /\ Used(k) \cup lost[k] = Busy(pool[k]) /\ Used(k) \cap lost[k] = {}
<1> DEFINE A == {f.cell : f \in {g \in flight : g.pool = k}}
           B == IF frame.cb \in RequestCallbacks /\ frame.pool = k THEN {frame.cell} \ {0} ELSE {}
           C == {data[o] : o \in {x \in Objects : PoolOf(x) = k}} \ {0}
<1>1. Used(k) = A \cup B \cup C /\ A = InFlight(k) /\ B = InFrame(k)
  BY DEF Used, InFlight, InFrame
<1>2. CASE k \in RequestPools
  <2>1. RequestsInv(k)
    BY <1>2 DEF UvInv
  <2>2. C = {}
    BY <1>2, PoolNames
  <2> QED BY <1>1, <2>1, <2>2 DEF RequestsInv
<1>3. CASE k \in HandlePools
  <2>1. CellsInv(k) /\ k \notin RequestPools
    BY <1>3, PoolNames DEF UvInv
  <2>2. A = {}
    BY <2>1 DEF UvInv, Types, RequestType
  <2>3. B = {}
    <3>1. SUFFICES ASSUME frame.cb \in RequestCallbacks PROVE frame.pool # k
      OBVIOUS
    <3> HIDE DEF A, B, C
    <3>2. frame # NoFrame
      BY <3>1 DEF NoFrame, RequestCallbacks
    <3>3. frame \notin HandleFrame
      BY <3>1 DEF HandleFrame, RequestCallbacks
    <3>4. frame \in RequestFrame
      BY <3>2, <3>3 DEF UvInv, Types
    <3> QED BY <3>4, <2>1 DEF RequestFrame
  <2>4. ASSUME NEW c \in Busy(pool[k]) PROVE c \in C
    <3>1. PICK o : o = pool[k].cell[c].obj
      OBVIOUS
    <3>2. o \in Objects /\ PoolOf(o) = k /\ data[o] = c
      BY <2>1, <3>1 DEF CellsInv
    <3>3. c # 0
      BY DEF Busy
    <3> QED BY <3>2, <3>3
  <2>5. ASSUME NEW o \in Objects, PoolOf(o) = k, data[o] # 0 PROVE data[o] \in Busy(pool[k])
    BY <2>5 DEF UvInv, ObjectInv
  <2>6. C = Busy(pool[k])
    BY <2>4, <2>5
  <2> HIDE DEF A, B, C
  <2> QED BY <1>1, <2>1, <2>2, <2>3, <2>6 DEF CellsInv
<1> QED BY <1>2, <1>3, PoolNames

LEMMA InvPools ==
  ASSUME UvConstants, UvInv
  PROVE  PoolsSound
<1>1. UvTypeOK
  <2>1. Types
    BY DEF UvInv
  <2>2. ASSUME NEW k \in Pools PROVE pool[k].idle \in Seq(Cells) /\ pool[k].size \in 0 .. MaxCells
    BY <2>1 DEF Types, PoolType
  <2> QED BY <2>1, <2>2 DEF UvTypeOK, Types
<1>2. PoolSound
  <2>1. ASSUME NEW k \in Pools, NEW idle, idle = Range(pool[k].idle)
        PROVE  /\ Cardinality(idle) = Len(pool[k].idle)
               /\ idle \cup Used(k) \cup lost[k] = 1 .. pool[k].size
               /\ idle \cap (Used(k) \cup lost[k]) = {} /\ Used(k) \cap lost[k] = {}
    <3>1. /\ WellFormed(pool[k])
          /\ Used(k) \cup lost[k] = Busy(pool[k]) /\ Used(k) \cap lost[k] = {}
      BY UsedCells
    <3>2. idle \subseteq 1 .. pool[k].size
      BY <2>1, <3>1 DEF WellFormed
    <3>3. Busy(pool[k]) = (1 .. pool[k].size) \ idle
      BY <2>1 DEF Busy
    <3>4. Cardinality(idle) = Len(pool[k].idle)
      BY <2>1, <3>1, Distinct
    <3>5. idle \cup Used(k) \cup lost[k] = 1 .. pool[k].size
      BY <3>1, <3>2, <3>3
    <3>6. idle \cap (Used(k) \cup lost[k]) = {}
      BY <3>1, <3>3
    <3> QED BY <3>1, <3>4, <3>5, <3>6
  <2> QED BY <2>1 DEF PoolSound
<1>3. DataSound
  <2>1. crash => \E o \in Objects : handle[o].bare
    BY DEF UvInv, CrashInv
  <2>2. ASSUME NEW o \in Objects, data[o] # 0
        PROVE  pool[PoolOf(o)].cell[data[o]].obj = o /\ pool[PoolOf(o)].cell[data[o]].state # "FREE"
    <3>1. ObjectInv(o)
      BY DEF UvInv
    <3> QED BY <2>2, <3>1, OwnData DEF ObjectInv
  <2> QED BY <2>1, <2>2 DEF DataSound
<1> QED BY <1>1, <1>2, <1>3 DEF PoolsSound

-----------------------------------------------------------------------------
(* A handle that is closing stays so until the loop tells.                 *)
LEMMA ClosingStays ==
  ASSUME UvConstants, UvInv, UvNext, NEW x \in Objects, handle[x].closing = "asked"
  PROVE  handle'[x].closing = "asked" \/ BglUvStreamCloseCb(x) \/ BglUvCloseCb(x)
<1>1. handle \in [Objects -> HandleType] /\ handle[x] \in HandleType
  BY ObjectTypes
<1>2. ASSUME NEW o \in Objects, NEW h \in HandleType, handle' = [handle EXCEPT ![o] = h],
             handle[o].closing = "asked" => h.closing = "asked"
      PROVE  handle'[x].closing = "asked"
  BY <1>1, <1>2
<1>3. ASSUME NEW o \in Objects, NEW p, StreamOp(o, p) PROVE handle'[x].closing = "asked"
  <2>1. handle[o] \in HandleType
    BY <1>1
  <2>2. CASE BglUvReadStart(o, p) \/ BglUvUdpRecvStart(o, p)
    BY <1>1, <2>1, <2>2 DEF BglUvReadStart, BglUvUdpRecvStart, HandleType
  <2>3. CASE Stop(o)
    BY <1>1, <2>1, <2>3 DEF Stop, HandleType
  <2>4. CASE BglUvListen(o, p)
    <3>1. PICK b : b = (handle[o].bare \/ handle[o].active \/ handle[o].listening
                        \/ handle[o].closing # "no")
      OBVIOUS
    <3>2. \/ handle' = [handle EXCEPT ![o].listening = TRUE]
          \/ handle' = [handle EXCEPT ![o].bare = b]
      BY <2>4, <3>1 DEF BglUvListen
    <3> QED BY <1>1, <2>1, <3>2 DEF HandleType
  <2>5. CASE BglUvStreamClose(o, p) \/ BglUvStreamClose(o, None)
    BY <1>1, <2>1, <2>5 DEF BglUvStreamClose, HandleType
  <2> QED BY <1>3, <2>2, <2>3, <2>4, <2>5 DEF StreamOp, BglUvReadStop, BglUvUdpRecvStop
<1>4. ASSUME NEW o \in Objects, NEW p, WatcherOp(o, p) PROVE handle'[x].closing = "asked"
  <2>1. handle[o] \in HandleType
    BY <1>1
  <2>2. CASE \E repeat \in BOOLEAN : BglUvTimerStart(o, p, repeat)
    BY <1>1, <2>1, <2>2 DEF BglUvTimerStart, HandleType
  <2>3. CASE BglUvIdleStart(o, p) \/ BglUvTimerStop(o) \/ BglUvIdleStop(o)
    BY <1>1, <2>1, <2>3 DEF BglUvIdleStart, BglUvTimerStop, BglUvIdleStop, HandleType
  <2>4. CASE PlainStart(o, p) \/ UvClose(o, p) \/ UvClose(o, None)
    BY <1>1, <2>1, <2>4 DEF PlainStart, UvClose, HandleType
  <2> QED BY <1>4, <2>2, <2>3, <2>4 DEF WatcherOp
<1>5. ASSUME NEW o \in Objects, HandleCb(o)
      PROVE  handle'[x].closing = "asked" \/ BglUvStreamCloseCb(x) \/ BglUvCloseCb(x)
  <2>1. handle[o] \in HandleType
    BY <1>1
  <2>2. CASE BglUvReadCb(o) \/ BglUvUdpRecvCb(o) \/ UvListenCb(o) \/ BglUvIdleCb(o) \/ BglUvHandleCb(o)
    BY <2>2 DEF BglUvReadCb, BglUvUdpRecvCb, UvListenCb, CallBack, BglUvIdleCb, BglUvHandleCb
  <2>3. CASE BglUvTimerCb(o)
    BY <1>1, <2>1, <2>3 DEF BglUvTimerCb, HandleType
  <2>4. CASE BglUvStreamCloseCb(o) /\ o # x
    BY <1>1, <2>4 DEF BglUvStreamCloseCb
  <2>5. CASE BglUvCloseCb(o) /\ o # x
    BY <1>1, <2>5 DEF BglUvCloseCb
  <2> QED BY <1>5, <2>2, <2>3, <2>4, <2>5
          DEF HandleCb, BglUvFsEventCb, BglUvFsPollCb, BglUvPollCb, BglUvAsyncCb, ProcessExitCb
<1>6. CASE UNCHANGED handle
  BY <1>6
<1>7. CASE Program
  <2>1. PICK p \in Procs :
          \/ UNCHANGED <<handle, want>>
          \/ \E o \in Streams \cup Sockets : StreamOp(o, p)
          \/ \E o \in Objects \ (Streams \cup Sockets) : WatcherOp(o, p)
    BY <1>7 DEF Program
  <2> QED BY <2>1, <1>3, <1>4, <1>6 DEF Objects
<1>8. CASE Loop
  BY <1>8, <1>5, <1>6 DEF Loop
<1>9. CASE Returns \/ Raises
  <2>1. CASE CloseReturn
    <3>1. \/ UNCHANGED handle
          \/ \E y \in Objects : handle' = [handle EXCEPT ![y].bare = TRUE]
      BY <2>1 DEF CloseReturn
    <3>2. ASSUME NEW y \in Objects, handle' = [handle EXCEPT ![y].bare = TRUE]
          PROVE  handle'[x].closing = "asked"
      BY <1>1, <3>2 DEF HandleType
    <3> QED BY <3>1, <3>2, <1>6
  <2>2. CASE ~ CloseReturn
    <3>1. UNCHANGED handle
      BY <1>9, <2>2 DEF Returns, Raises, ReadReturn, PlainReturn, HandleRaises
    <3> QED BY <3>1, <1>6
  <2> QED BY <2>1, <2>2
<1> QED BY <1>7, <1>8, <1>9 DEF UvNext

LEMMA ToldStep ==
  ASSUME UvConstants, UvInv, [UvNext]_uvVars
  PROVE  ToldClosed
<1>1. CASE UNCHANGED uvVars
  BY <1>1 DEF ToldClosed, Closed, uvVars
<1>2. CASE UvNext
  <2>1. SUFFICES ASSUME NEW o \in Objects, Closed(o), want[o].close # None, ~ handle[o].bare
                 PROVE  frame'.cb \in {"close", "closed"} /\ frame'.obj = o
    BY DEF ToldClosed
  <2>2. BglUvStreamCloseCb(o) \/ BglUvCloseCb(o)
    BY <1>2, <2>1, ClosingStays DEF Closed
  <2>3. CASE BglUvStreamCloseCb(o)
    <3>1. PoolOf(o) = "stream" /\ handle[o].closing = "asked"
      BY <2>3 DEF BglUvStreamCloseCb
    <3>2. o \notin Plains
      BY <3>1 DEF PoolOf, UvConstants
    <3>3. data[o] # 0 /\ pool["stream"].cell[data[o]].close = want[o].close
      BY <2>1, <3>1, <3>2 DEF UvInv, ObjectInv, ObjectRight
    <3>4. \E s : Start(o, "close", data[o], want[o].close, want[o].close, s)
      BY <2>1, <2>3, <3>3 DEF BglUvStreamCloseCb
    <3> QED BY <3>4 DEF Start
  <2>4. CASE BglUvCloseCb(o)
    <3>1. Start(o, "closed", 0, want[o].close, want[o].close, "")
      BY <2>1, <2>4 DEF BglUvCloseCb
    <3> QED BY <3>1 DEF Start
  <2> QED BY <2>2, <2>3, <2>4
<1> QED BY <1>1, <1>2
-----------------------------------------------------------------------------
(* Theorem PoolCells: in the libuv binding every cell of each pool (of     *)
(* file-system, write, shutdown and malloc requests, of stream and of      *)
(* watcher data) is free once, or in use by exactly one request or object, *)
(* or forgotten; no cell is released twice, and an object and its data     *)
(* point to each other, whatever the procedures call back into the library *)
(* and raise.  A callback follows a pointer that free_stream_data reset    *)
(* only after uv-read-stop, or a uv-listen that failed, was called on a    *)
(* stream that listened, was closing or, for the latter, was read, or on   *)
(* one in whose close procedure the program was.                           *)
THEOREM PoolCells ==
  ASSUME UvConstants
  PROVE  UvSpec => []PoolsSound
<1>1. UvInv => PoolsSound
  BY InvPools
<1> QED BY <1>1, Inductive, PTL

(* Theorem Called: each callback of bgluv.c calls the procedure, with the  *)
(* arguments, that the program gave for this request or handle, although   *)
(* it reads them from a cell that the pools reuse.                         *)
THEOREM Called ==
  ASSUME UvConstants
  PROVE  UvSpec => []CalledOwn
<1>1. UvInv => CalledOwn
  BY DEF UvInv, FrameInv, CalledOwn
<1> QED BY <1>1, Inductive, PTL

(* Theorem Marked: the procedure of a pending request that was allocated   *)
(* by malloc is in GC_marks, unless two of these requests held it at once. *)
THEOREM Marked ==
  ASSUME UvConstants
  PROVE  UvSpec => []MarksKeep
<1>1. UvInv => MarksKeep
  BY DEF UvInv, MarksInv, MarksKeep
<1> QED BY <1>1, Inductive, PTL

(* Theorem Told: no handle that was given to uv-close with a procedure     *)
(* stops closing but by a call of that procedure, except that of a stream  *)
(* whose data such a stop or failed listen released.                       *)
THEOREM Told ==
  ASSUME UvConstants
  PROVE  UvSpec => [][ToldClosed]_uvVars
<1>1. UvInv /\ [UvNext]_uvVars => ToldClosed
  BY ToldStep
<1> QED BY <1>1, Inductive, PTL DEF UvSpec
=============================================================================
