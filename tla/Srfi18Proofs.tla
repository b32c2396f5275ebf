---------------------------- MODULE Srfi18Proofs -----------------------------
(***************************************************************************)
(* Proofs about Srfi18 for any set of threads and any finite set of        *)
(* mutexes: what thread-join! tells, and what the end of a thread does to  *)
(* the mutexes that it has locked.                                         *)
(***************************************************************************)
EXTENDS Srfi18, FiniteSetTheorems, TLAPS

TypesThreads ==
  /\ status \in [Threads -> 0 .. 2]
  /\ detached \in [Threads -> BOOLEAN]
  /\ pthread \in [Threads -> {"none", "live", "gone", "freed"}]
  /\ cancel \in [Threads -> BOOLEAN]
  /\ ended \in [Threads -> BOOLEAN]
  /\ exc \in [Threads -> {"none", "uncaught", "terminated"}]
  /\ pc \in [Threads -> Points]
  /\ arg \in [Threads -> Threads \cup Mutexes \cup {Nil}]
  /\ orphan \in [Threads -> Threads \cup {Nil}]
  /\ told \in [Threads -> {"none", "value", "exception", "nothing"}]

TypesLocks ==
  /\ pm \in [Mutexes -> Threads \cup {Nil}]
  /\ locked \in [Mutexes -> BOOLEAN]
  /\ thread \in [Mutexes -> Threads \cup {Nil}]
  /\ next \in [Mutexes -> Mutexes \cup {Nil}]
  /\ prev \in [Mutexes -> Mutexes \cup {Nil}]
  /\ mutexes \in [Threads -> Mutexes \cup {Nil}]
  /\ on \in [Threads -> Mutexes \cup {Nil}]
  /\ look \in [on : Mutexes \cup {Nil}, locked : BOOLEAN, held : SUBSET Threads]
  /\ raced \in BOOLEAN

(* Where the body of a thread is, with the operations it calls.            *)
Inside == Busy \cup {"run", "look", "wait", "relock"}

(* What the point that a thread has reached says of its pthread.           *)
Life(t) ==
  /\ pc[t] = "new" => pthread[t] = "none" /\ status[t] = 0
  /\ pc[t] \in {"init", "joinwait", "join", "set", "cleanup"} \cup Inside
       => pthread[t] = "live" /\ status[t] # 2
  /\ pc[t] \in Abandoning \cup {"exit"} => pthread[t] = "live" /\ status[t] = 2
  /\ pc[t] = "dead" => pthread[t] \in {"gone", "freed"} /\ status[t] = 2
  /\ pc[t] \in {"joinwait", "join", "set"} => arg[t] \in Threads
  /\ pc[t] \in Busy \cup {"wait", "relock"} => on[t] \in Mutexes
  /\ pc[t] \in {"clear", "name", "free"} => arg[t] \in Mutexes

Ending == {"cleanup"} \cup Over

(* Why it ends, and what was told about it.                                *)
End(t) ==
  /\ pc[t] \in Ending => ended[t] \/ exc[t] # "none" \/ cancel[t]
  /\ told[t] = "value" => ended[t]
  /\ told[t] = "exception" => exc[t] # "none"
  /\ told[t] = "nothing" => cancel[t]
  /\ told[t] # "none" => pc[t] = "dead"

ThreadsInv == TypesThreads /\ (\A t \in Threads : Life(t)) /\ (\A t \in Threads : End(t))

LEMMA ThreadsInit ==
  ASSUME Distinct, SrfiInit
  PROVE  ThreadsInv
BY DEF Distinct, SrfiInit, InitThreads, InitLocks, ThreadsInv, TypesThreads, Life, End, Points, Inside,
       Ending, Over, Busy, Abandoning

LEMMA StartThreads ==
  ASSUME Distinct, ThreadsInv, NEW c \in Threads, NEW t \in Threads, NEW dt \in BOOLEAN,
         BglpthThreadStart(c, t, dt), UNCHANGED locks
  PROVE  ThreadsInv'
<1>1. TypesThreads'
  BY DEF ThreadsInv, TypesThreads, Points, Abandoning, BglpthThreadStart
<1>2. \A u \in Threads : Life(u)' /\ End(u)'
  BY DEF ThreadsInv, TypesThreads, Life, End, Points, Inside, Ending, Over, Busy,
         Abandoning, BglpthThreadStart, locks
<1> QED BY <1>1, <1>2 DEF ThreadsInv

LEMMA RunThreads ==
  ASSUME Distinct, ThreadsInv, NEW t \in Threads,
         BglpthThreadRun(t), UNCHANGED locks
  PROVE  ThreadsInv'
<1>1. TypesThreads'
  BY DEF ThreadsInv, TypesThreads, Points, Abandoning, BglpthThreadRun
<1>2. \A u \in Threads : Life(u)' /\ End(u)'
  BY DEF ThreadsInv, TypesThreads, Life, End, Points, Inside, Ending, Over, Busy,
         Abandoning, BglpthThreadRun, locks
<1> QED BY <1>1, <1>2 DEF ThreadsInv

LEMMA BodyEndsThreads ==
  ASSUME Distinct, ThreadsInv, NEW t \in Threads,
         BodyEnds(t), UNCHANGED locks
  PROVE  ThreadsInv'
<1>1. TypesThreads'
  BY DEF ThreadsInv, TypesThreads, Points, BodyEnds
<1>2. \A u \in Threads : Life(u)' /\ End(u)'
  BY DEF ThreadsInv, TypesThreads, Life, End, Points, Inside, Ending, Over, Busy,
         Abandoning, BodyEnds, locks
<1> QED BY <1>1, <1>2 DEF ThreadsInv

LEMMA CancelActsThreads ==
  ASSUME Distinct, ThreadsInv, NEW t \in Threads,
         CancelActs(t), UNCHANGED locks
  PROVE  ThreadsInv'
<1>1. TypesThreads'
  BY DEF ThreadsInv, TypesThreads, Points, CancelActs
<1>2. \A u \in Threads : Life(u)' /\ End(u)'
  BY DEF ThreadsInv, TypesThreads, Life, End, Points, Inside, Ending, Over, Busy,
         Abandoning, CancelActs, locks
<1> QED BY <1>1, <1>2 DEF ThreadsInv

LEMMA CancelInJoinThreads ==
  ASSUME Distinct, ThreadsInv, NEW t \in Threads,
         CancelInJoin(t), UNCHANGED locks
  PROVE  ThreadsInv'
<1>1. TypesThreads'
  BY DEF ThreadsInv, TypesThreads, Points, CancelInJoin
<1>2. \A u \in Threads : Life(u)' /\ End(u)'
  BY DEF ThreadsInv, TypesThreads, Life, End, Points, Inside, Ending, Over, Busy,
         Abandoning, CancelInJoin, locks
<1> QED BY <1>1, <1>2 DEF ThreadsInv

LEMMA CleanupThreads ==
  ASSUME Distinct, ThreadsInv, NEW t \in Threads,
         BglpthThreadCleanup(t), UNCHANGED locks
  PROVE  ThreadsInv'
<1>1. TypesThreads'
  BY DEF ThreadsInv, TypesThreads, Points, Abandoning, BglpthThreadCleanup
<1>2. \A u \in Threads : Life(u)' /\ End(u)'
  BY DEF ThreadsInv, TypesThreads, Life, End, Points, Inside, Ending, Over, Busy,
         Abandoning, BglpthThreadCleanup, locks
<1> QED BY <1>1, <1>2 DEF ThreadsInv

LEMMA ThreadExitThreads ==
  ASSUME Distinct, ThreadsInv, NEW t \in Threads,
         ThreadExit(t), UNCHANGED locks
  PROVE  ThreadsInv'
<1>1. TypesThreads'
  BY DEF ThreadsInv, TypesThreads, Points, ThreadExit
<1>2. \A u \in Threads : Life(u)' /\ End(u)'
  BY DEF ThreadsInv, TypesThreads, Life, End, Points, Inside, Ending, Over, Busy,
         Abandoning, ThreadExit, locks
<1> QED BY <1>1, <1>2 DEF ThreadsInv

LEMMA JoinThreads ==
  ASSUME Distinct, ThreadsInv, NEW c \in Threads, NEW t \in Threads,
         BglpthThreadJoin(c, t), UNCHANGED locks
  PROVE  ThreadsInv'
<1>1. TypesThreads'
  BY DEF ThreadsInv, TypesThreads, Points, Abandoning, BglpthThreadJoin
<1>2. \A u \in Threads : Life(u)' /\ End(u)'
  BY DEF ThreadsInv, TypesThreads, Life, End, Points, Inside, Ending, Over, Busy,
         Abandoning, BglpthThreadJoin, locks
<1> QED BY <1>1, <1>2 DEF ThreadsInv

LEMMA JoinReturnsThreads ==
  ASSUME Distinct, ThreadsInv, NEW c \in Threads,
         JoinReturns(c), UNCHANGED locks
  PROVE  ThreadsInv'
<1>1. TypesThreads'
  BY DEF ThreadsInv, TypesThreads, Points, JoinReturns
<1>2. \A u \in Threads : Life(u)' /\ End(u)'
  BY DEF ThreadsInv, TypesThreads, Life, End, Points, Inside, Ending, Over, Busy,
         Abandoning, JoinReturns, locks
<1> QED BY <1>1, <1>2 DEF ThreadsInv

LEMMA JoinTimeoutThreads ==
  ASSUME Distinct, ThreadsInv, NEW c \in Threads,
         JoinTimeout(c), UNCHANGED locks
  PROVE  ThreadsInv'
<1>1. TypesThreads'
  BY DEF ThreadsInv, TypesThreads, Points, JoinTimeout
<1>2. \A u \in Threads : Life(u)' /\ End(u)'
  BY DEF ThreadsInv, TypesThreads, Life, End, Points, Inside, Ending, Over, Busy,
         Abandoning, JoinTimeout, locks
<1> QED BY <1>1, <1>2 DEF ThreadsInv

LEMMA SetEndExceptionThreads ==
  ASSUME Distinct, ThreadsInv, NEW c \in Threads,
         SetEndException(c), UNCHANGED locks
  PROVE  ThreadsInv'
<1>1. TypesThreads'
  BY DEF ThreadsInv, TypesThreads, Points, SetEndException
<1>2. \A u \in Threads : Life(u)' /\ End(u)'
  BY DEF ThreadsInv, TypesThreads, Life, End, Points, Inside, Ending, Over, Busy,
         Abandoning, SetEndException, locks
<1> QED BY <1>1, <1>2 DEF ThreadsInv

LEMMA TerminateThreads ==
  ASSUME Distinct, ThreadsInv, NEW c \in Threads, NEW t \in Threads,
         BglpthThreadTerminate(c, t), UNCHANGED locks
  PROVE  ThreadsInv'
<1>1. TypesThreads'
  <2>1. CASE status[t] # 2
    <3>1. cancel' \in [Threads -> BOOLEAN]
      BY <2>1 DEF ThreadsInv, TypesThreads, Points, BglpthThreadTerminate
    <3> QED BY <2>1, <3>1 DEF ThreadsInv, TypesThreads, Points, BglpthThreadTerminate
  <2>2. CASE status[t] = 2
    BY <2>2 DEF ThreadsInv, TypesThreads, Points, BglpthThreadTerminate
  <2> QED BY <2>1, <2>2
<1>2. \A u \in Threads : Life(u)' /\ End(u)'
  BY DEF ThreadsInv, TypesThreads, Life, End, Points, Inside, Ending, Over, Busy,
         Abandoning, BglpthThreadTerminate, locks
<1> QED BY <1>1, <1>2 DEF ThreadsInv

-----------------------------------------------------------------------------
(* s goes through the n mutexes of the list of t, both ways and once.      *)
Chain(t, n, s) ==
  /\ n = 0 => mutexes[t] = Nil
  /\ n > 0 => mutexes[t] = s[1] /\ next[s[n]] = Nil /\ prev[s[1]] = Nil
  /\ \A i \in 1 .. n - 1 : next[s[i]] = s[i + 1] /\ prev[s[i + 1]] = s[i]
  /\ \A i, j \in 1 .. n : s[i] = s[j] => i = j
  /\ \A i \in 1 .. n : InList(s[i], t)
  /\ \A m \in Mutexes : InList(m, t) => \E i \in 1 .. n : s[i] = m

Lists == \A t \in Threads : \E n \in Nat : \E s \in [1 .. n -> Mutexes] : Chain(t, n, s)

(* register_mutex, for a mutex that is marked by t.                        *)
Registers(m, t) ==
  /\ thread' = [thread EXCEPT ![m] = t]
  /\ next' = IF mutexes[t] # Nil THEN [next EXCEPT ![m] = mutexes[t]] ELSE next
  /\ prev' = IF mutexes[t] # Nil THEN [prev EXCEPT ![mutexes[t]] = m] ELSE prev
  /\ mutexes' = [mutexes EXCEPT ![t] = m]

(* The list of t with m in front of it.                                    *)
LEMMA RegisterChain ==
  ASSUME Distinct, TypesLocks, NEW m \in Mutexes, NEW t \in Threads,
         ~ InList(m, t), next[m] = Nil, prev[m] = Nil, Registers(m, t),
         \A x \in Mutexes : InList(x, t)' <=> InList(x, t) \/ x = m,
         NEW n \in Nat, NEW s \in [1 .. n -> Mutexes], Chain(t, n, s)
  PROVE  \E k \in Nat : \E r \in [1 .. k -> Mutexes] : Chain(t, k, r)'
<1> DEFINE r == [i \in 1 .. n + 1 |-> IF i = 1 THEN m ELSE s[i - 1]]
<1>1. r \in [1 .. n + 1 -> Mutexes]
  OBVIOUS
<1>2. r[1] = m /\ \A i \in 1 .. n : r[i + 1] = s[i]
  OBVIOUS
<1>3. \A i \in 2 .. n + 1 : i - 1 \in 1 .. n /\ r[i] = s[i - 1]
  OBVIOUS
<1>4. \A i \in 1 .. n : s[i] # m /\ s[i] \in Mutexes
  BY DEF Chain
<1>5. mutexes' = [mutexes EXCEPT ![t] = m]
  BY DEF Registers
<1>6. CASE n = 0
  <2>1. next' = next /\ prev' = prev
    BY <1>6 DEF Chain, Registers
  <2>2. \A x \in Mutexes : InList(x, t)' <=> x = m
    BY <1>6 DEF Chain
  <2>3. Chain(t, 1, r)'
    BY <1>2, <1>5, <1>6, <2>1, <2>2 DEF Chain, TypesLocks
  <2>4. n + 1 = 1
    BY <1>6
  <2> HIDE DEF r
  <2> QED BY <1>1, <2>3, <2>4
<1>7. CASE n > 0
  <2> DEFINE h == s[1]
  <2>1. h \in Mutexes /\ h # m /\ h = mutexes[t] /\ h # Nil /\ prev[h] = Nil /\ 1 \in 1 .. n
    BY <1>4, <1>7 DEF Chain, Distinct
  <2>2. next' = [next EXCEPT ![m] = h] /\ prev' = [prev EXCEPT ![h] = m]
    BY <2>1 DEF Registers
  <2>3. /\ mutexes'[t] = r[1]
        /\ next'[r[n + 1]] = Nil
        /\ prev'[r[1]] = Nil
    <3>1. r[n + 1] = s[n] /\ n \in 1 .. n /\ s[n] # m /\ s[n] \in Mutexes /\ next[s[n]] = Nil
      BY <1>2, <1>4, <1>7 DEF Chain
    <3>2. next'[s[n]] = Nil
      BY <2>2, <3>1 DEF TypesLocks
    <3>3. prev'[m] = Nil
      BY <2>1, <2>2 DEF TypesLocks
    <3>4. mutexes'[t] = m
      BY <1>5 DEF TypesLocks
    <3> QED BY <1>2, <3>1, <3>2, <3>3, <3>4
  <2>4. ASSUME NEW i \in 1 .. n
        PROVE  next'[r[i]] = r[i + 1] /\ prev'[r[i + 1]] = r[i]
    <3>1. CASE i = 1
      BY <1>2, <2>1, <2>2, <3>1 DEF TypesLocks
    <3>2. CASE i > 1
      <4>1. i - 1 \in 1 .. n - 1 /\ r[i] = s[i - 1] /\ r[i + 1] = s[i] /\ i - 1 \in 1 .. n
        BY <1>2, <1>3, <3>2
      <4>2. next[s[i - 1]] = s[i] /\ prev[s[i]] = s[i - 1]
        BY <4>1, <3>2 DEF Chain
      <4>3. s[i - 1] # m /\ s[i] # h /\ s[i] \in Mutexes /\ s[i - 1] \in Mutexes
        BY <1>4, <2>1, <3>2, <4>1 DEF Chain
      <4> QED BY <2>2, <4>1, <4>2, <4>3 DEF TypesLocks
    <3> QED BY <3>1, <3>2
  <2>5. \A i, j \in 1 .. n + 1 : r[i] = r[j] => i = j
    <3> SUFFICES ASSUME NEW i \in 1 .. n + 1, NEW j \in 1 .. n + 1, r[i] = r[j] PROVE i = j
      OBVIOUS
    <3>1. CASE i = 1 \/ j = 1
      BY <1>2, <1>3, <1>4, <3>1
    <3>2. CASE i # 1 /\ j # 1
      BY <1>3, <3>2 DEF Chain
    <3> QED BY <3>1, <3>2
  <2>6. \A i \in 1 .. n + 1 : InList(r[i], t)'
    <3> SUFFICES ASSUME NEW i \in 1 .. n + 1 PROVE InList(r[i], t)'
      OBVIOUS
    <3>1. CASE i = 1
      BY <1>2, <3>1
    <3>2. CASE i # 1
      <4>1. i - 1 \in 1 .. n /\ r[i] = s[i - 1] /\ s[i - 1] # m /\ s[i - 1] \in Mutexes
        BY <1>3, <1>4, <3>2
      <4>2. InList(s[i - 1], t)
        BY <4>1 DEF Chain
      <4> QED BY <4>1, <4>2
    <3> QED BY <3>1, <3>2
  <2>7. ASSUME NEW x \in Mutexes, InList(x, t)'
        PROVE  \E i \in 1 .. n + 1 : r[i] = x
    <3>1. CASE x = m
      BY <1>2, <3>1
    <3>2. CASE x # m
      <4>1. InList(x, t)
        BY <2>7, <3>2
      <4>2. PICK i \in 1 .. n : s[i] = x
        BY <4>1 DEF Chain
      <4>3. i + 1 \in 1 .. n + 1 /\ r[i + 1] = x
        BY <1>2, <4>2
      <4> QED BY <4>3
    <3> QED BY <3>1, <3>2
  <2>8. Chain(t, n + 1, r)'
    <3> HIDE DEF r
    <3>1. n + 1 - 1 = n /\ n + 1 # 0
      OBVIOUS
    <3> QED BY <2>3, <2>4, <2>5, <2>6, <2>7, <3>1 DEF Chain
  <2> QED BY <1>1, <2>8
<1> QED BY <1>6, <1>7

(* Where a locked mutex is in the list of its owner.                       *)
LEMMA Place ==
  ASSUME TypesLocks, NEW t \in Threads, NEW m \in Mutexes, InList(m, t),
         NEW n \in Nat, NEW s \in [1 .. n -> Mutexes], Chain(t, n, s)
  PROVE  \E k \in 1 .. n :
           /\ s[k] = m
           /\ k = 1 => prev[m] = Nil /\ mutexes[t] = m
           /\ k > 1 => k - 1 \in 1 .. n /\ prev[m] = s[k - 1]
           /\ k = n => next[m] = Nil
           /\ k < n => k + 1 \in 1 .. n /\ next[m] = s[k + 1]
<1>1. PICK k \in 1 .. n : s[k] = m
  BY DEF Chain
<1>2. k > 1 => prev[m] = s[k - 1]
  <2> SUFFICES ASSUME k > 1 PROVE prev[m] = s[k - 1]
    OBVIOUS
  <2>1. k - 1 \in 1 .. n - 1 /\ k - 1 + 1 = k
    OBVIOUS
  <2>2. prev[s[k - 1 + 1]] = s[k - 1]
    BY <2>1 DEF Chain
  <2> QED BY <1>1, <2>1, <2>2
<1>3. k < n => next[m] = s[k + 1]
  BY <1>1 DEF Chain
<1>4. (k = 1 => prev[m] = Nil /\ mutexes[t] = m) /\ (k = n => next[m] = Nil)
  BY <1>1 DEF Chain
<1>5. (k > 1 => k - 1 \in 1 .. n) /\ (k < n => k + 1 \in 1 .. n)
  OBVIOUS
<1> QED BY <1>1, <1>2, <1>3, <1>4, <1>5

(* A list of which nothing changes.                                        *)
LEMMA ChainKept ==
  ASSUME NEW u \in Threads, NEW n \in Nat, NEW s \in [1 .. n -> Mutexes], Chain(u, n, s),
         mutexes'[u] = mutexes[u],
         \A x \in Mutexes : InList(x, u) => next'[x] = next[x] /\ prev'[x] = prev[x],
         \A x \in Mutexes : InList(x, u)' <=> InList(x, u)
  PROVE  Chain(u, n, s)'
<1>1. \A i \in 1 .. n : /\ s[i] \in Mutexes
                        /\ next'[s[i]] = next[s[i]] /\ prev'[s[i]] = prev[s[i]]
                        /\ InList(s[i], u)'
  BY DEF Chain
<1>2. \A i \in 1 .. n - 1 : i \in 1 .. n /\ i + 1 \in 1 .. n
  OBVIOUS
<1>3. n > 0 => 1 \in 1 .. n /\ n \in 1 .. n
  OBVIOUS
<1> QED BY <1>1, <1>2, <1>3 DEF Chain

(* The list of t without m.                                                *)
LEMMA UnregisterChain ==
  ASSUME Distinct, TypesLocks, NEW t \in Threads, NEW m \in Mutexes, InList(m, t),
         Unregister(m), \A x \in Mutexes : InList(x, t)' <=> InList(x, t) /\ x # m,
         NEW n \in Nat, NEW s \in [1 .. n -> Mutexes], Chain(t, n, s)
  PROVE  \E l \in Nat : \E r \in [1 .. l -> Mutexes] : Chain(t, l, r)'
<1>1. PICK k \in 1 .. n :
         /\ s[k] = m
         /\ k = 1 => prev[m] = Nil /\ mutexes[t] = m
         /\ k > 1 => k - 1 \in 1 .. n /\ prev[m] = s[k - 1]
         /\ k = n => next[m] = Nil
         /\ k < n => k + 1 \in 1 .. n /\ next[m] = s[k + 1]
  BY Place
<1> DEFINE r == [i \in 1 .. n - 1 |-> IF i < k THEN s[i] ELSE s[i + 1]]
<1>2. n - 1 \in Nat /\ r \in [1 .. n - 1 -> Mutexes]
  OBVIOUS
<1>3. \A i \in 1 .. n - 1 : /\ i < k => i \in 1 .. n /\ r[i] = s[i]
                            /\ i >= k => i + 1 \in 1 .. n /\ r[i] = s[i + 1]
  OBVIOUS
<1>4. \A i \in 1 .. n : s[i] \in Mutexes /\ s[i] # Nil /\ (i # k => s[i] # m)
  BY <1>1 DEF Chain, Distinct
<1>5. thread[m] = t
  BY DEF InList
<1>6. \A x \in Mutexes :
        /\ next'[x] = IF k > 1 /\ x = s[k - 1] THEN (IF k < n THEN s[k + 1] ELSE Nil)
                      ELSE IF x = m THEN Nil ELSE next[x]
        /\ prev'[x] = IF k < n /\ x = s[k + 1] THEN (IF k > 1 THEN s[k - 1] ELSE Nil)
                      ELSE IF x = m THEN Nil ELSE prev[x]
  <2>1. k = 1 \/ k > 1
    OBVIOUS
  <2>2. k = n \/ k < n
    OBVIOUS
  <2> QED BY <1>1, <1>4, <2>1, <2>2 DEF Unregister, TypesLocks
<1>7. mutexes'[t] = IF k > 1 THEN mutexes[t] ELSE IF n > 1 THEN s[2] ELSE Nil
  <2>1. CASE k > 1
    BY <1>1, <1>4, <1>5, <2>1 DEF Unregister
  <2>2. CASE k = 1
    BY <1>1, <1>4, <1>5, <2>2 DEF Unregister, TypesLocks, Distinct
  <2> QED BY <2>1, <2>2
<1> HIDE DEF r
<1>8. \A i \in 1 .. n - 1 : r[i] \in Mutexes /\ r[i] # m
  BY <1>3, <1>4
<1>9. n - 1 = 0 => mutexes'[t] = Nil
  BY <1>7
<1>10. n - 1 > 0 => mutexes'[t] = r[1] /\ next'[r[n - 1]] = Nil /\ prev'[r[1]] = Nil
  <2> SUFFICES ASSUME n > 1
               PROVE  mutexes'[t] = r[1] /\ next'[r[n - 1]] = Nil /\ prev'[r[1]] = Nil
    OBVIOUS
  <2>1. 1 \in 1 .. n - 1 /\ n - 1 \in 1 .. n - 1 /\ 2 \in 1 .. n
    OBVIOUS
  <2>2. mutexes'[t] = r[1]
    <3>1. CASE k > 1
      BY <1>3, <1>7, <2>1, <3>1 DEF Chain
    <3>2. CASE k = 1
      BY <1>3, <1>7, <2>1, <3>2
    <3> QED BY <3>1, <3>2
  <2>3. next'[r[n - 1]] = Nil
    <3>1. CASE k = n
      BY <1>3, <1>4, <1>6, <2>1, <3>1
    <3>2. CASE k < n
      <4>1. r[n - 1] = s[n] /\ next[s[n]] = Nil /\ n \in 1 .. n
        BY <1>3, <2>1, <3>2 DEF Chain
      <4>2. k > 1 => s[n] # s[k - 1]
        BY <1>1, <3>2, <4>1 DEF Chain
      <4> QED BY <1>4, <1>6, <3>2, <4>1, <4>2
    <3> QED BY <3>1, <3>2
  <2>4. prev'[r[1]] = Nil
    <3>1. CASE k = 1
      BY <1>3, <1>4, <1>6, <2>1, <3>1
    <3>2. CASE k > 1
      <4>1. r[1] = s[1] /\ prev[s[1]] = Nil /\ 1 \in 1 .. n
        BY <1>3, <2>1, <3>2 DEF Chain
      <4>2. k < n => s[1] # s[k + 1]
        BY <1>1, <3>2, <4>1 DEF Chain
      <4> QED BY <1>4, <1>6, <3>2, <4>1, <4>2
    <3> QED BY <3>1, <3>2
  <2> QED BY <2>2, <2>3, <2>4
<1>11. ASSUME NEW i \in 1 .. n - 1 - 1
       PROVE  next'[r[i]] = r[i + 1] /\ prev'[r[i + 1]] = r[i]
  <2>1. i \in 1 .. n - 1 /\ i + 1 \in 1 .. n - 1 /\ i \in 1 .. n /\ i + 1 \in 1 .. n
        /\ i + 2 \in 1 .. n /\ i + 1 \in 1 .. n - 1
    OBVIOUS
  <2>2. next[s[i]] = s[i + 1] /\ prev[s[i + 1]] = s[i]
    BY <2>1 DEF Chain
  <2>3. next[s[i + 1]] = s[i + 2] /\ prev[s[i + 2]] = s[i + 1]
    <3>1. next[s[i + 1]] = s[i + 1 + 1] /\ prev[s[i + 1 + 1]] = s[i + 1]
      BY <2>1 DEF Chain
    <3>2. i + 1 + 1 = i + 2
      BY <2>1
    <3> QED BY <3>1, <3>2
  <2>4. \A a, b \in 1 .. n : s[a] = s[b] => a = b
    BY DEF Chain
  <2>5. CASE i + 1 < k
    <3>1. r[i] = s[i] /\ r[i + 1] = s[i + 1]
      BY <1>3, <2>1, <2>5
    <3>2. s[i] # s[k - 1] /\ (k < n => s[i + 1] # s[k + 1])
      BY <1>1, <2>1, <2>4, <2>5
    <3> QED BY <1>4, <1>6, <2>1, <2>2, <2>5, <3>1, <3>2
  <2>6. CASE i + 1 = k
    <3>1. r[i] = s[i] /\ r[i + 1] = s[i + 2] /\ k - 1 = i /\ k + 1 = i + 2 /\ k < n /\ k > 1
      <4>1. k - 1 = i /\ k + 1 = i + 2 /\ k < n /\ k > 1 /\ i + 1 + 1 = i + 2
        BY <2>1, <2>6
      <4> QED BY <1>3, <2>1, <2>6, <4>1
    <3> QED BY <1>6, <1>8, <2>1, <3>1
  <2>7. CASE i >= k
    <3>1. r[i] = s[i + 1] /\ r[i + 1] = s[i + 2] /\ i + 1 + 1 = i + 2
      <4>1. i + 1 >= k /\ i + 1 + 1 = i + 2
        BY <2>1, <2>7
      <4> QED BY <1>3, <2>1, <2>7, <4>1
    <3>2. (k > 1 => s[i + 1] # s[k - 1]) /\ (k < n => s[i + 2] # s[k + 1])
      BY <1>1, <2>1, <2>4, <2>7
    <3>3. i + 1 # k /\ i + 2 # k
      BY <2>1, <2>7
    <3> QED BY <1>4, <1>6, <2>1, <2>3, <3>1, <3>2, <3>3
  <2> QED BY <2>1, <2>5, <2>6, <2>7
<1>12. \A i, j \in 1 .. n - 1 : r[i] = r[j] => i = j
  BY <1>3 DEF Chain
<1>13. \A i \in 1 .. n - 1 : InList(r[i], t)'
  <2> SUFFICES ASSUME NEW i \in 1 .. n - 1 PROVE InList(r[i], t)'
    OBVIOUS
  <2>1. \A j \in 1 .. n : InList(s[j], t)
    BY DEF Chain
  <2>2. InList(r[i], t)
    <3>1. CASE i < k
      BY <1>3, <2>1, <3>1
    <3>2. CASE i >= k
      BY <1>3, <2>1, <3>2
    <3> QED BY <3>1, <3>2
  <2> QED BY <1>8, <2>2
<1>14. ASSUME NEW x \in Mutexes, InList(x, t)'
       PROVE  \E i \in 1 .. n - 1 : r[i] = x
  <2>1. x # m /\ InList(x, t)
    BY <1>14
  <2>2. PICK i \in 1 .. n : s[i] = x
    BY <2>1 DEF Chain
  <2>3. CASE i < k
    <3>1. i \in 1 .. n - 1 /\ r[i] = x
      BY <1>3, <2>2, <2>3
    <3> QED BY <3>1
  <2>4. CASE i > k
    <3>1. i - 1 \in 1 .. n - 1 /\ i - 1 >= k /\ i - 1 + 1 = i
      BY <2>4
    <3>2. r[i - 1] = x
      BY <1>3, <2>2, <3>1
    <3> QED BY <3>1, <3>2
  <2> QED BY <1>1, <2>1, <2>2, <2>3, <2>4
<1>15. Chain(t, n - 1, r)'
  BY <1>9, <1>10, <1>11, <1>12, <1>13, <1>14 DEF Chain
<1> QED BY <1>2, <1>15

LEMMA RegisterLists ==
  ASSUME Distinct, TypesLocks, Lists, NEW m \in Mutexes, NEW t \in Threads,
         \A u \in Threads : ~ InList(m, u), next[m] = Nil, prev[m] = Nil, Registers(m, t),
         \A x \in Mutexes, u \in Threads :
           InList(x, u)' <=> InList(x, u) \/ (x = m /\ u = t)
  PROVE  Lists'
<1> SUFFICES ASSUME NEW u \in Threads
             PROVE  \E k \in Nat : \E r \in [1 .. k -> Mutexes] : Chain(u, k, r)'
  BY DEF Lists
<1>1. PICK n \in Nat : \E s \in [1 .. n -> Mutexes] : Chain(u, n, s)
  BY DEF Lists
<1>2. PICK s \in [1 .. n -> Mutexes] : Chain(u, n, s)
  BY <1>1
<1>3. CASE u = t
  BY <1>2, <1>3, RegisterChain
<1>4. CASE u # t
  <2>1. PICK l \in Nat : \E q \in [1 .. l -> Mutexes] : Chain(t, l, q)
    BY DEF Lists
  <2>2. PICK q \in [1 .. l -> Mutexes] : Chain(t, l, q)
    BY <2>1
  <2>3. mutexes[t] # Nil => mutexes[t] \in Mutexes /\ InList(mutexes[t], t)
    <3>1. l > 0 => 1 \in 1 .. l
      OBVIOUS
    <3> QED BY <2>2, <3>1 DEF Chain
  <2>4. \A x \in Mutexes : InList(x, u) => next'[x] = next[x] /\ prev'[x] = prev[x]
    <3>1. \A x \in Mutexes : InList(x, u) => x # m /\ (mutexes[t] # Nil => x # mutexes[t])
      BY <1>4, <2>3 DEF InList
    <3> QED BY <3>1 DEF Registers, TypesLocks
  <2>5. \A x \in Mutexes : InList(x, u)' <=> InList(x, u)
    BY <1>4
  <2>6. mutexes'[u] = mutexes[u]
    BY <1>4 DEF Registers, TypesLocks
  <2>7. Chain(u, n, s)'
    BY <1>2, <2>4, <2>5, <2>6, ChainKept
  <2> QED BY <2>7
<1> QED BY <1>3, <1>4

(* The neighbours of m are in the list of t too.                           *)
LEMMA Neighbours ==
  ASSUME Distinct, TypesLocks, Lists, NEW m \in Mutexes, NEW t \in Threads,
         InList(m, t)
  PROVE  /\ prev[m] # Nil => InList(prev[m], t) /\ prev[m] \in Mutexes
         /\ next[m] # Nil => InList(next[m], t) /\ next[m] \in Mutexes
         /\ prev[m] # Nil =>
              /\ mutexes[t] \in Mutexes
              /\ InList(mutexes[t], t) /\ prev[mutexes[t]] = Nil
         /\ prev[m] = Nil => mutexes[t] = m
<1>1. PICK n \in Nat : \E s \in [1 .. n -> Mutexes] : Chain(t, n, s)
  BY DEF Lists
<1>2. PICK s \in [1 .. n -> Mutexes] : Chain(t, n, s)
  BY <1>1
<1>3. PICK k \in 1 .. n :
         /\ s[k] = m
         /\ k = 1 => prev[m] = Nil /\ mutexes[t] = m
         /\ k > 1 => k - 1 \in 1 .. n /\ prev[m] = s[k - 1]
         /\ k = n => next[m] = Nil
         /\ k < n => k + 1 \in 1 .. n /\ next[m] = s[k + 1]
  BY <1>2, Place
<1>4. n > 0 /\ 1 \in 1 .. n /\ mutexes[t] = s[1] /\ prev[s[1]] = Nil
  BY <1>2 DEF Chain
<1>5. CASE k = 1
  <2>1. k = n \/ k < n
    OBVIOUS
  <2> QED BY <1>2, <1>3, <1>5, <2>1 DEF Chain, TypesLocks
<1>6. CASE k > 1
  <2>1. k = n \/ k < n
    OBVIOUS
  <2>2. s[k - 1] \in Mutexes /\ s[1] \in Mutexes
    BY <1>3, <1>4, <1>6
  <2>3. prev[m] = s[k - 1] /\ prev[m] # Nil
    BY <1>3, <1>6, <2>2 DEF Distinct
  <2>4. next[m] # Nil => next[m] = s[k + 1] /\ k + 1 \in 1 .. n
    BY <1>3, <2>1
  <2>5. \A i \in 1 .. n : s[i] \in Mutexes /\ InList(s[i], t)
    BY <1>2 DEF Chain
  <2> QED BY <1>3, <1>4, <1>6, <2>3, <2>4, <2>5
<1> QED BY <1>5, <1>6

LEMMA UnregisterLists ==
  ASSUME Distinct, TypesLocks, Lists, NEW m \in Mutexes, NEW t \in Threads,
         InList(m, t), Unregister(m),
         \A x \in Mutexes, u \in Threads : InList(x, u)' <=> InList(x, u) /\ x # m
  PROVE  Lists'
<1> SUFFICES ASSUME NEW u \in Threads
             PROVE  \E k \in Nat : \E r \in [1 .. k -> Mutexes] : Chain(u, k, r)'
  BY DEF Lists
<1>1. PICK n \in Nat : \E s \in [1 .. n -> Mutexes] : Chain(u, n, s)
  BY DEF Lists
<1>2. PICK s \in [1 .. n -> Mutexes] : Chain(u, n, s)
  BY <1>1
<1>3. CASE u = t
  BY <1>2, <1>3, UnregisterChain
<1>4. CASE u # t
  <2>1. \A x \in Mutexes : InList(x, u) => next'[x] = next[x] /\ prev'[x] = prev[x]
    <3>1. /\ prev[m] # Nil => InList(prev[m], t)
          /\ next[m] # Nil => InList(next[m], t)
      BY Neighbours
    <3>2. \A x \in Mutexes : InList(x, u) =>
            /\ x # m
            /\ prev[m] # Nil => x # prev[m]
            /\ next[m] # Nil => x # next[m]
      BY <1>4, <3>1 DEF InList
    <3> QED BY <3>2 DEF Unregister, TypesLocks
  <2>2. \A x \in Mutexes : InList(x, u)' <=> InList(x, u)
    BY <1>4 DEF InList
  <2>3. mutexes'[u] = mutexes[u]
    BY <1>4 DEF Unregister, TypesLocks, InList
  <2>4. Chain(u, n, s)'
    BY <1>2, <2>1, <2>2, <2>3, ChainKept
  <2> QED BY <2>4
<1> QED BY <1>3, <1>4

-----------------------------------------------------------------------------
(* Two threads are never inside operations on one mutex.                   *)
Apart ==
  \A m \in Mutexes : \A t, u \in Threads : Operating(t, m) /\ Operating(u, m) => t = u

(* What the fields of a mutex say, whoever holds it.                       *)
Owned(m) ==
  /\ locked[m] /\ thread[m] # Nil => pm[m] = thread[m]
  /\ locked[m] /\ thread[m] = Nil => \E t \in Threads : Operating(t, m)
  /\ ~ locked[m] /\ thread[m] # Nil =>
       \/ pc[thread[m]] \in Over
       \/ pc[thread[m]] \in {"marking", "unmarking"} /\ on[thread[m]] = m
  /\ ~ locked[m] /\ pm[m] # Nil =>
       \/ \E t \in Threads : Operating(t, m)
       \/ cancel[pm[m]] /\ on[pm[m]] = m /\ pc[pm[m]] \in Ending
  /\ (\A t \in Threads : ~ InList(m, t)) => next[m] = Nil /\ prev[m] = Nil

(* How far the operation of a thread has come.                             *)
At(t) ==
  /\ pc[t] = "locking" => pm[on[t]] = t /\ ~ locked[on[t]]
  /\ pc[t] \in {"marking", "unmarking"} => pm[on[t]] = t /\ thread[on[t]] = t /\ ~ locked[on[t]]
  /\ pc[t] = "clearing" => thread[on[t]] = Nil
  /\ pc[t] = "releasing" => thread[on[t]] = Nil /\ ~ locked[on[t]]
  /\ pc[t] = "sleeping" => pm[on[t]] = t /\ thread[on[t]] = Nil /\ ~ locked[on[t]]
  /\ pc[t] = "clear" => pm[arg[t]] = t /\ thread[arg[t]] = Nil
  /\ pc[t] = "name" => pm[arg[t]] = t /\ thread[arg[t]] = Nil /\ ~ locked[arg[t]]
  /\ pc[t] = "free" => pm[arg[t]] = t /\ thread[arg[t]] = t /\ ~ locked[arg[t]]

Emptied(t) == pc[t] \in {"exit", "dead"} => mutexes[t] = Nil

(* Who holds the mutex of a call of mutex-state is known to have held it.  *)
Looking ==
  look.on # Nil =>
    /\ pm[look.on] # Nil => pm[look.on] \in look.held
    /\ thread[look.on] # Nil =>
         \/ thread[look.on] \in look.held
         \/ ~ look.locked /\ pc[thread[look.on]] \in Over

LocksInv ==
  /\ Apart
  /\ \A m \in Mutexes : Owned(m)
  /\ \A t \in Threads : At(t)
  /\ \A t \in Threads : Emptied(t)
  /\ Lists
  /\ Looking

SafetyInv == ThreadsInv /\ TypesLocks /\ (~ raced => LocksInv)

-----------------------------------------------------------------------------
(* Steps of the threads outside of the operations on the mutexes.          *)
Onward ==
  \A u \in Threads :
    /\ cancel[u] => cancel'[u]
    /\ on'[u] = on[u]
    /\ \/ pc'[u] = pc[u] /\ (pc[u] \in {"clear", "name", "free"} => arg'[u] = arg[u])
       \/ /\ pc[u] \notin Busy \cup {"clear", "name", "free"}
          /\ pc'[u] \notin Busy \cup {"clear", "name", "free"}
          /\ pc[u] \in Ending => pc'[u] \in Ending
          /\ pc[u] \in Over => pc'[u] \in Over
          /\ pc'[u] \in {"exit", "dead"} => pc[u] \in {"exit", "dead"} \/ mutexes[u] = Nil

LEMMA OnwardLocks ==
  ASSUME Distinct, TypesLocks, LocksInv, Onward, UNCHANGED <<pm, locked, links>>, Looking'
  PROVE  LocksInv'
<1> USE DEF links
<1>1. \A u \in Threads, m \in Mutexes : Operating(u, m)' <=> Operating(u, m)
  BY DEF Onward, Operating, Busy
<1>2. \A u \in Threads, m \in Mutexes : InList(m, u)' <=> InList(m, u)
  BY DEF Onward, InList, Busy
<1>3. Apart'
  BY <1>1 DEF LocksInv, Apart
<1>4. ASSUME NEW m \in Mutexes PROVE Owned(m)'
  <2>1. Owned(m) /\ thread[m] \in Threads \cup {Nil} /\ pm[m] \in Threads \cup {Nil}
    BY DEF LocksInv, TypesLocks
  <2>2. ~ locked[m] /\ thread[m] # Nil =>
          \/ pc'[thread[m]] \in Over
          \/ pc'[thread[m]] \in {"marking", "unmarking"} /\ on'[thread[m]] = m
    BY <2>1 DEF Owned, Onward, Busy, Over, Abandoning
  <2>3. ~ locked[m] /\ pm[m] # Nil =>
          \/ \E t \in Threads : Operating(t, m)
          \/ cancel'[pm[m]] /\ on'[pm[m]] = m /\ pc'[pm[m]] \in Ending
    BY <2>1 DEF Owned, Onward
  <2> QED BY <1>1, <1>2, <2>1, <2>2, <2>3 DEF Owned
<1>5. ASSUME NEW t \in Threads PROVE At(t)'
  BY DEF LocksInv, At, Onward, Busy
<1>6. ASSUME NEW t \in Threads PROVE Emptied(t)'
  BY DEF LocksInv, Emptied, Onward
<1>7. Lists'
  <2>1. ASSUME NEW t \in Threads, NEW n \in Nat, NEW s \in [1 .. n -> Mutexes], Chain(t, n, s)
        PROVE  Chain(t, n, s)'
    BY <1>2, <2>1 DEF Chain
  <2> QED BY <2>1 DEF LocksInv, Lists
<1> QED BY <1>3, <1>4, <1>5, <1>6, <1>7 DEF LocksInv

(* A call of mutex-state that goes on while nobody gets a mutex.           *)
LEMMA LooksOn ==
  ASSUME TypesLocks, Looking, look' = look,
         \A u \in Threads : pc[u] \in Over => pc'[u] \in Over,
         \A m \in Mutexes : pm'[m] \in {pm[m], Nil},
         \A m \in Mutexes : thread'[m] \in {thread[m], Nil} \/ (pm[m] # Nil /\ thread'[m] = pm[m])
  PROVE  Looking'
<1> SUFFICES ASSUME look.on # Nil
             PROVE  /\ pm'[look.on] # Nil => pm'[look.on] \in look.held
                    /\ thread'[look.on] # Nil =>
                         \/ thread'[look.on] \in look.held
                         \/ ~ look.locked /\ pc'[thread'[look.on]] \in Over
  BY DEF Looking
<1>1. look.on \in Mutexes
  BY DEF TypesLocks
<1>2. thread[look.on] \in Threads \cup {Nil}
  BY <1>1 DEF TypesLocks
<1> QED BY <1>1, <1>2 DEF Looking

(* Steps that only move a thread, between points of its body or of its     *)
(* end.                                                                    *)
LEMMA ThreadsMove ==
  ASSUME ThreadsInv, UNCHANGED <<status, detached, pthread, cancel, ended, exc, orphan, told>>,
         pc' \in [Threads -> Points], arg' \in [Threads -> Threads \cup Mutexes \cup {Nil}],
         \A u \in Threads :
           \/ pc'[u] = pc[u] /\ on'[u] = on[u] /\ arg'[u] = arg[u]
           \/ /\ pc[u] \in Inside /\ pc'[u] \in Inside
              /\ pc'[u] \in Busy \cup {"wait", "relock"} => on'[u] \in Mutexes
           \/ pc[u] \in {"wait", "relock"} /\ pc'[u] = "cleanup" /\ cancel[u]
           \/ /\ pc[u] \in Abandoning /\ pc'[u] \in Abandoning \cup {"exit"}
              /\ pc'[u] \in {"clear", "name", "free"} => arg'[u] \in Mutexes
  PROVE  ThreadsInv'
<1>1. TypesThreads'
  BY DEF ThreadsInv, TypesThreads
<1>2. \A u \in Threads : Life(u)' /\ End(u)'
  BY DEF ThreadsInv, TypesThreads, Life, End, Inside, Ending, Over, Busy, Abandoning
<1> QED BY <1>1, <1>2 DEF ThreadsInv

(* A step of an operation of t on m, during which nobody else is inside an *)
(* operation on m: what it leaves alone.                                   *)
LEMMA Frame ==
  ASSUME Distinct, ThreadsInv, TypesLocks, LocksInv, NEW t \in Threads, NEW m \in Mutexes,
         \A u \in Threads \ {t} : /\ pc'[u] = pc[u] /\ on'[u] = on[u] /\ arg'[u] = arg[u]
                                  /\ ~ Operating(u, m),
         \A u \in Threads : cancel[u] => cancel'[u],
         \A x \in Mutexes \ {m} :
           /\ locked'[x] = locked[x] /\ thread'[x] = thread[x] /\ pm'[x] = pm[x]
           /\ ~ Operating(t, x) /\ ~ Operating(t, x)'
           /\ (\A u \in Threads : ~ InList(x, u)) => next'[x] = next[x] /\ prev'[x] = prev[x],
         pc[t] \in Ending => pc'[t] \in Ending /\ on'[t] = on[t],
         pc[t] \in Over => pc'[t] \in Over
  PROVE  /\ Apart'
         /\ \A x \in Mutexes \ {m} : Owned(x)'
         /\ \A u \in Threads \ {t} : At(u)'
         /\ \A x \in Mutexes \ {m}, u \in Threads : InList(x, u)' <=> InList(x, u)
<1>1. \A x \in Mutexes \ {m}, u \in Threads : Operating(u, x)' <=> Operating(u, x)
  BY DEF Operating
<1>2. \A u \in Threads \ {t} : ~ Operating(u, m)'
  BY DEF Operating
<1>3. Apart'
  <2> SUFFICES ASSUME NEW x \in Mutexes, NEW u \in Threads, NEW v \in Threads,
                      Operating(u, x)', Operating(v, x)'
               PROVE  u = v
    BY DEF Apart
  <2>1. CASE x = m
    BY <1>2, <2>1
  <2>2. CASE x # m
    BY <1>1, <2>2 DEF LocksInv, Apart
  <2> QED BY <2>1, <2>2
<1>4. \A x \in Mutexes \ {m}, u \in Threads : InList(x, u)' <=> InList(x, u)
  <2> SUFFICES ASSUME NEW x \in Mutexes \ {m}, NEW u \in Threads
               PROVE  InList(x, u)' <=> InList(x, u)
    OBVIOUS
  <2>1. CASE u = t
    <3>1. /\ ~ (pc[t] \in {"marking", "unmarking"} /\ on[t] = x)
          /\ ~ (pc'[t] \in {"marking", "unmarking"} /\ on'[t] = x)
      BY DEF Operating, Busy
    <3> QED BY <2>1, <3>1 DEF InList
  <2>2. CASE u # t
    BY <2>2 DEF InList
  <2> QED BY <2>1, <2>2
<1>5. ASSUME NEW x \in Mutexes \ {m} PROVE Owned(x)'
  <2>1. Owned(x) /\ thread[x] \in Threads \cup {Nil} /\ pm[x] \in Threads \cup {Nil}
    BY DEF LocksInv, TypesLocks
  <2>2. ~ locked[x] /\ thread[x] # Nil =>
          \/ pc'[thread[x]] \in Over
          \/ pc'[thread[x]] \in {"marking", "unmarking"} /\ on'[thread[x]] = x
    <3>1. CASE thread[x] = t
      <4>1. ~ (pc[t] \in {"marking", "unmarking"} /\ on[t] = x)
        BY DEF Operating, Busy
      <4> QED BY <2>1, <3>1, <4>1 DEF Owned
    <3>2. CASE thread[x] # t
      BY <2>1, <3>2 DEF Owned
    <3> QED BY <3>1, <3>2
  <2>3. ~ locked[x] /\ pm[x] # Nil =>
          \/ \E u \in Threads : Operating(u, x)
          \/ cancel'[pm[x]] /\ on'[pm[x]] = x /\ pc'[pm[x]] \in Ending
    BY <2>1 DEF Owned
  <2> QED BY <1>1, <1>4, <2>1, <2>2, <2>3 DEF Owned
<1>6. ASSUME NEW u \in Threads \ {t} PROVE At(u)'
  <2>1. At(u) /\ Life(u)
    BY DEF LocksInv, ThreadsInv
  <2>2. pc[u] \in Busy => on[u] \in Mutexes \ {m}
    BY <2>1 DEF Life, Operating
  <2>3. pc[u] \in {"clear", "name", "free"} => arg[u] \in Mutexes \ {m}
    BY <2>1 DEF Life, Operating
  <2> QED BY <2>1, <2>2, <2>3 DEF At, Busy
<1> QED BY <1>3, <1>4, <1>5, <1>6

(* Lists of which nothing changes.                                         *)
LEMMA ListsKept ==
  ASSUME Lists, UNCHANGED <<next, prev, mutexes>>,
         \A x \in Mutexes, u \in Threads : InList(x, u)' <=> InList(x, u)
  PROVE  Lists'
<1>1. ASSUME NEW t \in Threads, NEW n \in Nat, NEW s \in [1 .. n -> Mutexes], Chain(t, n, s)
      PROVE  Chain(t, n, s)'
  BY <1>1 DEF Chain
<1> QED BY <1>1 DEF Lists

-----------------------------------------------------------------------------
(* An operation of t on m begins with a mutex that nobody holds.           *)
LEMMA Begins ==
  ASSUME Distinct, ThreadsInv, TypesLocks, LocksInv, NEW t \in Threads, NEW m \in Mutexes,
         ~ Meets(t, m), ~ Operating(t, m), pm[m] = Nil
  PROVE  /\ ~ locked[m] /\ \A u \in Threads : ~ InList(m, u)
         /\ thread[m] # Nil => pc[thread[m]] \in Over
<1>1. \A u \in Threads : ~ Operating(u, m)
  BY DEF Meets
<1>2. Owned(m)
  BY DEF LocksInv
<1>3. ~ locked[m]
  BY <1>1, <1>2 DEF Owned
<1>4. \A u \in Threads : ~ (pc[u] \in {"marking", "unmarking"} /\ on[u] = m)
  BY <1>1 DEF Operating, Busy
<1>5. thread[m] # Nil => thread[m] \in Threads
  BY DEF TypesLocks
<1> QED BY <1>2, <1>3, <1>4, <1>5 DEF InList, Owned

(* t gets m, at the beginning of a lock or at the end of a wait.           *)
LEMMA TakeStep ==
  ASSUME Distinct, SafetyInv, ~ raced, NEW t \in Threads, NEW m \in Mutexes,
         pc[t] \in {"run", "relock"}, Takes(t, m), raced' = Meets(t, m),
         pc' = [pc EXCEPT ![t] = "locking"], on' = [on EXCEPT ![t] = m],
         UNCHANGED <<status, detached, pthread, cancel, ended, exc, arg, orphan, told,
                     locked, links>>
  PROVE  SafetyInv'
<1> USE DEF SafetyInv, links
<1>1. ThreadsInv'
  BY ThreadsMove DEF ThreadsInv, TypesThreads, TypesLocks, Points, Inside, Busy
<1>2. TypesLocks'
  <2>1. look' \in [on : Mutexes \cup {Nil}, locked : BOOLEAN, held : SUBSET Threads]
    BY DEF TypesLocks, Takes
  <2>2. raced' \in BOOLEAN
    BY DEF Meets
  <2> QED BY <2>1, <2>2 DEF TypesLocks, Takes
<1>3. ASSUME ~ raced' PROVE LocksInv'
  <2>1. ~ Operating(t, m) /\ pm[m] = Nil /\ pm' = [pm EXCEPT ![m] = t]
    BY DEF Operating, Busy, Takes
  <2>2. /\ ~ locked[m] /\ \A u \in Threads : ~ InList(m, u)
        /\ thread[m] # Nil => pc[thread[m]] \in Over
    BY <1>3, <2>1, Begins
  <2>3. \A u \in Threads \ {t} : /\ pc'[u] = pc[u] /\ on'[u] = on[u] /\ arg'[u] = arg[u]
                                 /\ ~ Operating(u, m)
    BY <1>3 DEF ThreadsInv, TypesThreads, TypesLocks, Meets
  <2>4. pc'[t] = "locking" /\ on'[t] = m
    BY DEF ThreadsInv, TypesThreads, TypesLocks
  <2>5. \A x \in Mutexes \ {m} : pm'[x] = pm[x] /\ ~ Operating(t, x) /\ ~ Operating(t, x)'
    BY <2>1, <2>4 DEF TypesLocks, Operating, Busy
  <2>6. pc[t] \notin Ending /\ pc[t] \notin Over
    BY DEF Ending, Over, Abandoning
  <2>7. /\ Apart'
        /\ \A x \in Mutexes \ {m} : Owned(x)'
        /\ \A u \in Threads \ {t} : At(u)'
        /\ \A x \in Mutexes \ {m}, u \in Threads : InList(x, u)' <=> InList(x, u)
    BY <2>3, <2>5, <2>6, Frame
  <2>8. \A u \in Threads : ~ InList(m, u)'
    BY <2>2, <2>3, <2>4 DEF InList
  <2>9. Owned(m)'
    <3>1. Operating(t, m)'
      BY <2>4 DEF Operating, Busy
    <3>2. thread[m] # Nil => thread[m] \in Threads /\ thread[m] # t
      BY <2>2, <2>6 DEF TypesLocks
    <3>3. next[m] = Nil /\ prev[m] = Nil
      BY <2>2 DEF LocksInv, Owned
    <3> QED BY <2>2, <2>3, <3>1, <3>2, <3>3 DEF Owned
  <2>10. At(t)'
    BY <2>1, <2>2, <2>4 DEF At, TypesLocks
  <2>11. \A u \in Threads : Emptied(u)'
    BY <2>3, <2>4 DEF LocksInv, Emptied
  <2>12. Lists'
    BY <2>2, <2>7, <2>8, ListsKept DEF LocksInv
  <2>13. Looking'
    <3>1. \A x \in Mutexes : thread[x] # Nil => thread[x] \in Threads
      BY DEF TypesLocks
    <3>2. \A u \in Threads : pc[u] \in Over => pc'[u] \in Over
      BY <2>3, <2>6
    <3>3. CASE look.on = m
      <4>1. look' = [look EXCEPT !.held = @ \cup {t}]
        BY <3>3 DEF Takes
      <4>2. look'.on = m /\ look'.held = look.held \cup {t} /\ look'.locked = look.locked
        BY <3>3, <4>1 DEF TypesLocks
      <4> QED BY <2>1, <3>1, <3>2, <3>3, <4>2 DEF LocksInv, Looking, TypesLocks
    <3>4. CASE look.on # m
      <4>1. look' = look
        BY <3>4 DEF Takes
      <4>2. look.on # Nil => look.on \in Mutexes \ {m}
        BY <3>4 DEF TypesLocks
      <4> QED BY <2>5, <3>1, <3>2, <4>1, <4>2 DEF LocksInv, Looking
    <3> QED BY <3>3, <3>4
  <2> QED BY <2>7, <2>9, <2>10, <2>11, <2>12, <2>13 DEF LocksInv
<1> QED BY <1>1, <1>2, <1>3

LEMMA LockStep ==
  ASSUME Distinct, SafetyInv, ~ raced, NEW t \in Threads, NEW m \in Mutexes,
         Srfi18MutexLock(t, m)
  PROVE  SafetyInv'
BY TakeStep DEF Srfi18MutexLock

LEMMA RelockStep ==
  ASSUME Distinct, SafetyInv, ~ raced, NEW t \in Threads, CondvarRelock(t)
  PROVE  SafetyInv'
<1>1. on[t] \in Mutexes /\ pc[t] = "relock"
  BY DEF CondvarRelock, SafetyInv, ThreadsInv, Life
<1>2. on' = [on EXCEPT ![t] = on[t]]
  BY DEF CondvarRelock, SafetyInv, TypesLocks
<1> QED BY <1>1, <1>2, TakeStep DEF CondvarRelock

-----------------------------------------------------------------------------
(* A step inside an operation of t on m.                                   *)
LEMMA Inner ==
  ASSUME Distinct, ThreadsInv, TypesLocks, LocksInv, NEW t \in Threads, NEW m \in Mutexes,
         Operating(t, m), cancel' = cancel, look' = look,
         \A u \in Threads \ {t} : pc'[u] = pc[u] /\ on'[u] = on[u] /\ arg'[u] = arg[u],
         Operating(t, m)' \/ pc'[t] \notin Busy \cup {"clear", "name", "free"},
         \/ pc[t] \in Busy /\ pc'[t] \notin Ending
         \/ pc[t] \in Abandoning /\ pc'[t] \in Abandoning /\ on'[t] = on[t],
         \A x \in Mutexes \ {m} :
           /\ locked'[x] = locked[x] /\ thread'[x] = thread[x] /\ pm'[x] = pm[x]
           /\ (\A u \in Threads : ~ InList(x, u)) => next'[x] = next[x] /\ prev'[x] = prev[x],
         pm'[m] \in {pm[m], Nil},
         thread'[m] \in {thread[m], Nil} \/ (pm[m] # Nil /\ thread'[m] = pm[m]),
         \A u \in Threads \ {t} : mutexes'[u] = mutexes[u]
  PROVE  /\ Apart' /\ Looking' /\ \A u \in Threads : Emptied(u)'
         /\ \A x \in Mutexes \ {m} : Owned(x)'
         /\ \A u \in Threads \ {t} : At(u)'
         /\ \A x \in Mutexes \ {m}, u \in Threads : InList(x, u)' <=> InList(x, u)
         /\ \A u \in Threads \ {t} : ~ Operating(u, m)
<1>1. \A u \in Threads \ {t} : ~ Operating(u, m)
  BY DEF LocksInv, Apart
<1>2. ASSUME NEW x \in Mutexes \ {m} PROVE ~ Operating(t, x) /\ ~ Operating(t, x)'
  BY DEF Operating, Busy
<1>3. /\ pc[t] \in Ending => pc'[t] \in Ending /\ on'[t] = on[t]
      /\ pc[t] \in Over => pc'[t] \in Over
      /\ pc'[t] \notin {"exit", "dead"}
  BY DEF Busy, Ending, Over, Abandoning
<1>4. /\ Apart'
      /\ \A x \in Mutexes \ {m} : Owned(x)'
      /\ \A u \in Threads \ {t} : At(u)'
      /\ \A x \in Mutexes \ {m}, u \in Threads : InList(x, u)' <=> InList(x, u)
  BY <1>1, <1>2, <1>3, Frame
<1>5. Looking'
  <2>1. \A u \in Threads : pc[u] \in Over => pc'[u] \in Over
    BY <1>3
  <2> QED BY <2>1, LooksOn DEF LocksInv
<1>6. \A u \in Threads : Emptied(u)'
  BY <1>3 DEF LocksInv, Emptied
<1> QED BY <1>1, <1>4, <1>5, <1>6

(* The list that a thread registers a mutex in, or takes it out of.        *)
LEMMA MarkLockedStep ==
  ASSUME Distinct, SafetyInv, ~ raced, NEW t \in Threads, MarkLocked(t)
  PROVE  SafetyInv'
<1> USE DEF SafetyInv
<1>1. PICK m \in Mutexes :
        /\ m = on[t] /\ pc[t] = "locking" /\ LocksInv /\ Operating(t, m)
        /\ pm[m] = t /\ ~ locked[m] /\ thread[m] # t
  <2>1. /\ pc[t] = "locking" /\ on[t] \in Mutexes /\ pm[on[t]] = t /\ ~ locked[on[t]]
        /\ Owned(on[t])
    BY DEF MarkLocked, ThreadsInv, Life, LocksInv, At, Busy
  <2>2. thread[on[t]] # t
    BY <2>1 DEF Owned, Over, Abandoning, Distinct
  <2> QED BY <2>1, <2>2 DEF Operating, Busy
<1>2. /\ Registers(m, t) /\ raced' = ListMeets(t, t)
      /\ pc' = [pc EXCEPT ![t] = "marking"]
      /\ UNCHANGED <<status, detached, pthread, cancel, ended, exc, arg, orphan, told,
                     pm, locked, on, look>>
  BY <1>1 DEF MarkLocked, Registers
<1> USE DEF Registers
<1>3. ThreadsInv'
  BY <1>1, <1>2, ThreadsMove DEF ThreadsInv, TypesThreads, TypesLocks, Points, Inside, Busy
<1>4. TypesLocks'
  <2>1. raced' \in BOOLEAN
    BY <1>2 DEF ListMeets
  <2> QED BY <1>1, <1>2, <2>1 DEF TypesLocks
<1>5. pc'[t] = "marking" /\ on'[t] = m /\ \A u \in Threads \ {t} : pc'[u] = pc[u] /\ on'[u] = on[u]
  BY <1>1, <1>2 DEF ThreadsInv, TypesThreads
<1>6. \A u \in Threads : ~ InList(m, u)
  <2>1. \A u \in Threads \ {t} : ~ Operating(u, m)
    BY <1>1 DEF LocksInv, Apart
  <2> QED BY <1>1, <2>1 DEF InList, Operating, Busy
<1>7. mutexes[t] # Nil => mutexes[t] \in Mutexes /\ InList(mutexes[t], t)
  <2>1. PICK l \in Nat : \E q \in [1 .. l -> Mutexes] : Chain(t, l, q)
    BY <1>1 DEF LocksInv, Lists
  <2>2. PICK q \in [1 .. l -> Mutexes] : Chain(t, l, q)
    BY <2>1
  <2>3. l > 0 => 1 \in 1 .. l
    OBVIOUS
  <2> QED BY <2>2, <2>3 DEF Chain
<1>8. \A x \in Mutexes \ {m} :
        /\ locked'[x] = locked[x] /\ thread'[x] = thread[x] /\ pm'[x] = pm[x]
        /\ (\A u \in Threads : ~ InList(x, u)) => next'[x] = next[x] /\ prev'[x] = prev[x]
  BY <1>1, <1>2, <1>7 DEF TypesLocks
<1>9. thread'[m] = t /\ \A u \in Threads \ {t} : mutexes'[u] = mutexes[u]
  BY <1>1, <1>2 DEF TypesLocks
<1>10. Operating(t, m)' /\ pc[t] \in Busy /\ pc'[t] \notin Ending
  BY <1>1, <1>5 DEF Operating, Busy, Ending, Over, Abandoning
<1>11. /\ Apart' /\ Looking' /\ \A u \in Threads : Emptied(u)'
       /\ \A x \in Mutexes \ {m} : Owned(x)'
       /\ \A u \in Threads \ {t} : At(u)'
       /\ \A x \in Mutexes \ {m}, u \in Threads : InList(x, u)' <=> InList(x, u)
       /\ \A u \in Threads \ {t} : ~ Operating(u, m)
  <2>1. t # Nil
    BY DEF Distinct
  <2> QED BY <1>1, <1>2, <1>5, <1>8, <1>9, <1>10, <2>1, Inner
<1>12. \A u \in Threads : InList(m, u)' <=> u = t
  BY <1>1, <1>5, <1>9 DEF InList
<1>13. Lists'
  <2>1. next[m] = Nil /\ prev[m] = Nil
    BY <1>1, <1>6 DEF LocksInv, Owned
  <2>2. \A x \in Mutexes, u \in Threads : InList(x, u)' <=> InList(x, u) \/ (x = m /\ u = t)
    BY <1>6, <1>11, <1>12
  <2> QED BY <1>1, <1>2, <1>6, <2>1, <2>2, RegisterLists DEF LocksInv
<1>14. Owned(m)'
  BY <1>1, <1>2, <1>5, <1>9, <1>10, <1>12 DEF Owned
<1>15. At(t)'
  BY <1>1, <1>2, <1>5, <1>9 DEF At
<1> QED BY <1>3, <1>4, <1>11, <1>13, <1>14, <1>15 DEF LocksInv

(* The steps that leave the links alone.                                   *)
LEMMA InnerKept ==
  ASSUME Distinct, ThreadsInv, TypesLocks, LocksInv, NEW t \in Threads, NEW m \in Mutexes,
         Operating(t, m), cancel' = cancel, look' = look,
         UNCHANGED <<next, prev, mutexes>>,
         \A u \in Threads \ {t} : pc'[u] = pc[u] /\ on'[u] = on[u] /\ arg'[u] = arg[u],
         Operating(t, m)' \/ pc'[t] \notin Busy \cup {"clear", "name", "free"},
         \/ pc[t] \in Busy /\ pc'[t] \notin Ending
         \/ pc[t] \in Abandoning /\ pc'[t] \in Abandoning /\ on'[t] = on[t],
         \A x \in Mutexes \ {m} :
           locked'[x] = locked[x] /\ thread'[x] = thread[x] /\ pm'[x] = pm[x],
         pm'[m] \in {pm[m], Nil},
         thread'[m] = thread[m] \/ (pm[m] # Nil /\ thread'[m] = pm[m]),
         \A u \in Threads : InList(m, u)' <=> InList(m, u),
         At(t)', Owned(m)'
  PROVE  LocksInv'
<1>1. /\ Apart' /\ Looking' /\ \A u \in Threads : Emptied(u)'
      /\ \A x \in Mutexes \ {m} : Owned(x)'
      /\ \A u \in Threads \ {t} : At(u)'
      /\ \A x \in Mutexes \ {m}, u \in Threads : InList(x, u)' <=> InList(x, u)
  BY Inner
<1>2. Lists'
  BY <1>1, ListsKept DEF LocksInv
<1> QED BY <1>1, <1>2 DEF LocksInv

LEMMA SetLockedStep ==
  ASSUME Distinct, SafetyInv, ~ raced, NEW t \in Threads, SetLocked(t)
  PROVE  SafetyInv'
<1> USE DEF SafetyInv, links
<1>1. PICK m \in Mutexes :
        /\ m = on[t] /\ pc[t] = "marking" /\ LocksInv /\ Operating(t, m)
        /\ pm[m] = t /\ thread[m] = t /\ ~ locked[m]
        /\ \A u \in Threads \ {t} : ~ Operating(u, m)
        /\ Owned(m)
  BY DEF SetLocked, ThreadsInv, Life, LocksInv, At, Apart, Operating, Busy
<1>2. ThreadsInv'
  BY <1>1, ThreadsMove DEF SetLocked, ThreadsInv, TypesThreads, TypesLocks, Points, Inside, Busy,
     Abandoning
<1>3. TypesLocks'
  BY <1>1 DEF SetLocked, TypesLocks
<1>4. /\ \A u \in Threads \ {t} : pc'[u] = pc[u] /\ on'[u] = on[u] /\ arg'[u] = arg[u]
      /\ pc'[t] = "run"
  BY <1>1 DEF SetLocked, ThreadsInv, TypesThreads, TypesLocks
<1>5. \A u \in Threads : InList(m, u)' <=> InList(m, u)
  BY <1>1, <1>4 DEF SetLocked, InList, TypesLocks, Operating, Busy, Distinct
<1>6. At(t)'
  BY <1>1, <1>4 DEF SetLocked, At, TypesLocks
<1>7. Owned(m)'
  BY <1>1, <1>4, <1>5 DEF SetLocked, Owned, TypesLocks, Operating, Busy, Over, Abandoning, Distinct
<1>8. /\ \A x \in Mutexes \ {m} :
           locked'[x] = locked[x] /\ thread'[x] = thread[x] /\ pm'[x] = pm[x]
      /\ pm'[m] \in {pm[m], Nil}
      /\ thread'[m] = thread[m] \/ (pm[m] # Nil /\ thread'[m] = pm[m])
      /\ cancel' = cancel /\ look' = look /\ UNCHANGED <<next, prev, mutexes>>
  BY <1>1 DEF SetLocked, TypesLocks, Distinct
<1>9. /\ Operating(t, m)' \/ pc'[t] \notin Busy \cup {"clear", "name", "free"}
      /\ \/ pc[t] \in Busy /\ pc'[t] \notin Ending
         \/ pc[t] \in Abandoning /\ pc'[t] \in Abandoning /\ on'[t] = on[t]
  BY <1>1, <1>4 DEF SetLocked, Operating, Busy, Ending, Over, Abandoning
<1>10. LocksInv'
  BY <1>1, <1>4, <1>5, <1>6, <1>7, <1>8, <1>9, InnerKept
<1> QED BY <1>2, <1>3, <1>10

LEMMA ClearLockedStep ==
  ASSUME Distinct, SafetyInv, ~ raced, NEW t \in Threads, ClearLocked(t)
  PROVE  SafetyInv'
<1> USE DEF SafetyInv, links
<1>1. PICK m \in Mutexes :
        /\ m = on[t] /\ pc[t] = "clearing" /\ LocksInv /\ Operating(t, m)
        /\ thread[m] = Nil
        /\ \A u \in Threads \ {t} : ~ Operating(u, m)
        /\ Owned(m)
  BY DEF ClearLocked, ThreadsInv, Life, LocksInv, At, Apart, Operating, Busy
<1>2. ThreadsInv'
  BY <1>1, ThreadsMove DEF ClearLocked, ThreadsInv, TypesThreads, TypesLocks, Points, Inside, Busy,
     Abandoning
<1>3. TypesLocks'
  BY <1>1 DEF ClearLocked, TypesLocks
<1>4. /\ \A u \in Threads \ {t} : pc'[u] = pc[u] /\ on'[u] = on[u] /\ arg'[u] = arg[u]
      /\ pc'[t] = "releasing" /\ on'[t] = m
  BY <1>1 DEF ClearLocked, ThreadsInv, TypesThreads, TypesLocks
<1>5. \A u \in Threads : InList(m, u)' <=> InList(m, u)
  BY <1>1, <1>4 DEF ClearLocked, InList, TypesLocks, Operating, Busy, Distinct
<1>6. At(t)'
  BY <1>1, <1>4 DEF ClearLocked, At, TypesLocks
<1>7. Owned(m)'
  BY <1>1, <1>4, <1>5 DEF ClearLocked, Owned, TypesLocks, Operating, Busy, Over, Abandoning, Distinct
<1>8. /\ \A x \in Mutexes \ {m} :
           locked'[x] = locked[x] /\ thread'[x] = thread[x] /\ pm'[x] = pm[x]
      /\ pm'[m] \in {pm[m], Nil}
      /\ thread'[m] = thread[m] \/ (pm[m] # Nil /\ thread'[m] = pm[m])
      /\ cancel' = cancel /\ look' = look /\ UNCHANGED <<next, prev, mutexes>>
  BY <1>1 DEF ClearLocked, TypesLocks, Distinct
<1>9. /\ Operating(t, m)' \/ pc'[t] \notin Busy \cup {"clear", "name", "free"}
      /\ \/ pc[t] \in Busy /\ pc'[t] \notin Ending
         \/ pc[t] \in Abandoning /\ pc'[t] \in Abandoning /\ on'[t] = on[t]
  BY <1>1, <1>4 DEF ClearLocked, Operating, Busy, Ending, Over, Abandoning
<1>10. LocksInv'
  BY <1>1, <1>4, <1>5, <1>6, <1>7, <1>8, <1>9, InnerKept
<1> QED BY <1>2, <1>3, <1>10

LEMMA ReleaseStep ==
  ASSUME Distinct, SafetyInv, ~ raced, NEW t \in Threads, Release(t)
  PROVE  SafetyInv'
<1> USE DEF SafetyInv, links
<1>1. PICK m \in Mutexes :
        /\ m = on[t] /\ pc[t] = "releasing" /\ LocksInv /\ Operating(t, m)
        /\ thread[m] = Nil /\ ~ locked[m]
        /\ \A u \in Threads \ {t} : ~ Operating(u, m)
        /\ Owned(m)
  BY DEF Release, ThreadsInv, Life, LocksInv, At, Apart, Operating, Busy
<1>2. ThreadsInv'
  BY <1>1, ThreadsMove DEF Release, ThreadsInv, TypesThreads, TypesLocks, Points, Inside, Busy,
     Abandoning
<1>3. TypesLocks'
  BY <1>1 DEF Release, TypesLocks
<1>4. /\ \A u \in Threads \ {t} : pc'[u] = pc[u] /\ on'[u] = on[u] /\ arg'[u] = arg[u]
      /\ pc'[t] = "run"
  BY <1>1 DEF Release, ThreadsInv, TypesThreads, TypesLocks
<1>5. \A u \in Threads : InList(m, u)' <=> InList(m, u)
  BY <1>1, <1>4 DEF Release, InList, TypesLocks, Operating, Busy, Distinct
<1>6. At(t)'
  BY <1>1, <1>4 DEF Release, At, TypesLocks
<1>7. Owned(m)'
  BY <1>1, <1>4, <1>5 DEF Release, Owned, TypesLocks, Operating, Busy, Over, Abandoning, Distinct
<1>8. /\ \A x \in Mutexes \ {m} :
           locked'[x] = locked[x] /\ thread'[x] = thread[x] /\ pm'[x] = pm[x]
      /\ pm'[m] \in {pm[m], Nil}
      /\ thread'[m] = thread[m] \/ (pm[m] # Nil /\ thread'[m] = pm[m])
      /\ cancel' = cancel /\ look' = look /\ UNCHANGED <<next, prev, mutexes>>
  BY <1>1 DEF Release, TypesLocks, Distinct
<1>9. /\ Operating(t, m)' \/ pc'[t] \notin Busy \cup {"clear", "name", "free"}
      /\ \/ pc[t] \in Busy /\ pc'[t] \notin Ending
         \/ pc[t] \in Abandoning /\ pc'[t] \in Abandoning /\ on'[t] = on[t]
  BY <1>1, <1>4 DEF Release, Operating, Busy, Ending, Over, Abandoning
<1>10. LocksInv'
  BY <1>1, <1>4, <1>5, <1>6, <1>7, <1>8, <1>9, InnerKept
<1> QED BY <1>2, <1>3, <1>10

LEMMA SleepStep ==
  ASSUME Distinct, SafetyInv, ~ raced, NEW t \in Threads, Sleep(t)
  PROVE  SafetyInv'
<1> USE DEF SafetyInv, links
<1>1. PICK m \in Mutexes :
        /\ m = on[t] /\ pc[t] = "sleeping" /\ LocksInv /\ Operating(t, m)
        /\ pm[m] = t /\ thread[m] = Nil /\ ~ locked[m]
        /\ \A u \in Threads \ {t} : ~ Operating(u, m)
        /\ Owned(m)
  BY DEF Sleep, ThreadsInv, Life, LocksInv, At, Apart, Operating, Busy
<1>2. ThreadsInv'
  BY <1>1, ThreadsMove DEF Sleep, ThreadsInv, TypesThreads, TypesLocks, Points, Inside, Busy,
     Abandoning
<1>3. TypesLocks'
  BY <1>1 DEF Sleep, TypesLocks
<1>4. /\ \A u \in Threads \ {t} : pc'[u] = pc[u] /\ on'[u] = on[u] /\ arg'[u] = arg[u]
      /\ pc'[t] = "wait"
  BY <1>1 DEF Sleep, ThreadsInv, TypesThreads, TypesLocks
<1>5. \A u \in Threads : InList(m, u)' <=> InList(m, u)
  BY <1>1, <1>4 DEF Sleep, InList, TypesLocks, Operating, Busy, Distinct
<1>6. At(t)'
  BY <1>1, <1>4 DEF Sleep, At, TypesLocks
<1>7. Owned(m)'
  BY <1>1, <1>4, <1>5 DEF Sleep, Owned, TypesLocks, Operating, Busy, Over, Abandoning, Distinct
<1>8. /\ \A x \in Mutexes \ {m} :
           locked'[x] = locked[x] /\ thread'[x] = thread[x] /\ pm'[x] = pm[x]
      /\ pm'[m] \in {pm[m], Nil}
      /\ thread'[m] = thread[m] \/ (pm[m] # Nil /\ thread'[m] = pm[m])
      /\ cancel' = cancel /\ look' = look /\ UNCHANGED <<next, prev, mutexes>>
  BY <1>1 DEF Sleep, TypesLocks, Distinct
<1>9. /\ Operating(t, m)' \/ pc'[t] \notin Busy \cup {"clear", "name", "free"}
      /\ \/ pc[t] \in Busy /\ pc'[t] \notin Ending
         \/ pc[t] \in Abandoning /\ pc'[t] \in Abandoning /\ on'[t] = on[t]
  BY <1>1, <1>4 DEF Sleep, Operating, Busy, Ending, Over, Abandoning
<1>10. LocksInv'
  BY <1>1, <1>4, <1>5, <1>6, <1>7, <1>8, <1>9, InnerKept
<1> QED BY <1>2, <1>3, <1>10

LEMMA RefusedStep ==
  ASSUME Distinct, SafetyInv, ~ raced, NEW t \in Threads, WaitRefused(t)
  PROVE  SafetyInv'
<1> USE DEF SafetyInv, links
<1>1. PICK m \in Mutexes :
        /\ m = on[t] /\ pc[t] = "sleeping" /\ LocksInv /\ Operating(t, m)
        /\ pm[m] = t /\ thread[m] = Nil /\ ~ locked[m]
        /\ \A u \in Threads \ {t} : ~ Operating(u, m)
        /\ Owned(m)
  BY DEF WaitRefused, locks, ThreadsInv, Life, LocksInv, At, Apart, Operating, Busy
<1>2. ThreadsInv'
  BY <1>1, ThreadsMove DEF WaitRefused, locks, ThreadsInv, TypesThreads, TypesLocks, Points, Inside, Busy,
     Abandoning
<1>3. TypesLocks'
  BY <1>1 DEF WaitRefused, locks, TypesLocks
<1>4. /\ \A u \in Threads \ {t} : pc'[u] = pc[u] /\ on'[u] = on[u] /\ arg'[u] = arg[u]
      /\ pc'[t] = "locking" /\ on'[t] = m
  BY <1>1 DEF WaitRefused, locks, ThreadsInv, TypesThreads, TypesLocks
<1>5. \A u \in Threads : InList(m, u)' <=> InList(m, u)
  BY <1>1, <1>4 DEF WaitRefused, locks, InList, TypesLocks, Operating, Busy, Distinct
<1>6. At(t)'
  BY <1>1, <1>4 DEF WaitRefused, locks, At, TypesLocks
<1>7. Owned(m)'
  BY <1>1, <1>4, <1>5 DEF WaitRefused, locks, Owned, TypesLocks, Operating, Busy, Over, Abandoning, Distinct
<1>8. /\ \A x \in Mutexes \ {m} :
           locked'[x] = locked[x] /\ thread'[x] = thread[x] /\ pm'[x] = pm[x]
      /\ pm'[m] \in {pm[m], Nil}
      /\ thread'[m] = thread[m] \/ (pm[m] # Nil /\ thread'[m] = pm[m])
      /\ cancel' = cancel /\ look' = look /\ UNCHANGED <<next, prev, mutexes>>
  BY <1>1 DEF WaitRefused, locks, TypesLocks, Distinct
<1>9. /\ Operating(t, m)' \/ pc'[t] \notin Busy \cup {"clear", "name", "free"}
      /\ \/ pc[t] \in Busy /\ pc'[t] \notin Ending
         \/ pc[t] \in Abandoning /\ pc'[t] \in Abandoning /\ on'[t] = on[t]
  BY <1>1, <1>4 DEF WaitRefused, locks, Operating, Busy, Ending, Over, Abandoning
<1>10. LocksInv'
  BY <1>1, <1>4, <1>5, <1>6, <1>7, <1>8, <1>9, InnerKept
<1> QED BY <1>2, <1>3, <1>10

LEMMA ClearAbandonedStep ==
  ASSUME Distinct, SafetyInv, ~ raced, NEW t \in Threads, ClearAbandoned(t)
  PROVE  SafetyInv'
<1> USE DEF SafetyInv, links
<1>1. PICK m \in Mutexes :
        /\ m = arg[t] /\ pc[t] = "clear" /\ LocksInv /\ Operating(t, m)
        /\ pm[m] = t /\ thread[m] = Nil
        /\ \A u \in Threads \ {t} : ~ Operating(u, m)
        /\ Owned(m)
  BY DEF ClearAbandoned, ThreadsInv, Life, LocksInv, At, Apart, Operating, Busy
<1>2. ThreadsInv'
  BY <1>1, ThreadsMove DEF ClearAbandoned, ThreadsInv, TypesThreads, TypesLocks, Points, Inside, Busy,
     Abandoning
<1>3. TypesLocks'
  BY <1>1 DEF ClearAbandoned, TypesLocks
<1>4. /\ \A u \in Threads \ {t} : pc'[u] = pc[u] /\ on'[u] = on[u] /\ arg'[u] = arg[u]
      /\ pc'[t] = "name" /\ arg'[t] = m
  BY <1>1 DEF ClearAbandoned, ThreadsInv, TypesThreads, TypesLocks
<1>5. \A u \in Threads : InList(m, u)' <=> InList(m, u)
  BY <1>1, <1>4 DEF ClearAbandoned, InList, TypesLocks, Operating, Busy, Distinct
<1>6. At(t)'
  BY <1>1, <1>4 DEF ClearAbandoned, At, TypesLocks
<1>7. Owned(m)'
  BY <1>1, <1>4, <1>5 DEF ClearAbandoned, Owned, TypesLocks, Operating, Busy, Over, Abandoning, Distinct
<1>8. /\ \A x \in Mutexes \ {m} :
           locked'[x] = locked[x] /\ thread'[x] = thread[x] /\ pm'[x] = pm[x]
      /\ pm'[m] \in {pm[m], Nil}
      /\ thread'[m] = thread[m] \/ (pm[m] # Nil /\ thread'[m] = pm[m])
      /\ cancel' = cancel /\ look' = look /\ UNCHANGED <<next, prev, mutexes>>
  BY <1>1 DEF ClearAbandoned, TypesLocks, Distinct
<1>9. /\ Operating(t, m)' \/ pc'[t] \notin Busy \cup {"clear", "name", "free"}
      /\ \/ pc[t] \in Busy /\ pc'[t] \notin Ending
         \/ pc[t] \in Abandoning /\ pc'[t] \in Abandoning /\ on'[t] = on[t]
  BY <1>1, <1>4 DEF ClearAbandoned, Operating, Busy, Ending, Over, Abandoning
<1>10. LocksInv'
  BY <1>1, <1>4, <1>5, <1>6, <1>7, <1>8, <1>9, InnerKept
<1> QED BY <1>2, <1>3, <1>10

LEMMA NameDeadStep ==
  ASSUME Distinct, SafetyInv, ~ raced, NEW t \in Threads, NameDead(t)
  PROVE  SafetyInv'
<1> USE DEF SafetyInv, links
<1>1. PICK m \in Mutexes :
        /\ m = arg[t] /\ pc[t] = "name" /\ LocksInv /\ Operating(t, m)
        /\ pm[m] = t /\ thread[m] = Nil /\ ~ locked[m]
        /\ \A u \in Threads \ {t} : ~ Operating(u, m)
        /\ Owned(m)
  BY DEF NameDead, ThreadsInv, Life, LocksInv, At, Apart, Operating, Busy
<1>2. ThreadsInv'
  BY <1>1, ThreadsMove DEF NameDead, ThreadsInv, TypesThreads, TypesLocks, Points, Inside, Busy,
     Abandoning
<1>3. TypesLocks'
  BY <1>1 DEF NameDead, TypesLocks
<1>4. /\ \A u \in Threads \ {t} : pc'[u] = pc[u] /\ on'[u] = on[u] /\ arg'[u] = arg[u]
      /\ pc'[t] = "free" /\ arg'[t] = m
  BY <1>1 DEF NameDead, ThreadsInv, TypesThreads, TypesLocks
<1>5. \A u \in Threads : InList(m, u)' <=> InList(m, u)
  BY <1>1, <1>4 DEF NameDead, InList, TypesLocks, Operating, Busy, Distinct
<1>6. At(t)'
  BY <1>1, <1>4 DEF NameDead, At, TypesLocks
<1>7. Owned(m)'
  BY <1>1, <1>4, <1>5 DEF NameDead, Owned, TypesLocks, Operating, Busy, Over, Abandoning, Distinct
<1>8. /\ \A x \in Mutexes \ {m} :
           locked'[x] = locked[x] /\ thread'[x] = thread[x] /\ pm'[x] = pm[x]
      /\ pm'[m] \in {pm[m], Nil}
      /\ thread'[m] = thread[m] \/ (pm[m] # Nil /\ thread'[m] = pm[m])
      /\ cancel' = cancel /\ look' = look /\ UNCHANGED <<next, prev, mutexes>>
  BY <1>1 DEF NameDead, TypesLocks, Distinct
<1>9. /\ Operating(t, m)' \/ pc'[t] \notin Busy \cup {"clear", "name", "free"}
      /\ \/ pc[t] \in Busy /\ pc'[t] \notin Ending
         \/ pc[t] \in Abandoning /\ pc'[t] \in Abandoning /\ on'[t] = on[t]
  BY <1>1, <1>4 DEF NameDead, Operating, Busy, Ending, Over, Abandoning
<1>10. LocksInv'
  BY <1>1, <1>4, <1>5, <1>6, <1>7, <1>8, <1>9, InnerKept
<1> QED BY <1>2, <1>3, <1>10

LEMMA FreeAbandonedStep ==
  ASSUME Distinct, SafetyInv, ~ raced, NEW t \in Threads, FreeAbandoned(t)
  PROVE  SafetyInv'
<1> USE DEF SafetyInv, links
<1>1. PICK m \in Mutexes :
        /\ m = arg[t] /\ pc[t] = "free" /\ LocksInv /\ Operating(t, m)
        /\ pm[m] = t /\ thread[m] = t /\ ~ locked[m]
        /\ \A u \in Threads \ {t} : ~ Operating(u, m)
        /\ Owned(m)
  BY DEF FreeAbandoned, ThreadsInv, Life, LocksInv, At, Apart, Operating, Busy
<1>2. ThreadsInv'
  BY <1>1, ThreadsMove DEF FreeAbandoned, ThreadsInv, TypesThreads, TypesLocks, Points, Inside, Busy,
     Abandoning
<1>3. TypesLocks'
  BY <1>1 DEF FreeAbandoned, TypesLocks
<1>4. /\ \A u \in Threads \ {t} : pc'[u] = pc[u] /\ on'[u] = on[u] /\ arg'[u] = arg[u]
      /\ pc'[t] = "abandon"
  BY <1>1 DEF FreeAbandoned, ThreadsInv, TypesThreads, TypesLocks
<1>5. \A u \in Threads : InList(m, u)' <=> InList(m, u)
  BY <1>1, <1>4 DEF FreeAbandoned, InList, TypesLocks, Operating, Busy, Distinct
<1>6. At(t)'
  BY <1>1, <1>4 DEF FreeAbandoned, At, TypesLocks
<1>7. Owned(m)'
  BY <1>1, <1>4, <1>5 DEF FreeAbandoned, Owned, TypesLocks, Operating, Busy, Over, Abandoning, Distinct
<1>8. /\ \A x \in Mutexes \ {m} :
           locked'[x] = locked[x] /\ thread'[x] = thread[x] /\ pm'[x] = pm[x]
      /\ pm'[m] \in {pm[m], Nil}
      /\ thread'[m] = thread[m] \/ (pm[m] # Nil /\ thread'[m] = pm[m])
      /\ cancel' = cancel /\ look' = look /\ UNCHANGED <<next, prev, mutexes>>
  BY <1>1 DEF FreeAbandoned, TypesLocks, Distinct
<1>9. /\ Operating(t, m)' \/ pc'[t] \notin Busy \cup {"clear", "name", "free"}
      /\ \/ pc[t] \in Busy /\ pc'[t] \notin Ending
         \/ pc[t] \in Abandoning /\ pc'[t] \in Abandoning /\ on'[t] = on[t]
  BY <1>1, <1>4 DEF FreeAbandoned, Operating, Busy, Ending, Over, Abandoning
<1>10. LocksInv'
  BY <1>1, <1>4, <1>5, <1>6, <1>7, <1>8, <1>9, InnerKept
<1> QED BY <1>2, <1>3, <1>10

-----------------------------------------------------------------------------
(* A mutex that a running thread holds is marked as its own.               *)
LEMMA HeldByRunning ==
  ASSUME Distinct, LocksInv, TypesLocks, NEW t \in Threads, NEW m \in Mutexes,
         pc[t] = "run", pm[m] = t, ~ Meets(t, m)
  PROVE  locked[m] /\ thread[m] = t
<1>1. Owned(m) /\ t # Nil
  BY DEF LocksInv, Distinct
<1>2. \A u \in Threads : ~ Operating(u, m)
  BY DEF Meets, Operating, Busy
<1> QED BY <1>1, <1>2 DEF Owned, Ending, Over, Abandoning

(* What unregister_mutex does to the links, when m is in a list.           *)
LEMMA UnregisterLinks ==
  ASSUME Distinct, TypesLocks, Lists, NEW d \in Threads, NEW m \in Mutexes,
         InList(m, d), Unregister(m)
  PROVE  /\ next'[m] = Nil /\ prev'[m] = Nil
         /\ \A x \in Mutexes \ {m} :
              (\A u \in Threads : ~ InList(x, u)) => next'[x] = next[x] /\ prev'[x] = prev[x]
         /\ \A u \in Threads \ {d} : mutexes'[u] = mutexes[u]
         /\ mutexes[d] # Nil
         /\ thread' = [thread EXCEPT ![m] = Nil]
<1>1. /\ prev[m] # Nil => InList(prev[m], d) /\ prev[m] \in Mutexes /\ mutexes[d] \in Mutexes
      /\ next[m] # Nil => InList(next[m], d) /\ next[m] \in Mutexes
      /\ prev[m] = Nil => mutexes[d] = m
  BY Neighbours
<1>2. mutexes[d] # Nil
  BY <1>1 DEF Distinct
<1>3. prev[m] # m /\ next[m] # m
  <2>1. PICK n \in Nat : \E s \in [1 .. n -> Mutexes] : Chain(d, n, s)
    BY DEF Lists
  <2>2. PICK s \in [1 .. n -> Mutexes] : Chain(d, n, s)
    BY <2>1
  <2>3. PICK k \in 1 .. n :
          /\ s[k] = m
          /\ k = 1 => prev[m] = Nil /\ mutexes[d] = m
          /\ k > 1 => k - 1 \in 1 .. n /\ prev[m] = s[k - 1]
          /\ k = n => next[m] = Nil
          /\ k < n => k + 1 \in 1 .. n /\ next[m] = s[k + 1]
    BY <2>2, Place
  <2>4. \A i, j \in 1 .. n : s[i] = s[j] => i = j
    BY <2>2 DEF Chain
  <2>5. k = 1 \/ k > 1
    OBVIOUS
  <2>6. k = n \/ k < n
    OBVIOUS
  <2>7. k > 1 => s[k - 1] # s[k]
    BY <2>3, <2>4
  <2>8. k < n => s[k + 1] # s[k]
    BY <2>3, <2>4
  <2> QED BY <2>3, <2>5, <2>6, <2>7, <2>8 DEF Distinct
<1>4. next'[m] = Nil /\ prev'[m] = Nil
  BY <1>3 DEF Unregister, TypesLocks
<1>5. \A x \in Mutexes \ {m} :
        (\A u \in Threads : ~ InList(x, u)) => next'[x] = next[x] /\ prev'[x] = prev[x]
  <2>1. \A x \in Mutexes : (\A u \in Threads : ~ InList(x, u)) =>
          (prev[m] # Nil => x # prev[m]) /\ (next[m] # Nil => x # next[m])
    BY <1>1
  <2> QED BY <2>1 DEF Unregister, TypesLocks
<1>6. \A u \in Threads \ {d} : mutexes'[u] = mutexes[u]
  BY DEF Unregister, TypesLocks, InList
<1> QED BY <1>2, <1>4, <1>5, <1>6 DEF Unregister

LEMMA UnregisterTypes ==
  ASSUME Distinct, TypesLocks, NEW m \in Mutexes, Unregister(m)
  PROVE  /\ thread' \in [Mutexes -> Threads \cup {Nil}]
         /\ next' \in [Mutexes -> Mutexes \cup {Nil}]
         /\ prev' \in [Mutexes -> Mutexes \cup {Nil}]
         /\ mutexes' \in [Threads -> Mutexes \cup {Nil}]
         /\ thread' = [thread EXCEPT ![m] = Nil]
BY DEF TypesLocks, Unregister

LEMMA UnmarkStep ==
  ASSUME Distinct, SafetyInv, ~ raced, NEW t \in Threads, Unmark(t)
  PROVE  SafetyInv'
<1> USE DEF SafetyInv
<1>1. PICK m \in Mutexes :
        /\ m = on[t] /\ pc[t] = "unmarking" /\ LocksInv /\ Operating(t, m)
        /\ pm[m] = t /\ thread[m] = t /\ ~ locked[m]
        /\ InList(m, t)
  BY DEF Unmark, ThreadsInv, Life, LocksInv, At, Operating, Busy, InList
<1>2. /\ Unregister(m) /\ raced' = ListMeets(t, t)
      /\ pc' = [pc EXCEPT ![t] = "sleeping"]
      /\ UNCHANGED <<status, detached, pthread, cancel, ended, exc, arg, orphan, told,
                     pm, locked, on, look>>
  BY <1>1 DEF Unmark
<1>3. ThreadsInv'
  BY <1>1, <1>2, ThreadsMove DEF ThreadsInv, TypesThreads, TypesLocks, Points, Inside, Busy
<1>4. TypesLocks'
  <2>1. raced' \in BOOLEAN
    BY <1>2 DEF ListMeets
  <2> QED BY <1>2, <2>1, UnregisterTypes DEF TypesLocks
<1>5. /\ \A u \in Threads \ {t} : pc'[u] = pc[u] /\ on'[u] = on[u] /\ arg'[u] = arg[u]
      /\ pc'[t] = "sleeping" /\ on'[t] = m
  BY <1>1, <1>2 DEF ThreadsInv, TypesThreads
<1>6. /\ next'[m] = Nil /\ prev'[m] = Nil
      /\ \A x \in Mutexes \ {m} :
           (\A u \in Threads : ~ InList(x, u)) => next'[x] = next[x] /\ prev'[x] = prev[x]
      /\ \A u \in Threads \ {t} : mutexes'[u] = mutexes[u]
      /\ thread' = [thread EXCEPT ![m] = Nil]
  BY <1>1, <1>2, UnregisterLinks DEF LocksInv
<1>7. thread'[m] = Nil /\ \A x \in Mutexes \ {m} : thread'[x] = thread[x]
  BY <1>6 DEF TypesLocks
<1>8. /\ Apart' /\ Looking' /\ \A u \in Threads : Emptied(u)'
      /\ \A x \in Mutexes \ {m} : Owned(x)'
      /\ \A u \in Threads \ {t} : At(u)'
      /\ \A x \in Mutexes \ {m}, u \in Threads : InList(x, u)' <=> InList(x, u)
  <2>1. Operating(t, m)' /\ pc[t] \in Busy /\ pc'[t] \notin Ending
    BY <1>1, <1>5 DEF Operating, Busy, Ending, Over, Abandoning
  <2> QED BY <1>1, <1>2, <1>5, <1>6, <1>7, <2>1, Inner
<1>9. \A u \in Threads : ~ InList(m, u)'
  BY <1>7 DEF InList, Distinct
<1>10. Lists'
  <2>1. \A x \in Mutexes, u \in Threads : InList(x, u)' <=> InList(x, u) /\ x # m
    BY <1>8, <1>9
  <2> QED BY <1>1, <1>2, <2>1, UnregisterLists DEF LocksInv
<1>11. At(t)'
  BY <1>1, <1>2, <1>5, <1>7 DEF At
<1>12. Owned(m)'
  <2>1. Operating(t, m)'
    BY <1>5 DEF Operating, Busy
  <2> QED BY <1>1, <1>2, <1>6, <1>7, <2>1 DEF Owned
<1> QED BY <1>3, <1>4, <1>8, <1>10, <1>11, <1>12 DEF LocksInv

LEMMA WaitStep ==
  ASSUME Distinct, SafetyInv, ~ raced, NEW t \in Threads, NEW m \in Mutexes,
         Srfi18CondvarWait(t, m)
  PROVE  SafetyInv'
<1> USE DEF SafetyInv, links
<1>1. /\ pc[t] = "run" /\ pm[m] = t /\ raced' = Meets(t, m)
      /\ locked' = [locked EXCEPT ![m] = FALSE]
      /\ pc' = [pc EXCEPT ![t] = "unmarking"] /\ on' = [on EXCEPT ![t] = m]
      /\ UNCHANGED <<status, detached, pthread, cancel, ended, exc, arg, orphan, told,
                     pm, links, look>>
  BY DEF Srfi18CondvarWait
<1>2. ThreadsInv'
  BY <1>1, ThreadsMove DEF ThreadsInv, TypesThreads, TypesLocks, Points, Inside, Busy
<1>3. TypesLocks'
  <2>1. raced' \in BOOLEAN
    BY <1>1 DEF Meets
  <2> QED BY <1>1, <2>1 DEF TypesLocks
<1>4. ASSUME ~ raced' PROVE LocksInv'
  <2>1. locked[m] /\ thread[m] = t
    BY <1>1, <1>4, HeldByRunning
  <2>2. \A u \in Threads \ {t} : /\ pc'[u] = pc[u] /\ on'[u] = on[u] /\ arg'[u] = arg[u]
                                 /\ ~ Operating(u, m)
    BY <1>1, <1>4 DEF ThreadsInv, TypesThreads, TypesLocks, Meets
  <2>3. pc'[t] = "unmarking" /\ on'[t] = m /\ ~ locked'[m]
    BY <1>1 DEF ThreadsInv, TypesThreads, TypesLocks
  <2>4. \A x \in Mutexes \ {m} : locked'[x] = locked[x] /\ ~ Operating(t, x) /\ ~ Operating(t, x)'
    BY <1>1, <2>3 DEF TypesLocks, Operating, Busy
  <2>5. pc[t] \notin Ending /\ pc[t] \notin Over
    BY <1>1 DEF Ending, Over, Abandoning
  <2>6. /\ Apart'
        /\ \A x \in Mutexes \ {m} : Owned(x)'
        /\ \A u \in Threads \ {t} : At(u)'
        /\ \A x \in Mutexes \ {m}, u \in Threads : InList(x, u)' <=> InList(x, u)
    BY <1>1, <2>2, <2>4, <2>5, Frame
  <2>7. \A u \in Threads : InList(m, u)' <=> InList(m, u)
    BY <1>1, <2>1, <2>3 DEF InList
  <2>8. Operating(t, m)'
    BY <2>3 DEF Operating, Busy
  <2>9. Owned(m)'
    BY <1>1, <2>1, <2>3, <2>7, <2>8 DEF LocksInv, Owned
  <2>10. At(t)'
    BY <1>1, <2>1, <2>3 DEF At
  <2>11. \A u \in Threads : Emptied(u)'
    BY <1>1, <2>2, <2>3 DEF LocksInv, Emptied
  <2>12. Lists'
    BY <1>1, <2>6, <2>7, ListsKept DEF LocksInv
  <2>13. Looking'
    BY <1>1, <2>2, <2>5, LooksOn DEF LocksInv
  <2> QED BY <2>6, <2>9, <2>10, <2>11, <2>12, <2>13 DEF LocksInv
<1> QED BY <1>2, <1>3, <1>4

(* Any thread unlocks any mutex: one that is in the list of a thread,      *)
(* one that a dead thread has left, or one that nobody has.                *)
LEMMA UnlockStep ==
  ASSUME Distinct, SafetyInv, ~ raced, NEW t \in Threads, NEW m \in Mutexes,
         Srfi18MutexUnlock(t, m)
  PROVE  SafetyInv'
<1> USE DEF SafetyInv
<1>1. /\ pc[t] = "run" /\ raced' = (Meets(t, m) \/ ListMeets(t, thread[m])) /\ Unregister(m)
      /\ pc' = [pc EXCEPT ![t] = "clearing"] /\ on' = [on EXCEPT ![t] = m]
      /\ arg' = [arg EXCEPT ![t] = thread[m]]
      /\ UNCHANGED <<status, detached, pthread, cancel, ended, exc, orphan, told, pm, locked, look>>
  BY DEF Srfi18MutexUnlock
<1>2. /\ thread' \in [Mutexes -> Threads \cup {Nil}] /\ thread' = [thread EXCEPT ![m] = Nil]
      /\ next' \in [Mutexes -> Mutexes \cup {Nil}]
      /\ prev' \in [Mutexes -> Mutexes \cup {Nil}]
      /\ mutexes' \in [Threads -> Mutexes \cup {Nil}]
  BY <1>1, UnregisterTypes
<1>3. ThreadsInv'
  <2>1. /\ pc' \in [Threads -> Points]
        /\ arg' \in [Threads -> Threads \cup Mutexes \cup {Nil}]
    BY <1>1 DEF ThreadsInv, TypesThreads, TypesLocks, Points, Busy
  <2> QED BY <1>1, <2>1, ThreadsMove DEF ThreadsInv, TypesThreads, TypesLocks, Inside, Busy
<1>4. TypesLocks'
  <2>1. raced' \in BOOLEAN
    BY <1>1 DEF Meets
  <2> QED BY <1>1, <1>2, <2>1 DEF TypesLocks
<1>5. ASSUME ~ raced' PROVE LocksInv'
  <2>1. /\ \A u \in Threads \ {t} : /\ pc'[u] = pc[u] /\ on'[u] = on[u] /\ arg'[u] = arg[u]
                                    /\ ~ Operating(u, m)
        /\ pc'[t] = "clearing" /\ on'[t] = m
    BY <1>1, <1>5 DEF ThreadsInv, TypesThreads, TypesLocks, Meets
  <2>2. \A u \in Threads : ~ Operating(u, m)
    BY <1>1, <2>1 DEF Operating, Busy
  <2>3. Operating(t, m)' /\ \A x \in Mutexes \ {m} : ~ Operating(t, x) /\ ~ Operating(t, x)'
    BY <1>1, <2>1 DEF Operating, Busy
  <2>4. Owned(m) /\ thread[m] \in Threads \cup {Nil}
    BY DEF LocksInv, TypesLocks
  <2>5. \A u \in Threads : InList(m, u) <=> thread[m] = u /\ locked[m]
    BY <2>2 DEF InList, Operating, Busy
  <2>6. /\ thread'[m] = Nil /\ \A x \in Mutexes \ {m} : thread'[x] = thread[x]
        /\ \A u \in Threads : ~ InList(m, u)'
    <3>1. thread'[m] = Nil /\ \A x \in Mutexes \ {m} : thread'[x] = thread[x]
      BY <1>2 DEF TypesLocks
    <3> QED BY <3>1 DEF InList, Distinct
  <2>7. /\ next'[m] = Nil /\ prev'[m] = Nil
        /\ \A x \in Mutexes \ {m} :
             (\A u \in Threads : ~ InList(x, u)) => next'[x] = next[x] /\ prev'[x] = prev[x]
        /\ \A u \in Threads : pc[u] \in {"exit", "dead"} => mutexes'[u] = Nil
        /\ \/ UNCHANGED <<next, prev, mutexes>> /\ \A u \in Threads : ~ InList(m, u)
           \/ \E d \in Threads : InList(m, d)
    <3>1. CASE thread[m] # Nil /\ locked[m]
      <4>1. PICK d \in Threads : d = thread[m] /\ InList(m, d)
        BY <2>4, <2>5, <3>1
      <4>2. /\ next'[m] = Nil /\ prev'[m] = Nil
            /\ \A x \in Mutexes \ {m} :
                 (\A u \in Threads : ~ InList(x, u)) => next'[x] = next[x] /\ prev'[x] = prev[x]
            /\ \A u \in Threads \ {d} : mutexes'[u] = mutexes[u]
            /\ mutexes[d] # Nil
        BY <1>1, <4>1, UnregisterLinks DEF LocksInv
      <4> QED BY <4>1, <4>2 DEF LocksInv, Emptied
    <3>2. CASE thread[m] = Nil \/ ~ locked[m]
      <4>1. \A u \in Threads : ~ InList(m, u)
        BY <2>5, <3>2 DEF Distinct
      <4>2. next[m] = Nil /\ prev[m] = Nil
        BY <2>4, <4>1 DEF Owned
      <4>3. thread[m] # Nil => mutexes[thread[m]] = Nil
        <5> SUFFICES ASSUME thread[m] # Nil PROVE mutexes[thread[m]] = Nil
          OBVIOUS
        <5>1. thread[m] \in Threads \ {t} /\ pc[thread[m]] \in Over
          BY <1>1, <2>2, <2>4, <3>2 DEF Owned, Operating, Busy, Over, Abandoning
        <5>2. pc[thread[m]] \notin Abandoning
          BY <1>1, <1>5, <5>1 DEF ListMeets
        <5> QED BY <5>1, <5>2 DEF LocksInv, Emptied, Over
      <4>4. UNCHANGED <<next, prev, mutexes>>
        BY <1>1, <2>4, <4>2, <4>3 DEF Unregister, TypesLocks
      <4> QED BY <4>1, <4>2, <4>4 DEF LocksInv, Emptied
    <3> QED BY <3>1, <3>2
  <2>8. pc[t] \notin Ending /\ pc[t] \notin Over
    BY <1>1 DEF Ending, Over, Abandoning
  <2>9. /\ Apart'
        /\ \A x \in Mutexes \ {m} : Owned(x)'
        /\ \A u \in Threads \ {t} : At(u)'
        /\ \A x \in Mutexes \ {m}, u \in Threads : InList(x, u)' <=> InList(x, u)
    BY <1>1, <2>1, <2>3, <2>6, <2>7, <2>8, Frame
  <2>10. Owned(m)'
    BY <1>1, <2>3, <2>6, <2>7 DEF Owned
  <2>11. At(t)'
    BY <1>1, <2>1, <2>6 DEF At
  <2>12. \A u \in Threads : Emptied(u)'
    BY <2>1, <2>7 DEF Emptied
  <2>13. Lists'
    <3>1. \A x \in Mutexes, u \in Threads : InList(x, u)' <=> InList(x, u) /\ x # m
      BY <2>6, <2>9
    <3>2. CASE \E d \in Threads : InList(m, d)
      BY <1>1, <3>1, <3>2, UnregisterLists DEF LocksInv
    <3>3. CASE UNCHANGED <<next, prev, mutexes>> /\ \A u \in Threads : ~ InList(m, u)
      BY <3>1, <3>3, ListsKept DEF LocksInv
    <3> QED BY <2>7, <3>2, <3>3
  <2>14. Looking'
    <3>1. \A u \in Threads : pc[u] \in Over => pc'[u] \in Over
      BY <2>1, <2>8
    <3>2. \A x \in Mutexes : thread'[x] \in {thread[x], Nil} /\ pm'[x] \in {pm[x], Nil}
      BY <1>1, <2>6
    <3> QED BY <1>1, <3>1, <3>2, LooksOn DEF LocksInv
  <2> QED BY <2>9, <2>10, <2>11, <2>12, <2>13, <2>14 DEF LocksInv
<1> QED BY <1>3, <1>4, <1>5

LEMMA AbandonStep ==
  ASSUME Distinct, SafetyInv, ~ raced, NEW t \in Threads, Srfi18MutexesAbandon(t)
  PROVE  SafetyInv'
<1> USE DEF SafetyInv
<1>1. CASE mutexes[t] = Nil
  <2>1. /\ pc[t] = "abandon" /\ raced' = FALSE
        /\ pc' = [pc EXCEPT ![t] = "exit"] /\ arg' = [arg EXCEPT ![t] = Nil]
        /\ UNCHANGED <<status, detached, pthread, cancel, ended, exc, orphan, told,
                       pm, locked, links, on, look>>
    BY <1>1 DEF Srfi18MutexesAbandon
  <2>2. ThreadsInv'
    BY <2>1, ThreadsMove DEF ThreadsInv, TypesThreads, TypesLocks, Points, Abandoning
  <2>3. TypesLocks'
    BY <2>1 DEF TypesLocks, links
  <2>4. Onward
    BY <1>1, <2>1 DEF ThreadsInv, TypesThreads, Onward, Busy, Ending, Over, Abandoning
  <2>5. Looking'
    <3>1. \A u \in Threads : pc[u] \in Over => pc'[u] \in Over
      BY <2>1 DEF ThreadsInv, TypesThreads, Over
    <3> QED BY <2>1, <3>1, LooksOn DEF LocksInv, links
  <2> QED BY <2>1, <2>2, <2>3, <2>4, <2>5, OnwardLocks
<1>2. CASE mutexes[t] # Nil
  <2>1. PICK m \in Mutexes : m = mutexes[t] /\ InList(m, t)
    <3>1. PICK l \in Nat : \E q \in [1 .. l -> Mutexes] : Chain(t, l, q)
      BY DEF LocksInv, Lists
    <3>2. PICK q \in [1 .. l -> Mutexes] : Chain(t, l, q)
      BY <3>1
    <3>3. l > 0 => 1 \in 1 .. l
      OBVIOUS
    <3> QED BY <1>2, <3>2, <3>3 DEF Chain
  <2>2. /\ pc[t] = "abandon" /\ raced' = (Meets(t, m) \/ ListMeets(t, t)) /\ Unregister(m)
        /\ pc' = [pc EXCEPT ![t] = "clear"] /\ arg' = [arg EXCEPT ![t] = m]
        /\ UNCHANGED <<status, detached, pthread, cancel, ended, exc, orphan, told,
                       pm, locked, on, look>>
    BY <1>2, <2>1 DEF Srfi18MutexesAbandon, ListMeets
  <2>3. locked[m] /\ thread[m] = t /\ pm[m] = t
    BY <2>1, <2>2 DEF InList, LocksInv, Owned, Distinct
  <2>4. ThreadsInv'
    <3>1. pc' \in [Threads -> Points] /\ arg' \in [Threads -> Threads \cup Mutexes \cup {Nil}]
      BY <2>2 DEF ThreadsInv, TypesThreads, Points, Abandoning
    <3> QED BY <2>2, <3>1, ThreadsMove DEF ThreadsInv, TypesThreads, TypesLocks, Abandoning
  <2>5. TypesLocks'
    <3>1. raced' \in BOOLEAN
      BY <2>2 DEF Meets
    <3> QED BY <2>2, <3>1, UnregisterTypes DEF TypesLocks
  <2>6. ASSUME ~ raced' PROVE LocksInv'
    <3>1. /\ \A u \in Threads \ {t} : /\ pc'[u] = pc[u] /\ on'[u] = on[u] /\ arg'[u] = arg[u]
                                      /\ ~ Operating(u, m)
          /\ pc'[t] = "clear" /\ arg'[t] = m
      BY <2>2, <2>6 DEF ThreadsInv, TypesThreads, TypesLocks, Meets
    <3>2. Operating(t, m)' /\ \A x \in Mutexes \ {m} : ~ Operating(t, x) /\ ~ Operating(t, x)'
      BY <2>2, <3>1 DEF Operating, Busy
    <3>3. /\ next'[m] = Nil /\ prev'[m] = Nil
          /\ \A x \in Mutexes \ {m} :
               (\A u \in Threads : ~ InList(x, u)) => next'[x] = next[x] /\ prev'[x] = prev[x]
          /\ \A u \in Threads \ {t} : mutexes'[u] = mutexes[u]
          /\ thread' = [thread EXCEPT ![m] = Nil]
      BY <2>1, <2>2, UnregisterLinks DEF LocksInv
    <3>4. /\ thread'[m] = Nil /\ \A x \in Mutexes \ {m} : thread'[x] = thread[x]
          /\ \A u \in Threads : ~ InList(m, u)'
      <4>1. thread'[m] = Nil /\ \A x \in Mutexes \ {m} : thread'[x] = thread[x]
        BY <3>3 DEF TypesLocks
      <4> QED BY <4>1 DEF InList, Distinct
    <3>5. pc'[t] \in Ending /\ pc'[t] \in Over /\ on'[t] = on[t] /\ pc'[t] \notin {"exit", "dead"}
      BY <2>2, <3>1 DEF Ending, Over, Abandoning
    <3>6. /\ Apart'
          /\ \A x \in Mutexes \ {m} : Owned(x)'
          /\ \A u \in Threads \ {t} : At(u)'
          /\ \A x \in Mutexes \ {m}, u \in Threads : InList(x, u)' <=> InList(x, u)
      BY <2>2, <3>1, <3>2, <3>3, <3>4, <3>5, Frame
    <3>7. Owned(m)'
      BY <2>2, <2>3, <3>2, <3>3, <3>4 DEF Owned
    <3>8. At(t)'
      BY <2>2, <2>3, <3>1, <3>4 DEF At
    <3>9. \A u \in Threads : Emptied(u)'
      BY <3>1, <3>3, <3>5 DEF LocksInv, Emptied
    <3>10. Lists'
      <4>1. \A x \in Mutexes, u \in Threads : InList(x, u)' <=> InList(x, u) /\ x # m
        BY <3>4, <3>6
      <4> QED BY <2>1, <2>2, <4>1, UnregisterLists DEF LocksInv
    <3>11. Looking'
      <4>1. \A u \in Threads : pc[u] \in Over => pc'[u] \in Over
        BY <3>1, <3>5
      <4>2. \A x \in Mutexes : thread'[x] \in {thread[x], Nil} /\ pm'[x] \in {pm[x], Nil}
        BY <2>2, <3>4
      <4> QED BY <2>2, <4>1, <4>2, LooksOn DEF LocksInv
    <3> QED BY <3>6, <3>7, <3>8, <3>9, <3>10, <3>11 DEF LocksInv
  <2> QED BY <2>4, <2>5, <2>6
<1> QED BY <1>1, <1>2

(* A cancelled thread gets its mutex; others may still be unlocking it.    *)
LEMMA CancelInWaitStep ==
  ASSUME Distinct, SafetyInv, ~ raced, NEW t \in Threads, CancelInWait(t)
  PROVE  SafetyInv'
<1> USE DEF SafetyInv, links
<1>1. PICK m \in Mutexes :
        /\ m = on[t] /\ pc[t] \in {"wait", "relock"} /\ cancel[t] /\ pm[m] = Nil
        /\ pm' = [pm EXCEPT ![m] = t] /\ pc' = [pc EXCEPT ![t] = "cleanup"]
        /\ Takes(t, m)
        /\ UNCHANGED <<status, detached, pthread, cancel, ended, exc, arg, orphan, told, locked,
                       thread, next, prev, mutexes, on, raced>>
  BY DEF CancelInWait, Takes, ThreadsInv, Life
<1>2. ThreadsInv'
  BY <1>1, ThreadsMove DEF ThreadsInv, TypesThreads, Points
<1>3. TypesLocks'
  <2>1. look' \in [on : Mutexes \cup {Nil}, locked : BOOLEAN, held : SUBSET Threads]
    BY DEF TypesLocks, CancelInWait, Takes
  <2> QED BY <1>1, <2>1 DEF TypesLocks
<1>4. /\ \A u \in Threads \ {t} : pc'[u] = pc[u]
      /\ pc'[t] = "cleanup" /\ pc[t] \notin Busy \cup Ending \cup Over
      /\ \A x \in Mutexes \ {m} : pm'[x] = pm[x]
      /\ pm'[m] = t
  BY <1>1 DEF ThreadsInv, TypesThreads, TypesLocks, Busy, Ending, Over, Abandoning
<1>5. \A u \in Threads, x \in Mutexes : Operating(u, x)' <=> Operating(u, x)
  BY <1>1, <1>4 DEF Operating, Busy, Ending, Over, Abandoning
<1>6. \A u \in Threads, x \in Mutexes : InList(x, u)' <=> InList(x, u)
  BY <1>1, <1>4 DEF InList, Busy
<1>7. Apart'
  BY <1>5 DEF LocksInv, Apart
<1>8. ASSUME NEW x \in Mutexes PROVE Owned(x)'
  <2>1. Owned(x) /\ thread[x] \in Threads \cup {Nil} /\ pm[x] \in Threads \cup {Nil}
    BY DEF LocksInv, TypesLocks
  <2>2. ~ locked[x] /\ thread[x] # Nil =>
          \/ pc'[thread[x]] \in Over
          \/ pc'[thread[x]] \in {"marking", "unmarking"} /\ on'[thread[x]] = x
    BY <1>1, <1>4, <2>1 DEF Owned, Busy
  <2>3. CASE x = m
    <3>1. locked[x] /\ thread[x] # Nil => FALSE
      BY <1>1, <2>1, <2>3 DEF Owned, Distinct
    <3>2. cancel'[t] /\ on'[t] = m /\ pc'[t] \in Ending
      BY <1>1, <1>4 DEF Ending
    <3> QED BY <1>1, <1>4, <1>5, <1>6, <2>1, <2>2, <2>3, <3>1, <3>2 DEF Owned
  <2>4. CASE x # m
    <3>1. ~ locked[x] /\ pm[x] # Nil =>
            \/ \E u \in Threads : Operating(u, x)
            \/ cancel'[pm[x]] /\ on'[pm[x]] = x /\ pc'[pm[x]] \in Ending
      BY <1>1, <1>4, <2>1 DEF Owned
    <3> QED BY <1>1, <1>4, <1>5, <1>6, <2>1, <2>2, <2>4, <3>1 DEF Owned
  <2> QED BY <2>3, <2>4
<1>9. ASSUME NEW u \in Threads PROVE At(u)'
  <2>1. At(u) /\ Life(u)
    BY DEF LocksInv, ThreadsInv
  <2>2. CASE u = t
    BY <1>4, <2>2 DEF At
  <2>3. CASE u # t
    <3>1. pc'[u] = pc[u] /\ on'[u] = on[u] /\ arg'[u] = arg[u]
      BY <1>1, <1>4, <2>3
    <3>2. /\ pc[u] \in Busy => on[u] \in Mutexes
          /\ pc[u] \in {"clear", "name", "free"} => arg[u] \in Mutexes
      BY <2>1 DEF Life
    <3>3. pm[m] # u
      BY <1>1 DEF Distinct
    <3>4. /\ pc[u] \in {"locking", "marking", "unmarking", "sleeping"} => pm'[on[u]] = u
          /\ pc[u] \in {"clear", "name", "free"} => pm'[arg[u]] = u
      BY <1>4, <2>1, <3>2, <3>3 DEF At, Busy
    <3> QED BY <1>1, <2>1, <3>1, <3>4 DEF At
  <2> QED BY <2>2, <2>3
<1>10. \A u \in Threads : Emptied(u)'
  BY <1>1, <1>4 DEF LocksInv, Emptied
<1>11. Lists'
  BY <1>1, <1>6, ListsKept DEF LocksInv
<1>12. Looking'
  <2>1. \A x \in Mutexes : thread[x] # Nil => thread[x] \in Threads
    BY DEF TypesLocks
  <2>2. \A u \in Threads : pc[u] \in Over => pc'[u] \in Over
    BY <1>4
  <2>3. CASE look.on = m
    <3>1. look' = [look EXCEPT !.held = @ \cup {t}]
      BY <1>1, <2>3 DEF Takes
    <3>2. look'.on = m /\ look'.held = look.held \cup {t} /\ look'.locked = look.locked
      BY <2>3, <3>1 DEF TypesLocks
    <3> QED BY <1>1, <1>4, <2>1, <2>2, <2>3, <3>2 DEF LocksInv, Looking
  <2>4. CASE look.on # m
    <3>1. look' = look
      BY <1>1, <2>4 DEF Takes
    <3>2. look.on # Nil => look.on \in Mutexes \ {m}
      BY <2>4 DEF TypesLocks
    <3> QED BY <1>1, <1>4, <2>1, <2>2, <3>1, <3>2 DEF LocksInv, Looking
  <2> QED BY <2>3, <2>4
<1> QED BY <1>2, <1>3, <1>7, <1>8, <1>9, <1>10, <1>11, <1>12 DEF LocksInv

LEMMA WakeStep ==
  ASSUME Distinct, SafetyInv, ~ raced, NEW woken \in SUBSET Waiting, Wake(woken)
  PROVE  SafetyInv'
<1> USE DEF SafetyInv
<1>1. /\ pc' = [t \in Threads |-> IF t \in woken THEN "relock" ELSE pc[t]]
      /\ UNCHANGED <<status, detached, pthread, cancel, ended, exc, arg, orphan, told>>
      /\ UNCHANGED <<pm, locked, links, on, look, raced>>
  BY DEF Wake, locks, links
<1>2. \A t \in woken : t \in Threads /\ pc[t] = "wait" /\ on[t] \in Mutexes
  BY DEF Waiting, ThreadsInv, Life
<1>3. ThreadsInv'
  BY <1>1, <1>2, ThreadsMove DEF ThreadsInv, TypesThreads, Points, Inside
<1>4. TypesLocks'
  BY <1>1 DEF TypesLocks, links
<1>5. Onward
  BY <1>1, <1>2 DEF ThreadsInv, TypesThreads, Onward, Busy, Ending, Over, Abandoning
<1>6. Looking'
  <2>1. \A u \in Threads : pc[u] \in Over => pc'[u] \in Over
    BY <1>1, <1>2 DEF Over, Abandoning
  <2> QED BY <1>1, <2>1, LooksOn DEF LocksInv, links
<1> QED BY <1>1, <1>3, <1>4, <1>5, <1>6, OnwardLocks

(* A call of mutex-state.                                                  *)
LEMMA LookStep ==
  ASSUME Distinct, SafetyInv, ~ raced, NEW t \in Threads, NEW m \in Mutexes, MutexStateReads(t, m)
  PROVE  SafetyInv'
<1> USE DEF SafetyInv
<1>1. /\ pc[t] = "run" /\ pc' = [pc EXCEPT ![t] = "look"]
      /\ look' = [on |-> m, locked |-> locked[m], held |-> {pm[m]} \ {Nil}]
      /\ UNCHANGED <<status, detached, pthread, cancel, ended, exc, arg, orphan, told>>
      /\ UNCHANGED <<pm, locked, links, on, raced>>
  BY DEF MutexStateReads
<1>2. ThreadsInv'
  BY <1>1, ThreadsMove DEF ThreadsInv, TypesThreads, Points, Inside, Busy
<1>3. TypesLocks'
  <2>1. look' \in [on : Mutexes \cup {Nil}, locked : BOOLEAN, held : SUBSET Threads]
    BY <1>1 DEF TypesLocks
  <2> QED BY <1>1, <2>1 DEF TypesLocks, links
<1>4. Onward
  BY <1>1 DEF ThreadsInv, TypesThreads, Onward, Busy, Ending, Over, Abandoning
<1>5. Looking'
  <2>1. Owned(m) /\ thread[m] \in Threads \cup {Nil} /\ pm[m] \in Threads \cup {Nil}
    BY DEF LocksInv, TypesLocks
  <2>2. /\ look'.on = m /\ look'.locked = locked[m] /\ look'.held = {pm[m]} \ {Nil}
        /\ pm' = pm /\ thread' = thread
    BY <1>1 DEF links
  <2>3. thread[m] # Nil => pm[m] = thread[m] \/ (~ locked[m] /\ pc[thread[m]] \in Over)
    <3> SUFFICES ASSUME thread[m] # Nil, ~ locked[m], pc[thread[m]] \notin Over
                 PROVE  pm[m] = thread[m]
      BY <2>1 DEF Owned
    <3>1. pc[thread[m]] \in {"marking", "unmarking"} /\ on[thread[m]] = m /\ thread[m] \in Threads
      BY <2>1 DEF Owned
    <3> QED BY <3>1 DEF LocksInv, At
  <2>4. pc[thread[m]] \in Over /\ thread[m] \in Threads => pc'[thread[m]] \in Over
    BY <1>1 DEF ThreadsInv, TypesThreads, Over, Abandoning
  <2> QED BY <2>1, <2>2, <2>3, <2>4 DEF Looking
<1> QED BY <1>1, <1>2, <1>3, <1>4, <1>5, OnwardLocks

LEMMA AnswerStep ==
  ASSUME Distinct, SafetyInv, ~ raced, NEW t \in Threads, MutexStateAnswers(t)
  PROVE  SafetyInv'
<1> USE DEF SafetyInv
<1>1. /\ pc[t] = "look" /\ pc' = [pc EXCEPT ![t] = "run"] /\ look' = NoLook
      /\ UNCHANGED <<status, detached, pthread, cancel, ended, exc, arg, orphan, told>>
      /\ UNCHANGED <<pm, locked, links, on, raced>>
  BY DEF MutexStateAnswers
<1>2. ThreadsInv'
  BY <1>1, ThreadsMove DEF ThreadsInv, TypesThreads, Points, Inside, Busy
<1>3. TypesLocks'
  BY <1>1 DEF TypesLocks, links, NoLook
<1>4. Onward
  BY <1>1 DEF ThreadsInv, TypesThreads, Onward, Busy, Ending, Over, Abandoning
<1>5. Looking'
  BY <1>1 DEF Looking, NoLook
<1> QED BY <1>1, <1>2, <1>3, <1>4, <1>5, OnwardLocks

-----------------------------------------------------------------------------
(* The steps of the threads themselves.                                    *)
LEMMA ThreadsOnly ==
  ASSUME Distinct, SafetyInv, ThreadsInv', Onward, UNCHANGED locks,
         \A u \in Threads : pc[u] \in Over => pc'[u] \in Over
  PROVE  SafetyInv'
<1>1. UNCHANGED <<pm, locked, links>> /\ on' = on /\ look' = look /\ raced' = raced
  BY DEF locks, links
<1>2. TypesLocks'
  BY <1>1 DEF SafetyInv, TypesLocks, links
<1>3. ASSUME ~ raced PROVE LocksInv'
  <2>1. TypesLocks /\ LocksInv
    BY <1>3 DEF SafetyInv
  <2>2. Looking'
    BY <1>1, <2>1, LooksOn DEF LocksInv, links
  <2> QED BY <1>1, <2>1, <2>2, OnwardLocks
<1> QED BY <1>1, <1>2, <1>3 DEF SafetyInv

LEMMA PthreadStep ==
  ASSUME Distinct, SafetyInv, ~ raced, NEW t \in Threads, UNCHANGED locks,
         \/ BglpthThreadRun(t) \/ BodyEnds(t) \/ BglpthThreadCleanup(t) \/ ThreadExit(t)
         \/ JoinReturns(t) \/ SetEndException(t)
         \/ CancelActs(t) \/ CancelInJoin(t) \/ JoinTimeout(t)
         \/ \E u \in Threads : \/ \E dt \in BOOLEAN : BglpthThreadStart(t, u, dt)
                               \/ BglpthThreadJoin(t, u)
                               \/ BglpthThreadTerminate(t, u)
  PROVE  SafetyInv'
<1>1. ThreadsInv /\ on' = on
  BY DEF SafetyInv, locks
<1>2. pc[t] = "exit" => mutexes[t] = Nil
  BY DEF SafetyInv, LocksInv, Emptied
<1>3. CASE BglpthThreadRun(t)
  <2>1. Onward /\ \A u \in Threads : pc[u] \in Over => pc'[u] \in Over
    BY <1>1, <1>2, <1>3 DEF ThreadsInv, TypesThreads, Onward, Busy, Ending, Over, Abandoning, BglpthThreadRun
  <2>2. ThreadsInv'
    BY <1>1, <1>3, RunThreads
  <2> QED BY <2>1, <2>2, ThreadsOnly
<1>4. CASE BodyEnds(t)
  <2>1. Onward /\ \A u \in Threads : pc[u] \in Over => pc'[u] \in Over
    BY <1>1, <1>2, <1>4 DEF ThreadsInv, TypesThreads, Onward, Busy, Ending, Over, Abandoning, BodyEnds
  <2>2. ThreadsInv'
    BY <1>1, <1>4, BodyEndsThreads
  <2> QED BY <2>1, <2>2, ThreadsOnly
<1>5. CASE BglpthThreadCleanup(t)
  <2>1. Onward /\ \A u \in Threads : pc[u] \in Over => pc'[u] \in Over
    BY <1>1, <1>2, <1>5 DEF ThreadsInv, TypesThreads, Onward, Busy, Ending, Over, Abandoning, BglpthThreadCleanup
  <2>2. ThreadsInv'
    BY <1>1, <1>5, CleanupThreads
  <2> QED BY <2>1, <2>2, ThreadsOnly
<1>6. CASE ThreadExit(t)
  <2>1. Onward /\ \A u \in Threads : pc[u] \in Over => pc'[u] \in Over
    BY <1>1, <1>2, <1>6 DEF ThreadsInv, TypesThreads, Onward, Busy, Ending, Over, Abandoning, ThreadExit
  <2>2. ThreadsInv'
    BY <1>1, <1>6, ThreadExitThreads
  <2> QED BY <2>1, <2>2, ThreadsOnly
<1>7. CASE JoinReturns(t)
  <2>1. Onward /\ \A u \in Threads : pc[u] \in Over => pc'[u] \in Over
    BY <1>1, <1>2, <1>7 DEF ThreadsInv, TypesThreads, Onward, Busy, Ending, Over, Abandoning, JoinReturns
  <2>2. ThreadsInv'
    BY <1>1, <1>7, JoinReturnsThreads
  <2> QED BY <2>1, <2>2, ThreadsOnly
<1>8. CASE SetEndException(t)
  <2>1. Onward /\ \A u \in Threads : pc[u] \in Over => pc'[u] \in Over
    BY <1>1, <1>2, <1>8 DEF ThreadsInv, TypesThreads, Onward, Busy, Ending, Over, Abandoning, SetEndException
  <2>2. ThreadsInv'
    BY <1>1, <1>8, SetEndExceptionThreads
  <2> QED BY <2>1, <2>2, ThreadsOnly
<1>9. CASE CancelActs(t)
  <2>1. Onward /\ \A u \in Threads : pc[u] \in Over => pc'[u] \in Over
    BY <1>1, <1>2, <1>9 DEF ThreadsInv, TypesThreads, Onward, Busy, Ending, Over, Abandoning, CancelActs
  <2>2. ThreadsInv'
    BY <1>1, <1>9, CancelActsThreads
  <2> QED BY <2>1, <2>2, ThreadsOnly
<1>10. CASE CancelInJoin(t)
  <2>1. Onward /\ \A u \in Threads : pc[u] \in Over => pc'[u] \in Over
    BY <1>1, <1>2, <1>10 DEF ThreadsInv, TypesThreads, Onward, Busy, Ending, Over, Abandoning, CancelInJoin
  <2>2. ThreadsInv'
    BY <1>1, <1>10, CancelInJoinThreads
  <2> QED BY <2>1, <2>2, ThreadsOnly
<1>11. CASE JoinTimeout(t)
  <2>1. Onward /\ \A u \in Threads : pc[u] \in Over => pc'[u] \in Over
    BY <1>1, <1>2, <1>11 DEF ThreadsInv, TypesThreads, Onward, Busy, Ending, Over, Abandoning, JoinTimeout
  <2>2. ThreadsInv'
    BY <1>1, <1>11, JoinTimeoutThreads
  <2> QED BY <2>1, <2>2, ThreadsOnly
<1>12. ASSUME NEW u \in Threads, NEW dt \in BOOLEAN, BglpthThreadStart(t, u, dt)
       PROVE  SafetyInv'
  <2>1. Onward /\ \A v \in Threads : pc[v] \in Over => pc'[v] \in Over
    BY <1>1, <1>2, <1>12 DEF ThreadsInv, TypesThreads, Onward, Busy, Ending, Over, Abandoning,
       BglpthThreadStart
  <2>2. ThreadsInv'
    BY <1>1, <1>12, StartThreads
  <2> QED BY <2>1, <2>2, ThreadsOnly
<1>13. ASSUME NEW u \in Threads, BglpthThreadJoin(t, u)
       PROVE  SafetyInv'
  <2>1. Onward /\ \A v \in Threads : pc[v] \in Over => pc'[v] \in Over
    BY <1>1, <1>2, <1>13 DEF ThreadsInv, TypesThreads, Onward, Busy, Ending, Over, Abandoning,
       BglpthThreadJoin
  <2>2. ThreadsInv'
    BY <1>1, <1>13, JoinThreads
  <2> QED BY <2>1, <2>2, ThreadsOnly
<1>14. ASSUME NEW u \in Threads, BglpthThreadTerminate(t, u)
       PROVE  SafetyInv'
  <2>1. Onward /\ \A v \in Threads : pc[v] \in Over => pc'[v] \in Over
    BY <1>1, <1>2, <1>14 DEF ThreadsInv, TypesThreads, Onward, Busy, Ending, Over, Abandoning,
       BglpthThreadTerminate
  <2>2. ThreadsInv'
    BY <1>1, <1>14, TerminateThreads
  <2> QED BY <2>1, <2>2, ThreadsOnly
<1> QED
  BY <1>3, <1>4, <1>5, <1>6, <1>7, <1>8, <1>9, <1>10, <1>11, <1>12, <1>13, <1>14

LEMMA SafetyInit ==
  ASSUME Distinct, SrfiInit
  PROVE  SafetyInv
<1>1. TypesLocks
  BY DEF SrfiInit, InitLocks, TypesLocks, NoLook
<1>2. \A t \in Threads : pc[t] \in {"run", "new"}
  BY DEF SrfiInit, InitThreads
<1>3. \A t \in Threads, m \in Mutexes : ~ Operating(t, m) /\ ~ InList(m, t)
  BY <1>2 DEF Operating, Busy, InList, SrfiInit, InitLocks, Distinct
<1>4. Apart
  BY <1>3 DEF Apart
<1>5. \A m \in Mutexes : Owned(m)
  BY DEF SrfiInit, InitLocks, Owned
<1>6. \A t \in Threads : At(t) /\ Emptied(t)
  BY <1>2 DEF At, Emptied
<1>7. ASSUME NEW t \in Threads
      PROVE  \E n \in Nat : \E s \in [1 .. n -> Mutexes] : Chain(t, n, s)
  <2> DEFINE s == [i \in 1 .. 0 |-> Nil]
  <2>1. s \in [1 .. 0 -> Mutexes]
    OBVIOUS
  <2>2. Chain(t, 0, s)
    BY <1>3 DEF SrfiInit, InitLocks, Chain
  <2> QED BY <2>1, <2>2
<1>8. Looking
  BY DEF SrfiInit, InitLocks, Looking, NoLook
<1> QED BY <1>1, <1>4, <1>5, <1>6, <1>7, <1>8, ThreadsInit DEF SafetyInv, LocksInv, Lists

LEMMA SafetyStep ==
  ASSUME Distinct, SafetyInv, [SrfiNext]_srfiVars
  PROVE  SafetyInv'
<1>1. CASE UNCHANGED srfiVars
  <2>1. UNCHANGED threads /\ UNCHANGED locks
    BY <1>1 DEF srfiVars
  <2>2. ThreadsInv'
    BY <2>1, ThreadsMove DEF SafetyInv, ThreadsInv, TypesThreads, threads, locks
  <2>3. Onward /\ \A u \in Threads : pc[u] \in Over => pc'[u] \in Over
    BY <2>1 DEF threads, locks, Onward
  <2> QED BY <2>1, <2>2, <2>3, ThreadsOnly
<1>2. ASSUME NEW t \in Threads, ~ raced, Own(t)
      PROVE  SafetyInv'
  <2>1. CASE MutexStep(t) \/ MutexStateAnswers(t)
    BY <1>2, <2>1, MarkLockedStep, SetLockedStep, ClearLockedStep, ReleaseStep, AbandonStep,
       ClearAbandonedStep, NameDeadStep, FreeAbandonedStep, UnmarkStep, SleepStep, AnswerStep
       DEF MutexStep
  <2>2. CASE ~ (MutexStep(t) \/ MutexStateAnswers(t))
    BY <1>2, <2>2, PthreadStep DEF Own
  <2> QED BY <2>1, <2>2
<1>3. ASSUME NEW t \in Threads, ~ raced, Act(t)
      PROVE  SafetyInv'
  <2>1. CASE WaitRefused(t) \/ CondvarRelock(t) \/ CancelInWait(t)
    BY <1>3, <2>1, RefusedStep, RelockStep, CancelInWaitStep
  <2>2. ASSUME NEW m \in Mutexes,
               \/ Srfi18MutexTimedLock(t, m) \/ Srfi18MutexUnlock(t, m)
               \/ Srfi18CondvarWait(t, m) \/ MutexStateReads(t, m)
        PROVE  SafetyInv'
    BY <1>1, <1>3, <2>2, LockStep, UnlockStep, WaitStep, LookStep DEF Srfi18MutexTimedLock
  <2>3. CASE /\ \/ CancelActs(t) \/ CancelInJoin(t) \/ JoinTimeout(t)
                \/ \E u \in Threads : /\ t \in Callers
                                      /\ \/ \E dt \in BOOLEAN : BglpthThreadStart(t, u, dt)
                                         \/ BglpthThreadJoin(t, u)
                                         \/ BglpthThreadTerminate(t, u)
             /\ UNCHANGED locks
    BY <1>3, <2>3, PthreadStep
  <2> QED BY <1>3, <2>1, <2>2, <2>3 DEF Act
<1>4. CASE SomeBodyEnds
  BY <1>4, PthreadStep DEF SomeBodyEnds
<1>5. CASE ~ raced /\ BglpthCondvarSignal
  <2>1. PICK t \in Waiting : Wake({t})
    BY <1>5 DEF BglpthCondvarSignal
  <2>2. {t} \in SUBSET Waiting
    OBVIOUS
  <2> QED BY <1>5, <2>1, <2>2, WakeStep
<1>6. CASE ~ raced /\ BglpthCondvarBroadcast
  BY <1>6, WakeStep DEF BglpthCondvarBroadcast
<1> QED BY <1>1, <1>2, <1>3, <1>4, <1>5, <1>6 DEF SrfiNext

(* The inductive invariant of the native threads and of their mutexes.     *)
LEMMA Safety ==
  ASSUME Distinct
  PROVE  SrfiSpec => []SafetyInv
<1>1. SrfiInit => SafetyInv
  BY SafetyInit
<1>2. SafetyInv /\ [SrfiNext]_srfiVars => SafetyInv'
  BY SafetyStep
<1> QED BY <1>1, <1>2, PTL DEF SrfiSpec

(* A list without repetition is not longer than the mutexes are many.      *)
LEMMA ChainLength ==
  ASSUME Distinct, NEW t \in Threads, NEW n \in Nat, NEW s \in [1 .. n -> Mutexes], Chain(t, n, s)
  PROVE  n \in 0 .. Cardinality(Mutexes)
<1>1. s \in Injection(1 .. n, Mutexes)
  BY DEF Chain, Injection, IsInjective
<1>2. Cardinality(1 .. n) <= Cardinality(Mutexes)
  BY <1>1, FS_Injection DEF Distinct
<1>3. Cardinality(1 .. n) = n
  BY FS_Interval
<1>4. Cardinality(Mutexes) \in Nat
  BY FS_CardinalityType DEF Distinct
<1> QED BY <1>2, <1>3, <1>4

LEMMA LinkedLists ==
  ASSUME Distinct, LocksInv, NEW t \in Threads
  PROVE  Linked(t)
<1>1. PICK n \in Nat : \E s \in [1 .. n -> Mutexes] : Chain(t, n, s)
  BY DEF LocksInv, Lists
<1>2. PICK s \in [1 .. n -> Mutexes] : Chain(t, n, s)
  BY <1>1
<1>3. n \in 0 .. Cardinality(Mutexes)
  BY <1>2, ChainLength
<1>4. s \in UNION {[1 .. k -> Mutexes] : k \in 0 .. Cardinality(Mutexes)}
  BY <1>3
<1>5. Len(s) = n /\ (s = <<>> <=> n = 0)
  OBVIOUS
<1>6. IF s = <<>> THEN mutexes[t] = Nil
      ELSE mutexes[t] = s[1] /\ next[s[Len(s)]] = Nil /\ prev[s[1]] = Nil
  BY <1>2, <1>5 DEF Chain
<1>7. \A i \in 1 .. Len(s) - 1 : next[s[i]] = s[i + 1] /\ prev[s[i + 1]] = s[i]
  BY <1>2, <1>5 DEF Chain
<1>8. {s[i] : i \in 1 .. Len(s)} = {m \in Mutexes : InList(m, t)}
  BY <1>2, <1>5 DEF Chain
<1> QED BY <1>4, <1>6, <1>7, <1>8 DEF Linked

(* thread-join! answers after the thread has ended, with what its body     *)
(* left, and pthread_cancel never gets a pthread that is gone: for any     *)
(* number of threads, whoever starts, joins and terminates whom.           *)
THEOREM Joins ==
  ASSUME Distinct
  PROVE  SrfiSpec => []JoinsTell
<1>1. SafetyInv => JoinsTell
  <2> SUFFICES ASSUME SafetyInv PROVE JoinsTell
    OBVIOUS
  <2>1. SrfiTypeOK
    BY DEF SafetyInv, ThreadsInv, TypesThreads, TypesLocks, Life, SrfiTypeOK, TypeOKThreads
  <2>2. CancelAlive
    BY DEF SafetyInv, ThreadsInv, TypesThreads, Life, CancelAlive, Points, Inside, Busy, Abandoning
  <2>3. JoinTells
    BY DEF SafetyInv, ThreadsInv, End, JoinTells
  <2> QED BY <2>1, <2>2, <2>3 DEF JoinsTell
<1> QED BY <1>1, Safety, PTL

(* For any number of threads and mutexes, as long as no two operations on  *)
(* one mutex or one list meet: after each step of an operation the list of *)
(* a thread is well linked and holds exactly its mutexes; outside of the   *)
(* operations on a mutex mutex-state is exact, and a thread has abandoned  *)
(* what it had locked before it exits; and a call of mutex-state during    *)
(* such steps names no owner that has not held the mutex meanwhile.        *)
THEOREM Abandoned ==
  ASSUME Distinct
  PROVE  SrfiSpec => []MutexesAbandoned
<1>1. ASSUME SafetyInv, ~ raced
      PROVE  /\ \A t \in Threads : Linked(t)
             /\ \A m \in Mutexes : (\E t \in Threads : Operating(t, m)) \/ StateExact(m)
             /\ LookTells
  <2> USE <1>1 DEF SafetyInv
  <2>1. \A t \in Threads : Linked(t)
    BY LinkedLists
  <2>2. ASSUME NEW m \in Mutexes, \A t \in Threads : ~ Operating(t, m)
        PROVE  StateExact(m)
    <3>1. /\ Owned(m) /\ thread[m] \in Threads \cup {Nil} /\ pm[m] \in Threads \cup {Nil}
          /\ locked[m] \in BOOLEAN
      BY DEF LocksInv, TypesLocks
    <3>2. \A t \in Threads : ~ (pc[t] \in {"marking", "unmarking"} /\ on[t] = m)
      BY <2>2 DEF Operating, Busy
    <3>3. locked[m] => thread[m] \in Threads /\ pm[m] = thread[m]
      BY <2>2, <3>1 DEF Owned
    <3>4. ~ locked[m] /\ thread[m] # Nil => pc[thread[m]] \in Over
      BY <3>1, <3>2 DEF Owned
    <3>5. ~ locked[m] /\ pm[m] # Nil => cancel[pm[m]] /\ on[pm[m]] = m
      BY <2>2, <3>1 DEF Owned
    <3>6. ASSUME locked[m], pc[thread[m]] \in {"exit", "dead"} PROVE FALSE
      <4>1. PICK t \in Threads : t = thread[m] /\ mutexes[t] = Nil /\ InList(m, t)
        BY <3>3, <3>6 DEF LocksInv, Emptied, InList
      <4>2. PICK n \in Nat : \E s \in [1 .. n -> Mutexes] : Chain(t, n, s)
        BY DEF LocksInv, Lists
      <4>3. PICK s \in [1 .. n -> Mutexes] : Chain(t, n, s)
        BY <4>2
      <4>4. n = 0
        BY <4>1, <4>3 DEF Chain, Distinct
      <4> QED BY <4>1, <4>3, <4>4 DEF Chain
    <3>7. CASE locked[m]
      <4>1. Srfi18MutexState(m, locked[m]) = thread[m] /\ thread[m] \in Threads
        BY <3>3, <3>7 DEF Srfi18MutexState, Distinct
      <4>2. thread[m] # "not-owned" /\ thread[m] # "abandoned"
        BY <4>1 DEF Distinct
      <4> QED BY <3>3, <3>6, <3>7, <4>1, <4>2 DEF StateExact
    <3>8. CASE ~ locked[m]
      <4>1. Srfi18MutexState(m, locked[m]) # "not-owned"
        BY <3>8 DEF Srfi18MutexState
      <4>2. Srfi18MutexState(m, locked[m]) = "abandoned" => thread[m] # Nil
        BY <3>8 DEF Srfi18MutexState
      <4> QED BY <3>4, <3>5, <3>8, <4>1, <4>2 DEF StateExact
    <3> QED BY <3>1, <3>7, <3>8
  <2>3. LookTells
    BY DEF LocksInv, Looking, LookTells
  <2> QED BY <2>1, <2>2, <2>3
<1>2. SafetyInv => MutexesAbandoned
  BY <1>1 DEF MutexesAbandoned
<1> QED BY <1>2, Safety, PTL
=============================================================================
