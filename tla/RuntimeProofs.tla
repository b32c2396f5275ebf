---------------------------- MODULE RuntimeProofs ----------------------------
(***************************************************************************)
(* What the stacks of threads keep under call/cc and dynamic-wind, and the *)
(* symbol table and the weak pointers under their users, for any threads,  *)
(* winds, names and objects.                                               *)
(***************************************************************************)
EXTENDS Callcc, Tables, FiniteSetTheorems, FunctionTheorems, SequenceTheorems, WellFoundedInduction, TLAPS

(* Continuations.  A stack of exit blocks, and the before list that        *)
(* belongs to it: base[i] of its winds are below the i-th block.           *)
Block == [stamp : Nat, winds : Seq(Winds)]

Fit(bs, bf, base) ==
  /\ base[1] = 0 /\ base[Len(bs) + 1] = Len(bf)
  /\ \A i \in 1 .. Len(bs) : base[i + 1] = base[i] + Len(bs[i].winds)
  /\ \A i, j \in 1 .. Len(bs) + 1 : i <= j => base[i] <= base[j]
  /\ \A i \in 1 .. Len(bs) : \A j \in 1 .. Len(bs[i].winds) : bf[base[i] + j] = bs[i].winds[j]
  /\ \A m \in 1 .. Len(bf) : \E i \in 1 .. Len(bs) : base[i] < m /\ m <= base[i + 1]

Layout(bs, bf) == \E base \in [1 .. Len(bs) + 1 -> 0 .. Len(bf)] : Fit(bs, bf, base)

Distinct(bf) == \A i, j \in 1 .. Len(bf) : bf[i] = bf[j] => i = j

(* A stack whose block in the place of a continuation's has its stamp is,  *)
(* below that block, the stack of the continuation.                        *)
Traced(bs, k) ==
  Len(k.blocks) <= Len(bs) /\ bs[Len(k.blocks)].stamp = k.stamp
    => \A i \in 1 .. Len(k.blocks) - 1 : bs[i] = k.blocks[i]

Kont == [bot : Runners, stamp : Nat, blocks : Seq(Block), befores : Seq(Winds)]
Turn == {Evaluating} \cup [at : {"unwind", "install", "init"}, kont : Nat]

CallccTypes ==
  /\ blocks \in [Runners -> Seq(Block)] /\ befores \in [Runners -> Seq(Winds)]
  /\ stamps \in [Runners -> Nat] /\ konts \in Seq(Kont) /\ pc \in [Runners -> Turn]
  /\ inside \in [Runners -> [Winds -> Int]] /\ mixed \subseteq Runners
  /\ jumped \in [Runners -> Nat] /\ bottom \in [Runners -> Seq(Winds)]
  /\ missed \in [Runners -> [Winds -> Nat]] /\ again \in [Runners -> SUBSET Winds]

Balanced(t) ==
  /\ Layout(blocks[t], befores[t]) /\ Distinct(befores[t])
  /\ \A w \in Winds : inside[t][w] = missed[t][w] + IF w \in Members(befores[t]) THEN 1 ELSE 0

Unwound(t) == bottom[t] = <<>> /\ \A w \in Winds : inside[t][w] = missed[t][w]

(* The protections b of the bottom block are those of the last of its      *)
(* winds p, and the others were put back by a continuation.                *)
Guards(p, b, back) ==
  /\ Len(b) <= Len(p)
  /\ \A j \in 1 .. Len(b) : p[Len(p) - Len(b) + j] = b[j]
  /\ \A j \in 1 .. Len(p) - Len(b) : p[j] \in back

Guarded(t) == Guards(blocks[t][1].winds, bottom[t], again[t])

StackOf(t) ==
  /\ blocks[t] # <<>> /\ \A i \in 1 .. Len(blocks[t]) : blocks[t][i].stamp <= stamps[t]
  /\ pc[t] # Evaluating => /\ t \notin mixed
                           /\ pc[t].kont \in 1 .. Len(konts) /\ konts[pc[t].kont].bot = t
  /\ t \notin mixed /\ (pc[t] = Evaluating \/ pc[t].at = "unwind") => Balanced(t) /\ Guarded(t)
  /\ pc[t] # Evaluating /\ pc[t].at \in {"install", "init"} => Unwound(t)
  /\ \A w \in Winds : missed[t][w] > 0 => w \in again[t]
  /\ pc[t] # Evaluating /\ pc[t].at = "init" =>
       /\ blocks[t] = konts[pc[t].kont].blocks
       /\ static.by = t => static.kont = pc[t].kont

StacksInv == \A t \in Runners : StackOf(t)

Captured(k) ==
  /\ Len(k.blocks) >= 2 /\ Top(k.blocks).winds = <<>> /\ Top(k.blocks).stamp = k.stamp
  /\ Layout(k.blocks, k.befores) /\ Distinct(k.befores)
  /\ \A i \in 1 .. Len(k.blocks) : k.blocks[i].stamp <= stamps[k.bot]

KontsInv == \A n \in 1 .. Len(konts) : Captured(konts[n])

TraceInv ==
  \A n \in 1 .. Len(konts) :
    /\ Traced(blocks[konts[n].bot], konts[n])
    /\ \A m \in 1 .. Len(konts) : konts[m].bot = konts[n].bot => Traced(konts[m].blocks, konts[n])

CallccInv == CallccTypes /\ StacksInv /\ KontsInv /\ TraceInv

-----------------------------------------------------------------------------
(* Sequences.                                                              *)
LEMMA Popped ==
  ASSUME NEW S, NEW s \in Seq(S), s # <<>>
  PROVE  /\ Pop(s) \in Seq(S) /\ Len(Pop(s)) = Len(s) - 1 /\ Len(s) \in Nat \ {0}
         /\ Top(s) \in S /\ Top(s) = s[Len(s)]
         /\ \A i \in 1 .. Len(s) - 1 : Pop(s)[i] = s[i]
<1>1. Len(s) \in Nat \ {0} /\ Len(s) - 1 \in 0 .. Len(s)
  OBVIOUS
<1>2. s[Len(s)] \in S
  BY <1>1
<1> DEFINE n == Len(s) - 1
<1> HIDE DEF n
<1>3. n \in 0 .. Len(s)
  BY <1>1 DEF n
<1>4. /\ SubSeq(s, 1, n) \in Seq(S) /\ Len(SubSeq(s, 1, n)) = n
      /\ \A i \in 1 .. n : SubSeq(s, 1, n)[i] = s[i]
  BY <1>3
<1>5. Pop(s) = SubSeq(s, 1, n)
  BY DEF Pop, n
<1>6. /\ Pop(s) \in Seq(S) /\ Len(Pop(s)) = n /\ \A i \in 1 .. n : Pop(s)[i] = s[i]
  BY <1>4, <1>5
<1> QED BY <1>1, <1>2, <1>6 DEF Top, n

LEMMA Pushed ==
  ASSUME NEW S, NEW s \in Seq(S), NEW x \in S
  PROVE  /\ Append(s, x) \in Seq(S) /\ Len(Append(s, x)) = Len(s) + 1 /\ Len(s) \in Nat
         /\ Append(s, x)[Len(s) + 1] = x /\ \A i \in 1 .. Len(s) : Append(s, x)[i] = s[i]
OBVIOUS

LEMMA Replaced ==
  ASSUME NEW S, NEW s \in Seq(S), NEW n \in 1 .. Len(s), NEW x \in S
  PROVE  /\ [s EXCEPT ![n] = x] \in Seq(S) /\ Len([s EXCEPT ![n] = x]) = Len(s)
         /\ [s EXCEPT ![n] = x][n] = x
         /\ \A i \in 1 .. Len(s) : i # n => [s EXCEPT ![n] = x][i] = s[i]
OBVIOUS

LEMMA Shortened ==
  ASSUME NEW S, NEW s \in Seq(S), NEW n \in 0 .. Len(s)
  PROVE  /\ SubSeq(s, 1, n) \in Seq(S) /\ Len(SubSeq(s, 1, n)) = n
         /\ \A i \in 1 .. n : SubSeq(s, 1, n)[i] = s[i]
OBVIOUS

(* The winds of the top block are the last of the before list.             *)
LEMMA TopFits ==
  ASSUME NEW bs \in Seq(Block), bs # <<>>, NEW bf \in Seq(Winds),
         NEW base \in [1 .. Len(bs) + 1 -> 0 .. Len(bf)], Fit(bs, bf, base)
  PROVE  LET n == Len(bs)
             p == bs[n].winds
         IN /\ n \in Nat \ {0} /\ p \in Seq(Winds) /\ Len(p) \in Nat /\ Len(bf) \in Nat
            /\ base[n] \in Nat /\ base[n] + Len(p) = Len(bf)
            /\ \A j \in 1 .. Len(p) : bf[base[n] + j] = p[j]
<1> DEFINE n == Len(bs)
           p == bs[n].winds
<1>1. n \in Nat \ {0} /\ n \in 1 .. n /\ Len(bf) \in Nat
  OBVIOUS
<1>2. bs[n] \in Block
  BY <1>1
<1>3. p \in Seq(Winds)
  BY <1>2 DEF Block
<1>4. base[n] \in 0 .. Len(bf) /\ base[n + 1] = base[n] + Len(p) /\ base[n + 1] = Len(bf)
  BY <1>1 DEF Fit
<1>5. \A j \in 1 .. Len(p) : bf[base[n] + j] = p[j]
  BY <1>1 DEF Fit
<1>6. Len(p) \in Nat
  BY <1>3
<1> QED BY <1>1, <1>3, <1>4, <1>5, <1>6

(* A new block on the stack.                                               *)
LEMMA PushFits ==
  ASSUME NEW bs \in Seq(Block), NEW bf \in Seq(Winds), Layout(bs, bf),
         NEW b \in Block, b.winds = <<>>
  PROVE  Layout(Append(bs, b), bf)
<1> DEFINE n == Len(bs)
           cs == Append(bs, b)
<1>1. PICK base \in [1 .. n + 1 -> 0 .. Len(bf)] : Fit(bs, bf, base)
  BY DEF Layout
<1>2. /\ n \in Nat /\ Len(cs) = n + 1 /\ cs[n + 1] = b /\ Len(bf) \in Nat
      /\ \A i \in 1 .. n : cs[i] = bs[i]
  BY Pushed
<1>3. Len(b.winds) = 0
  OBVIOUS
<1> DEFINE c == [i \in 1 .. n + 2 |-> IF i = n + 2 THEN Len(bf) ELSE base[i]]
<1>4. c \in [1 .. Len(cs) + 1 -> 0 .. Len(bf)]
  BY <1>2
<1> HIDE DEF n, cs
<1>5. c[n + 2] = Len(bf) /\ \A i \in 1 .. n + 1 : c[i] = base[i]
  BY <1>2
<1>6. /\ base[1] = 0 /\ base[n + 1] = Len(bf)
      /\ \A i \in 1 .. n : base[i + 1] = base[i] + Len(bs[i].winds)
      /\ \A i, j \in 1 .. n + 1 : i <= j => base[i] <= base[j]
      /\ \A i \in 1 .. n : \A j \in 1 .. Len(bs[i].winds) : bf[base[i] + j] = bs[i].winds[j]
      /\ \A m \in 1 .. Len(bf) : \E i \in 1 .. n : base[i] < m /\ m <= base[i + 1]
  BY <1>1 DEF Fit, n
<1>7. \A i \in 1 .. n + 1 : base[i] \in 0 .. Len(bf)
  BY <1>1 DEF n
<1> HIDE DEF c
<1>8. c[1] = 0 /\ c[Len(cs) + 1] = Len(bf)
  BY <1>2, <1>5, <1>6
<1>9. \A i \in 1 .. Len(cs) : c[i + 1] = c[i] + Len(cs[i].winds)
  <2>1. ASSUME NEW i \in 1 .. n PROVE c[i + 1] = c[i] + Len(cs[i].winds)
    <3>1. c[i + 1] = base[i + 1] /\ c[i] = base[i]
      BY <1>2, <1>5
    <3>2. cs[i] = bs[i]
      BY <1>2
    <3> QED BY <1>6, <3>1, <3>2
  <2>2. c[n + 1 + 1] = c[n + 1] + Len(cs[n + 1].winds)
    BY <1>2, <1>3, <1>5, <1>6
  <2>3. \A i \in 1 .. n + 1 : i \in 1 .. n \/ i = n + 1
    BY <1>2
  <2>4. ASSUME NEW i \in 1 .. n + 1 PROVE c[i + 1] = c[i] + Len(cs[i].winds)
    <3>1. CASE i \in 1 .. n
      BY <2>1, <3>1
    <3>2. CASE i = n + 1
      BY <2>2, <3>2
    <3> QED BY <2>3, <3>1, <3>2
  <2> QED BY <1>2, <2>4
<1>10. \A i, j \in 1 .. Len(cs) + 1 : i <= j => c[i] <= c[j]
  <2>1. ASSUME NEW i \in 1 .. n + 2, NEW j \in 1 .. n + 2, i <= j PROVE c[i] <= c[j]
    <3>1. CASE j = n + 2
      <4>1. c[i] \in 0 .. Len(bf)
        <5>1. CASE i = n + 2
          BY <1>2, <1>5, <5>1
        <5>2. CASE i # n + 2
          BY <1>2, <1>5, <1>7, <5>2
        <5> QED BY <5>1, <5>2
      <4> QED BY <1>2, <1>5, <3>1, <4>1
    <3>2. CASE j # n + 2
      <4>1. i \in 1 .. n + 1 /\ j \in 1 .. n + 1
        BY <1>2, <2>1, <3>2
      <4> QED BY <1>5, <1>6, <2>1, <4>1
    <3> QED BY <3>1, <3>2
  <2> QED BY <1>2, <2>1
<1>11. \A i \in 1 .. Len(cs) : \A j \in 1 .. Len(cs[i].winds) : bf[c[i] + j] = cs[i].winds[j]
  <2>1. ASSUME NEW i \in 1 .. n, NEW j \in 1 .. Len(cs[i].winds) PROVE bf[c[i] + j] = cs[i].winds[j]
    <3>1. c[i] = base[i] /\ cs[i] = bs[i]
      BY <1>2, <1>5
    <3> QED BY <1>6, <3>1
  <2>2. 1 .. Len(cs[n + 1].winds) = {}
    BY <1>2, <1>3
  <2>3. \A i \in 1 .. Len(cs) : i \in 1 .. n \/ i = n + 1
    BY <1>2
  <2> QED BY <2>1, <2>2, <2>3
<1>12. \A m \in 1 .. Len(bf) : \E i \in 1 .. Len(cs) : c[i] < m /\ m <= c[i + 1]
  <2>1. ASSUME NEW m \in 1 .. Len(bf) PROVE \E i \in 1 .. Len(cs) : c[i] < m /\ m <= c[i + 1]
    <3>1. PICK i \in 1 .. n : base[i] < m /\ m <= base[i + 1]
      BY <1>6
    <3>2. c[i + 1] = base[i + 1] /\ c[i] = base[i] /\ i \in 1 .. Len(cs)
      BY <1>2, <1>5
    <3> QED BY <3>1, <3>2
  <2> QED BY <2>1
<1>13. Fit(cs, bf, c)
  BY <1>8, <1>9, <1>10, <1>11, <1>12 DEF Fit
<1> QED BY <1>4, <1>13 DEF Layout, cs

(* The top block goes, with its winds.                                     *)
LEMMA PopFits ==
  ASSUME NEW bs \in Seq(Block), bs # <<>>, NEW bf \in Seq(Winds), Layout(bs, bf)
  PROVE  LET h == Len(bf) - Len(Top(bs).winds)
         IN h \in 0 .. Len(bf) /\ Layout(Pop(bs), SubSeq(bf, 1, h))
<1> DEFINE n == Len(bs)
           p == bs[n].winds
           h == Len(bf) - Len(p)
           cs == Pop(bs)
           cf == SubSeq(bf, 1, h)
<1>1. PICK base \in [1 .. n + 1 -> 0 .. Len(bf)] : Fit(bs, bf, base)
  BY DEF Layout
<1>2. n \in Nat \ {0} /\ Len(cs) = n - 1 /\ \A i \in 1 .. n - 1 : cs[i] = bs[i]
  BY Popped
<1>3. Len(p) \in Nat /\ base[n] \in Nat /\ base[n] + Len(p) = Len(bf) /\ Len(bf) \in Nat
  BY <1>1, TopFits
<1>4. h = base[n] /\ h \in 0 .. Len(bf)
  BY <1>3
<1>5. Len(cf) = h /\ \A i \in 1 .. h : cf[i] = bf[i]
  <2> HIDE DEF h
  <2> QED BY <1>4, Shortened
<1> DEFINE c == [i \in 1 .. n |-> base[i]]
<1>6. /\ base[1] = 0
      /\ \A i \in 1 .. n : base[i + 1] = base[i] + Len(bs[i].winds)
      /\ \A i, j \in 1 .. n + 1 : i <= j => base[i] <= base[j]
      /\ \A i \in 1 .. n : \A j \in 1 .. Len(bs[i].winds) : bf[base[i] + j] = bs[i].winds[j]
      /\ \A m \in 1 .. Len(bf) : \E i \in 1 .. n : base[i] < m /\ m <= base[i + 1]
  BY <1>1 DEF Fit
<1>7. \A i \in 1 .. n + 1 : base[i] \in Nat
  BY <1>1, <1>3
<1>8. Top(bs) = bs[n]
  BY Popped
<1>14. \A i \in 1 .. n : Len(bs[i].winds) \in Nat
  BY DEF Block
<1> HIDE DEF n, p, h, cs, cf
<1>9. c \in [1 .. Len(cs) + 1 -> 0 .. Len(cf)] /\ \A i \in 1 .. n : c[i] = base[i]
  <2>1. ASSUME NEW i \in 1 .. n PROVE base[i] \in 0 .. h
    <3>1. i \in 1 .. n + 1 /\ n \in 1 .. n + 1 /\ i <= n
      BY <1>2
    <3>2. base[i] <= base[n] /\ base[i] \in Nat /\ base[n] \in Nat
      BY <1>6, <1>7, <3>1
    <3> QED BY <1>4, <3>2
  <2>2. Len(cs) + 1 = n
    BY <1>2
  <2> QED BY <1>5, <2>1, <2>2
<1> HIDE DEF c
<1>10. c[1] = 0 /\ c[Len(cs) + 1] = Len(cf)
  BY <1>2, <1>4, <1>5, <1>6, <1>9
<1>11. /\ \A i \in 1 .. Len(cs) : c[i + 1] = c[i] + Len(cs[i].winds)
       /\ \A i, j \in 1 .. Len(cs) + 1 : i <= j => c[i] <= c[j]
  <2>1. ASSUME NEW i \in 1 .. Len(cs) PROVE c[i + 1] = c[i] + Len(cs[i].winds)
    <3>1. i \in 1 .. n /\ i + 1 \in 1 .. n /\ cs[i] = bs[i]
      BY <1>2
    <3>2. c[i] = base[i] /\ c[i + 1] = base[i + 1]
      BY <1>9, <3>1
    <3> QED BY <1>6, <3>1, <3>2
  <2>2. ASSUME NEW i \in 1 .. n, NEW j \in 1 .. n, i <= j PROVE c[i] <= c[j]
    <3>1. i \in 1 .. n + 1 /\ j \in 1 .. n + 1
      BY <1>2
    <3> QED BY <1>6, <1>9, <2>2, <3>1
  <2> QED BY <1>2, <2>1, <2>2
<1>12. \A i \in 1 .. Len(cs) : \A j \in 1 .. Len(cs[i].winds) : cf[c[i] + j] = cs[i].winds[j]
  <2>1. ASSUME NEW i \in 1 .. Len(cs), NEW j \in 1 .. Len(cs[i].winds)
        PROVE  cf[c[i] + j] = cs[i].winds[j]
    <3>1. i \in 1 .. n /\ i + 1 \in 1 .. n /\ i + 1 <= n /\ n \in 1 .. n /\ cs[i] = bs[i] /\ c[i] = base[i]
      BY <1>2, <1>9
    <3>2. base[i + 1] = base[i] + Len(bs[i].winds) /\ base[i + 1] <= base[n]
      BY <1>2, <1>6, <3>1
    <3>3. base[i] \in Nat /\ Len(bs[i].winds) \in Nat /\ j \in 1 .. Len(bs[i].winds)
      BY <1>2, <1>7, <1>14, <3>1
    <3>4. base[i] + j \in 1 .. h
      <4> DEFINE x == base[i]
                 y == Len(bs[i].winds)
                 z == base[n]
      <4>1. x \in Nat /\ y \in Nat /\ z \in Nat /\ j \in 1 .. y /\ x + y <= z /\ z = h
        BY <1>3, <1>4, <3>2, <3>3
      <4> HIDE DEF x, y, z
      <4> QED BY <4>1 DEF x
    <3>5. cf[base[i] + j] = bf[base[i] + j]
      BY <1>5, <3>4
    <3>6. bf[base[i] + j] = bs[i].winds[j]
      BY <1>6, <3>1, <3>3
    <3> QED BY <3>1, <3>5, <3>6
  <2> QED BY <2>1
<1>13. \A m \in 1 .. Len(cf) : \E i \in 1 .. Len(cs) : c[i] < m /\ m <= c[i + 1]
  <2>1. ASSUME NEW m \in 1 .. Len(cf) PROVE \E i \in 1 .. Len(cs) : c[i] < m /\ m <= c[i + 1]
    <3>1. m \in 1 .. Len(bf) /\ m <= base[n]
      BY <1>3, <1>4, <1>5
    <3>2. PICK i \in 1 .. n : base[i] < m /\ m <= base[i + 1]
      BY <1>6, <3>1
    <3>3. i # n
      BY <1>2, <1>7, <3>1, <3>2
    <3> QED BY <1>2, <1>9, <3>2, <3>3
  <2> QED BY <2>1
<1>15. Fit(cs, cf, c)
  BY <1>10, <1>11, <1>12, <1>13 DEF Fit
<1>16. Layout(cs, cf)
  BY <1>9, <1>15 DEF Layout
<1> QED BY <1>4, <1>8, <1>16 DEF cs, cf, h, p, n

(* The end of a before list goes.                                          *)
LEMMA SplitMembers ==
  ASSUME NEW bf \in Seq(Winds), Distinct(bf), NEW p \in Seq(Winds), Len(p) <= Len(bf),
         \A j \in 1 .. Len(p) : bf[Len(bf) - Len(p) + j] = p[j]
  PROVE  LET cf == SubSeq(bf, 1, Len(bf) - Len(p))
         IN /\ Members(cf) = Members(bf) \ Members(p) /\ Distinct(cf) /\ cf \in Seq(Winds)
            /\ Members(p) \subseteq Members(bf)
<1> DEFINE h == Len(bf) - Len(p)
           cf == SubSeq(bf, 1, h)
<1>2. Len(p) \in Nat /\ Len(bf) \in Nat
  OBVIOUS
<1>3. h \in 0 .. Len(bf) /\ h \in Nat
  BY <1>2
<1>4. h + Len(p) = Len(bf) /\ \A j \in 1 .. Len(p) : bf[h + j] = p[j]
  BY <1>2
<1> HIDE DEF h
<1>6. cf \in Seq(Winds) /\ Len(cf) = h /\ \A i \in 1 .. h : cf[i] = bf[i]
  BY <1>3, Shortened
<1> HIDE DEF cf
<1>7. Distinct(cf)
  <2> SUFFICES ASSUME NEW i \in 1 .. h, NEW j \in 1 .. h, cf[i] = cf[j] PROVE i = j
    BY <1>6 DEF Distinct
  <2>1. i \in 1 .. Len(bf) /\ j \in 1 .. Len(bf)
    BY <1>2, <1>3
  <2>2. bf[i] = bf[j]
    BY <1>6
  <2> QED BY <2>1, <2>2 DEF Distinct
<1>8. ASSUME NEW x \in Members(cf) PROVE x \in Members(bf) \ Members(p)
  <2>1. PICK i \in 1 .. h : x = bf[i]
    BY <1>6 DEF Members
  <2>2. i \in 1 .. Len(bf)
    BY <1>2, <1>3
  <2>3. ASSUME NEW j \in 1 .. Len(p), x = p[j] PROVE FALSE
    <3>1. h + j \in 1 .. Len(bf) /\ bf[h + j] = bf[i] /\ h + j # i
      <4> DEFINE y == Len(p)
                 z == Len(bf)
      <4>1. h \in Nat /\ y \in Nat /\ z \in Nat /\ h + y = z /\ i \in 1 .. h /\ j \in 1 .. y
        BY <1>2, <1>3, <1>4, <2>3
      <4> HIDE DEF y, z
      <4>2. h + j \in 1 .. z /\ h + j # i
        BY <4>1
      <4>3. bf[h + j] = p[j]
        BY <1>4, <2>3
      <4> QED BY <2>1, <2>3, <4>2, <4>3 DEF z
    <3> QED BY <2>2, <3>1 DEF Distinct
  <2> QED BY <2>1, <2>2, <2>3 DEF Members
<1>9. ASSUME NEW x \in Members(bf), x \notin Members(p) PROVE x \in Members(cf)
  <2>1. PICK i \in 1 .. Len(bf) : x = bf[i]
    BY DEF Members
  <2>2. CASE i <= h
    <3>1. i \in 1 .. h
      BY <1>3, <2>2
    <3> QED BY <1>6, <2>1, <3>1 DEF Members
  <2>3. CASE i > h
    <3> DEFINE j == i - h
    <3>1. j \in 1 .. Len(p) /\ i = h + j
      BY <1>2, <1>3, <1>4, <2>3
    <3> HIDE DEF j
    <3>2. p[j] = x
      BY <1>4, <2>1, <3>1
    <3> QED BY <1>9, <3>1, <3>2 DEF Members
  <2> QED BY <1>2, <1>3, <2>2, <2>3
<1>10. ASSUME NEW j \in 1 .. Len(p) PROVE p[j] \in Members(bf)
  <2>1. h + j \in 1 .. Len(bf)
    BY <1>2, <1>3, <1>4
  <2> QED BY <1>4, <2>1 DEF Members
<1>11. Members(p) \subseteq Members(bf)
  BY <1>10 DEF Members
<1>12. Members(cf) = Members(bf) \ Members(p)
  BY <1>8, <1>9
<1> QED BY <1>6, <1>7, <1>11, <1>12 DEF cf, h

LEMMA PopMembers ==
  ASSUME NEW bs \in Seq(Block), bs # <<>>, NEW bf \in Seq(Winds), Layout(bs, bf), Distinct(bf)
  PROVE  LET p == Top(bs).winds
             cf == SubSeq(bf, 1, Len(bf) - Len(p))
         IN /\ Members(cf) = Members(bf) \ Members(p) /\ Distinct(cf) /\ cf \in Seq(Winds)
            /\ Members(p) \subseteq Members(bf)
<1> DEFINE n == Len(bs)
           p == bs[n].winds
<1>1. PICK base \in [1 .. n + 1 -> 0 .. Len(bf)] : Fit(bs, bf, base)
  BY DEF Layout
<1>2. /\ p \in Seq(Winds) /\ Len(p) \in Nat /\ base[n] \in Nat /\ base[n] + Len(p) = Len(bf)
      /\ Len(bf) \in Nat /\ \A j \in 1 .. Len(p) : bf[base[n] + j] = p[j]
  BY <1>1, TopFits
<1>3. base[n] = Len(bf) - Len(p) /\ Len(p) <= Len(bf)
  BY <1>2
<1>4. \A j \in 1 .. Len(p) : bf[Len(bf) - Len(p) + j] = p[j]
  BY <1>2, <1>3
<1>5. Top(bs) = bs[n]
  BY Popped
<1> HIDE DEF p
<1>6. LET cf == SubSeq(bf, 1, Len(bf) - Len(p))
      IN /\ Members(cf) = Members(bf) \ Members(p) /\ Distinct(cf) /\ cf \in Seq(Winds)
         /\ Members(p) \subseteq Members(bf)
  BY <1>2, <1>3, <1>4, SplitMembers
<1>7. Top(bs).winds = p
  BY <1>5 DEF p
<1> QED BY <1>6, <1>7

(* The top block gets other protections.                                   *)
Retopped(bs, cs, bf, cf, base, q) ==
  /\ Len(cs) = Len(bs) /\ \A i \in 1 .. Len(bs) - 1 : cs[i] = bs[i]
  /\ cs[Len(bs)].winds = q /\ Len(cf) = base[Len(bs)] + Len(q)
  /\ \A i \in 1 .. base[Len(bs)] : cf[i] = bf[i]
  /\ \A j \in 1 .. Len(q) : cf[base[Len(bs)] + j] = q[j]

LEMMA RetopFits ==
  ASSUME NEW bs \in Seq(Block), bs # <<>>, NEW cs \in Seq(Block),
         NEW bf \in Seq(Winds), NEW cf \in Seq(Winds),
         NEW base \in [1 .. Len(bs) + 1 -> 0 .. Len(bf)], Fit(bs, bf, base),
         NEW q \in Seq(Winds), Retopped(bs, cs, bf, cf, base, q)
  PROVE  Layout(cs, cf)
<1> DEFINE n == Len(bs)
           h == base[n]
<1>1. n \in Nat \ {0} /\ h \in Nat /\ Len(q) \in Nat /\ Len(cf) = h + Len(q) /\ Len(bf) \in Nat
  <2>1. n \in Nat \ {0} /\ Len(q) \in Nat /\ Len(bf) \in Nat
    OBVIOUS
  <2> QED BY <2>1 DEF Retopped
<1>2. /\ base[1] = 0
      /\ \A i \in 1 .. n : base[i + 1] = base[i] + Len(bs[i].winds)
      /\ \A i, j \in 1 .. n + 1 : i <= j => base[i] <= base[j]
      /\ \A i \in 1 .. n : \A j \in 1 .. Len(bs[i].winds) : bf[base[i] + j] = bs[i].winds[j]
      /\ \A m \in 1 .. Len(bf) : \E i \in 1 .. n : base[i] < m /\ m <= base[i + 1]
      /\ base[n + 1] = Len(bf)
  BY DEF Fit
<1>3. \A i \in 1 .. n + 1 : base[i] \in Nat
  <2> DEFINE l == Len(bf)
             N == 1 .. n + 1
  <2>1. base \in [N -> 0 .. l] /\ l \in Nat
    BY <1>1
  <2> HIDE DEF l, N
  <2>2. \A i \in N : base[i] \in 0 .. l
    BY <2>1
  <2>3. \A x \in 0 .. l : x \in Nat
    BY <2>1
  <2>4. \A i \in N : base[i] \in Nat
    BY <2>2, <2>3
  <2> QED BY <2>4 DEF N
<1>4. \A i \in 1 .. n : Len(bs[i].winds) \in Nat
  <2>1. ASSUME NEW i \in 1 .. n PROVE Len(bs[i].winds) \in Nat
    <3>1. bs[i] \in Block
      OBVIOUS
    <3>2. bs[i].winds \in Seq(Winds)
      BY <3>1 DEF Block
    <3> QED BY <3>2
  <2> QED BY <2>1
<1>5. h <= Len(bf)
  BY <1>1
<1>6. /\ \A i \in 1 .. n - 1 : cs[i] = bs[i]
      /\ cs[n].winds = q /\ (\A i \in 1 .. h : cf[i] = bf[i]) /\ \A j \in 1 .. Len(q) : cf[h + j] = q[j]
      /\ Len(cs) = n
  BY DEF Retopped
<1>7. base \in [1 .. n + 1 -> Nat]
  BY <1>3
<1> DEFINE c == [i \in 1 .. n + 1 |-> IF i = n + 1 THEN Len(cf) ELSE base[i]]
<1> HIDE DEF n, h
<1>8. c[n + 1] = Len(cf) /\ \A i \in 1 .. n : c[i] = base[i]
  BY <1>1
<1>9. \A i \in 1 .. n : base[i] <= h /\ base[i] \in Nat /\ i \in 1 .. n + 1
  <2>1. ASSUME NEW i \in 1 .. n PROVE base[i] <= h /\ base[i] \in Nat /\ i \in 1 .. n + 1
    <3>1. i \in 1 .. n + 1 /\ n \in 1 .. n + 1 /\ i <= n
      BY <1>1
    <3> QED BY <1>2, <1>3, <3>1 DEF h
  <2> QED BY <2>1
<1>10. c \in [1 .. n + 1 -> 0 .. Len(cf)]
  <2>1. ASSUME NEW i \in 1 .. n + 1 PROVE (IF i = n + 1 THEN Len(cf) ELSE base[i]) \in 0 .. Len(cf)
    <3>1. Len(cf) \in Nat /\ h <= Len(cf)
      BY <1>1
    <3>2. CASE i = n + 1
      BY <3>1, <3>2
    <3>3. CASE i # n + 1
      <4>1. i \in 1 .. n
        BY <1>1, <3>3
      <4>2. base[i] <= h /\ base[i] \in Nat
        BY <1>9, <4>1
      <4> QED BY <1>1, <3>1, <3>3, <4>2
    <3> QED BY <3>2, <3>3
  <2> QED BY <2>1
<1> HIDE DEF c
<1>11. c[1] = 0 /\ c[Len(cs) + 1] = Len(cf)
  <2>1. 1 \in 1 .. n
    BY <1>1
  <2> QED BY <1>2, <1>6, <1>8, <2>1
<1>12. ASSUME NEW i \in 1 .. n PROVE c[i + 1] = c[i] + Len(cs[i].winds)
  <2>1. CASE i = n
    BY <1>1, <1>6, <1>8, <2>1 DEF h
  <2>2. CASE i # n
    <3>1. i \in 1 .. n - 1 /\ i + 1 \in 1 .. n
      BY <1>1, <2>2
    <3>2. c[i + 1] = base[i + 1] /\ c[i] = base[i] /\ cs[i] = bs[i]
      BY <1>6, <1>8, <3>1
    <3> QED BY <1>2, <3>2
  <2> QED BY <2>1, <2>2
<1>13. ASSUME NEW i \in 1 .. n + 1, NEW j \in 1 .. n + 1, i <= j PROVE c[i] <= c[j]
  <2>1. CASE j = n + 1
    <3>1. c[i] \in 0 .. Len(cf) /\ c[j] = Len(cf) /\ Len(cf) \in Nat
      BY <1>1, <1>8, <1>10, <2>1
    <3> QED BY <3>1
  <2>2. CASE j # n + 1
    <3>1. i \in 1 .. n /\ j \in 1 .. n
      BY <1>1, <1>13, <2>2
    <3>2. c[i] = base[i] /\ c[j] = base[j]
      BY <1>8, <3>1
    <3> QED BY <1>2, <1>13, <3>2
  <2> QED BY <2>1, <2>2
<1>14. ASSUME NEW i \in 1 .. n, NEW j \in 1 .. Len(cs[i].winds) PROVE cf[c[i] + j] = cs[i].winds[j]
  <2>1. CASE i = n
    BY <1>6, <1>8, <2>1 DEF h
  <2>2. CASE i # n
    <3>1. i \in 1 .. n - 1 /\ i + 1 \in 1 .. n
      BY <1>1, <2>2
    <3>2. c[i] = base[i] /\ cs[i] = bs[i] /\ j \in 1 .. Len(bs[i].winds)
      BY <1>6, <1>8, <3>1
    <3> DEFINE x == base[i]
               y == Len(bs[i].winds)
    <3>3. x \in Nat /\ y \in Nat /\ x + y = base[i + 1] /\ base[i + 1] <= h
      BY <1>2, <1>4, <1>9, <3>1
    <3>4. x + j \in 1 .. h
      <4> HIDE DEF x
      <4>1. x + y <= h /\ j \in 1 .. y
        BY <3>2, <3>3
      <4> HIDE DEF y
      <4> QED BY <1>1, <3>3, <4>1
    <3>5. cf[x + j] = bf[x + j]
      BY <1>6, <3>4
    <3>6. bf[x + j] = bs[i].winds[j]
      BY <1>2, <3>2
    <3> QED BY <3>2, <3>5, <3>6
  <2> QED BY <2>1, <2>2
<1>15. ASSUME NEW m \in 1 .. Len(cf) PROVE \E i \in 1 .. n : c[i] < m /\ m <= c[i + 1]
  <2>1. CASE m <= h
    <3>1. m \in 1 .. Len(bf)
      BY <1>1, <1>5, <2>1
    <3>2. PICK i \in 1 .. n : base[i] < m /\ m <= base[i + 1]
      BY <1>2, <3>1
    <3>3. i # n
      BY <1>1, <2>1, <3>2 DEF h
    <3>4. i + 1 \in 1 .. n
      BY <1>1, <3>3
    <3>5. c[i] = base[i] /\ c[i + 1] = base[i + 1]
      BY <1>8, <3>4
    <3> QED BY <3>2, <3>5
  <2>2. CASE m > h
    <3>1. n \in 1 .. n /\ c[n] = h /\ c[n + 1] = Len(cf)
      BY <1>1, <1>8 DEF h
    <3> QED BY <1>1, <2>2, <3>1
  <2> QED BY <1>1, <2>1, <2>2
<1>16. Fit(cs, cf, c)
  BY <1>6, <1>11, <1>12, <1>13, <1>14, <1>15 DEF Fit
<1> QED BY <1>6, <1>10, <1>16 DEF Layout

(* dynamic-wind enters: its wind is the last of both.                      *)
LEMMA WindFits ==
  ASSUME NEW bs \in Seq(Block), bs # <<>>, NEW bf \in Seq(Winds), Layout(bs, bf), NEW w \in Winds
  PROVE  LET cs == [bs EXCEPT ![Len(bs)].winds = Append(@, w)]
         IN /\ Layout(cs, Append(bf, w)) /\ cs \in Seq(Block) /\ Len(cs) = Len(bs)
            /\ \A i \in 1 .. Len(bs) - 1 : cs[i] = bs[i]
            /\ \A i \in 1 .. Len(bs) : cs[i].stamp = bs[i].stamp
<1> DEFINE n == Len(bs)
           p == bs[n].winds
           q == Append(p, w)
           b == [bs[n] EXCEPT !.winds = q]
           cs == [bs EXCEPT ![n] = b]
           cf == Append(bf, w)
<1>1. PICK base \in [1 .. n + 1 -> 0 .. Len(bf)] : Fit(bs, bf, base)
  BY DEF Layout
<1>2. /\ n \in Nat \ {0} /\ p \in Seq(Winds) /\ Len(p) \in Nat /\ base[n] \in Nat
      /\ base[n] + Len(p) = Len(bf) /\ Len(bf) \in Nat /\ \A j \in 1 .. Len(p) : bf[base[n] + j] = p[j]
  BY <1>1, TopFits
<1>3. n \in 1 .. n /\ bs[n] \in Block
  BY <1>2
<1>4. q \in Seq(Winds) /\ Len(q) = Len(p) + 1 /\ q[Len(p) + 1] = w /\ \A j \in 1 .. Len(p) : q[j] = p[j]
  BY <1>2, Pushed
<1>5. cf \in Seq(Winds) /\ Len(cf) = Len(bf) + 1 /\ cf[Len(bf) + 1] = w /\ \A i \in 1 .. Len(bf) : cf[i] = bf[i]
  BY Pushed
<1> HIDE DEF p, q, cf
<1>6. b \in Block /\ b.winds = q /\ b.stamp = bs[n].stamp
  BY <1>3, <1>4 DEF Block
<1> HIDE DEF b
<1>7. /\ cs \in Seq(Block) /\ Len(cs) = n /\ cs[n] = b
      /\ \A i \in 1 .. n : i # n => cs[i] = bs[i]
  BY <1>3, <1>6, Replaced
<1> HIDE DEF cs
<1>8. Len(cf) = base[n] + Len(q)
  BY <1>2, <1>4, <1>5
<1>9. \A i \in 1 .. base[n] : cf[i] = bf[i]
  <2>1. ASSUME NEW i \in 1 .. base[n] PROVE cf[i] = bf[i]
    <3> DEFINE x == base[n]
               y == Len(p)
               z == Len(bf)
    <3>1. x \in Nat /\ y \in Nat /\ x + y = z /\ z \in Nat
      BY <1>2
    <3> HIDE DEF x, y, z
    <3>2. \A k \in 1 .. x : k \in 1 .. z
      BY <3>1
    <3>3. i \in 1 .. Len(bf)
      BY <3>2 DEF x, z
    <3> QED BY <1>5, <3>3
  <2> QED BY <2>1
<1>10. ASSUME NEW j \in 1 .. Len(q) PROVE cf[base[n] + j] = q[j]
  <2>1. CASE j = Len(p) + 1
    <3>1. base[n] + j = Len(bf) + 1
      BY <1>2, <2>1
    <3> QED BY <1>4, <1>5, <2>1, <3>1
  <2>2. CASE j # Len(p) + 1
    <3>1. j \in 1 .. Len(p) /\ base[n] + j \in 1 .. Len(bf)
      BY <1>2, <1>4, <2>2
    <3> QED BY <1>2, <1>4, <1>5, <3>1
  <2> QED BY <2>1, <2>2
<1>11. cs[n].winds = q /\ \A i \in 1 .. n - 1 : cs[i] = bs[i]
  BY <1>2, <1>6, <1>7
<1>12. Layout(cs, cf)
  <2>1. Retopped(bs, cs, bf, cf, base, q)
    BY <1>7, <1>8, <1>9, <1>10, <1>11 DEF Retopped
  <2> QED BY <1>1, <1>4, <1>5, <1>7, <2>1, RetopFits
<1>13. \A i \in 1 .. n : cs[i].stamp = bs[i].stamp
  BY <1>6, <1>7
<1> QED BY <1>7, <1>11, <1>12, <1>13 DEF cs, cf, b, q, p, n

(* Its body returns.                                                       *)
LEMMA UnwindFits ==
  ASSUME NEW bs \in Seq(Block), bs # <<>>, NEW bf \in Seq(Winds), Layout(bs, bf),
         Top(bs).winds # <<>>
  PROVE  LET cs == [bs EXCEPT ![Len(bs)].winds = Pop(@)]
         IN /\ Layout(cs, Pop(bf)) /\ cs \in Seq(Block) /\ Len(cs) = Len(bs)
            /\ \A i \in 1 .. Len(bs) - 1 : cs[i] = bs[i]
            /\ \A i \in 1 .. Len(bs) : cs[i].stamp = bs[i].stamp
            /\ bf # <<>> /\ Top(Top(bs).winds) = Top(bf)
<1> DEFINE n == Len(bs)
           p == bs[n].winds
           q == Pop(p)
           b == [bs[n] EXCEPT !.winds = q]
           cs == [bs EXCEPT ![n] = b]
           cf == Pop(bf)
<1>1. PICK base \in [1 .. n + 1 -> 0 .. Len(bf)] : Fit(bs, bf, base)
  BY DEF Layout
<1>2. /\ n \in Nat \ {0} /\ p \in Seq(Winds) /\ Len(p) \in Nat /\ base[n] \in Nat
      /\ base[n] + Len(p) = Len(bf) /\ Len(bf) \in Nat /\ \A j \in 1 .. Len(p) : bf[base[n] + j] = p[j]
  BY <1>1, TopFits
<1>3. n \in 1 .. n /\ bs[n] \in Block /\ p # <<>> /\ Top(bs) = bs[n]
  <2>1. n \in 1 .. n
    BY <1>2
  <2>2. bs[n] \in Block
    BY <2>1
  <2> QED BY <2>1, <2>2 DEF Top
<1>4. /\ q \in Seq(Winds) /\ Len(q) = Len(p) - 1 /\ Len(p) \in Nat \ {0} /\ Top(p) = p[Len(p)]
      /\ \A j \in 1 .. Len(p) - 1 : q[j] = p[j]
  BY <1>2, <1>3, Popped
<1>14. bf # <<>>
  <2>1. Len(bf) # 0
    BY <1>2, <1>4
  <2> QED BY <2>1, EmptySeq
<1>5. /\ cf \in Seq(Winds) /\ Len(cf) = Len(bf) - 1 /\ Top(bf) = bf[Len(bf)]
      /\ \A i \in 1 .. Len(bf) - 1 : cf[i] = bf[i]
  BY <1>14, Popped
<1> HIDE DEF p, q, cf
<1>6. b \in Block /\ b.winds = q /\ b.stamp = bs[n].stamp
  BY <1>3, <1>4 DEF Block
<1> HIDE DEF b
<1>7. /\ cs \in Seq(Block) /\ Len(cs) = n /\ cs[n] = b
      /\ \A i \in 1 .. n : i # n => cs[i] = bs[i]
  BY <1>3, <1>6, Replaced
<1> HIDE DEF cs
<1>8. Len(cf) = base[n] + Len(q)
  BY <1>2, <1>4, <1>5
<1>9. \A i \in 1 .. base[n] : cf[i] = bf[i]
  BY <1>2, <1>4, <1>5
<1>10. ASSUME NEW j \in 1 .. Len(q) PROVE cf[base[n] + j] = q[j]
  <2> DEFINE x == base[n]
             y == Len(p)
             z == Len(bf)
  <2>1. j \in 1 .. y - 1 /\ j \in 1 .. y /\ x + j \in 1 .. z - 1
    <3>1. x \in Nat /\ y \in Nat /\ z \in Nat /\ x + y = z /\ j \in 1 .. y - 1
      BY <1>2, <1>4
    <3> HIDE DEF x, y, z
    <3> QED BY <3>1
  <2> QED BY <1>2, <1>4, <1>5, <2>1
<1>11. cs[n].winds = q /\ \A i \in 1 .. n - 1 : cs[i] = bs[i]
  BY <1>2, <1>6, <1>7
<1>12. Layout(cs, cf)
  <2>1. Retopped(bs, cs, bf, cf, base, q)
    BY <1>7, <1>8, <1>9, <1>10, <1>11 DEF Retopped
  <2> QED BY <1>1, <1>4, <1>5, <1>7, <2>1, RetopFits
<1>13. \A i \in 1 .. n : cs[i].stamp = bs[i].stamp
  BY <1>6, <1>7
<1>15. Top(p) = Top(bf)
  <2>1. Len(p) \in 1 .. Len(p)
    BY <1>4
  <2> QED BY <1>2, <1>4, <1>5, <2>1
<1> QED BY <1>3, <1>7, <1>11, <1>12, <1>13, <1>14, <1>15 DEF cs, cf, b, q, p, n

LEMMA LeastNatural ==
  ASSUME NEW T \in SUBSET Nat, T # {}
  PROVE  \E x \in T : \A y \in T : x <= y
<1> DEFINE R == OpToRel(<, Nat)
<1>1. IsWellFoundedOn(R, Nat)
  BY NatLessThanWellFounded
<1>2. PICK x \in T : \A y \in T : ~ (<<y, x>> \in R)
  <2> HIDE DEF R
  <2> QED BY <1>1, WFMin
<1>3. \A y \in T : y < x => <<y, x>> \in R
  BY DEF OpToRel
<1> HIDE DEF R
<1>4. \A y \in T : ~ (y < x)
  BY <1>2, <1>3
<1>5. x \in Nat /\ \A y \in T : y \in Nat
  OBVIOUS
<1> QED BY <1>4, <1>5

(* A stack has one before list.                                            *)
LEMMA OneLayout ==
  ASSUME NEW bs \in Seq(Block), NEW bf \in Seq(Winds), NEW cf \in Seq(Winds),
         Layout(bs, bf), Layout(bs, cf)
  PROVE  bf = cf
<1> DEFINE n == Len(bs)
<1>1. PICK b \in [1 .. n + 1 -> 0 .. Len(bf)] : Fit(bs, bf, b)
  BY DEF Layout
<1>2. PICK c \in [1 .. n + 1 -> 0 .. Len(cf)] : Fit(bs, cf, c)
  BY DEF Layout
<1>3. n \in Nat /\ Len(bf) \in Nat /\ Len(cf) \in Nat
  OBVIOUS
<1>4. /\ b[1] = 0 /\ b[n + 1] = Len(bf)
      /\ \A i \in 1 .. n : b[i + 1] = b[i] + Len(bs[i].winds)
      /\ \A i \in 1 .. n : \A j \in 1 .. Len(bs[i].winds) : bf[b[i] + j] = bs[i].winds[j]
      /\ \A m \in 1 .. Len(bf) : \E i \in 1 .. n : b[i] < m /\ m <= b[i + 1]
  BY <1>1 DEF Fit
<1>5. /\ c[1] = 0 /\ c[n + 1] = Len(cf)
      /\ \A i \in 1 .. n : c[i + 1] = c[i] + Len(bs[i].winds)
      /\ \A i \in 1 .. n : \A j \in 1 .. Len(bs[i].winds) : cf[c[i] + j] = bs[i].winds[j]
  BY <1>2 DEF Fit
<1>6. \A i \in 1 .. n + 1 : b[i] \in Nat
  <2> DEFINE l == Len(bf)
             N == 1 .. n + 1
  <2>1. b \in [N -> 0 .. l] /\ l \in Nat
    BY <1>3
  <2> HIDE DEF l, N
  <2>2. \A i \in N : b[i] \in 0 .. l
    BY <2>1
  <2>3. \A x \in 0 .. l : x \in Nat
    BY <2>1
  <2>4. \A i \in N : b[i] \in Nat
    BY <2>2, <2>3
  <2> QED BY <2>4 DEF N
<1>7. \A i \in 1 .. n : Len(bs[i].winds) \in Nat
  BY DEF Block
<1> HIDE DEF n
<1>8. \A i \in 1 .. n + 1 : b[i] = c[i]
  <2> DEFINE D == {i \in 1 .. n + 1 : b[i] # c[i]}
  <2>1. SUFFICES ASSUME D # {} PROVE FALSE
    OBVIOUS
  <2>2. PICK d \in D : \A y \in D : d <= y
    <3>1. D \in SUBSET Nat
      BY <1>3
    <3> HIDE DEF D
    <3> QED BY <2>1, <3>1, LeastNatural
  <2>3. d \in 1 .. n + 1 /\ b[d] # c[d] /\ d # 1
    BY <1>4, <1>5
  <2> DEFINE e == d - 1
  <2>4. e \in 1 .. n /\ e + 1 = d /\ e \in 1 .. n + 1 /\ ~ (d <= e)
    BY <1>3, <2>3
  <2> HIDE DEF e
  <2>5. b[e] = c[e]
    BY <2>2, <2>4
  <2>6. b[e + 1] = c[e + 1]
    BY <1>4, <1>5, <2>4, <2>5
  <2> QED BY <2>3, <2>4, <2>6
<1>9. Len(bf) = Len(cf)
  <2>1. n + 1 \in 1 .. n + 1
    BY <1>3
  <2> QED BY <1>4, <1>5, <1>8, <2>1
<1>10. ASSUME NEW m \in 1 .. Len(bf) PROVE bf[m] = cf[m]
  <2>1. PICK i \in 1 .. n : b[i] < m /\ m <= b[i + 1]
    BY <1>4
  <2>2. i \in 1 .. n + 1 /\ b[i] \in Nat /\ b[i] = c[i] /\ b[i + 1] = b[i] + Len(bs[i].winds)
        /\ Len(bs[i].winds) \in Nat
    <3>1. i \in 1 .. n + 1
      BY <1>3
    <3> QED BY <1>4, <1>6, <1>7, <1>8, <3>1
  <2> DEFINE x == b[i]
             y == Len(bs[i].winds)
             j == m - x
  <2>3. x \in Nat /\ y \in Nat /\ m <= x + y /\ x < m
    BY <2>1, <2>2
  <2> HIDE DEF x, y
  <2>4. j \in 1 .. y /\ x + j = m
    BY <1>3, <2>3
  <2> HIDE DEF j
  <2>5. bf[x + j] = bs[i].winds[j] /\ cf[x + j] = bs[i].winds[j]
    BY <1>4, <1>5, <2>2, <2>4 DEF x, y
  <2> QED BY <2>4, <2>5
<1> QED BY <1>9, <1>10, SeqEqual

(* The protections of a stack are as many as the winds of its before list, *)
(* and each wind of the list is protected once.                            *)
LEMMA WindsCounted ==
  ASSUME NEW bs \in Seq(Block), NEW bf \in Seq(Winds), Layout(bs, bf), Distinct(bf)
  PROVE  /\ Cardinality(Entered(bs)) = Len(bf)
         /\ \A w \in Winds :
              Cardinality({ij \in Entered(bs) : bs[ij[1]].winds[ij[2]] = w})
                = IF w \in Members(bf) THEN 1 ELSE 0
<1> DEFINE n == Len(bs)
           P == Entered(bs)
           l == Len(bf)
<1>1. PICK base \in [1 .. n + 1 -> 0 .. Len(bf)] : Fit(bs, bf, base)
  BY DEF Layout
<1>2. n \in Nat /\ l \in Nat
  OBVIOUS
<1>3. /\ \A i \in 1 .. n : base[i + 1] = base[i] + Len(bs[i].winds)
      /\ \A i, j \in 1 .. n + 1 : i <= j => base[i] <= base[j]
      /\ \A i \in 1 .. n : \A j \in 1 .. Len(bs[i].winds) : bf[base[i] + j] = bs[i].winds[j]
      /\ \A m \in 1 .. l : \E i \in 1 .. n : base[i] < m /\ m <= base[i + 1]
      /\ base[n + 1] = l
  BY <1>1 DEF Fit
<1>4. \A i \in 1 .. n + 1 : base[i] \in Nat
  BY <1>1, <1>2
<1>5. \A i \in 1 .. n : Len(bs[i].winds) \in Nat
  BY DEF Block
<1>6. /\ \A ij \in P : \E i \in 1 .. n : \E j \in 1 .. Len(bs[i].winds) : ij = <<i, j>>
      /\ \A i \in 1 .. n : \A j \in 1 .. Len(bs[i].winds) : <<i, j>> \in P
  BY DEF Entered
<1> HIDE DEF n, P, l
<1> DEFINE At(i, j) == base[i] + j
<1>7. ASSUME NEW i \in 1 .. n, NEW j \in 1 .. Len(bs[i].winds)
      PROVE  /\ At(i, j) \in 1 .. l /\ base[i] < At(i, j) /\ At(i, j) <= base[i + 1]
             /\ bf[At(i, j)] = bs[i].winds[j]
  <2> DEFINE x == base[i]
             y == Len(bs[i].winds)
             z == base[i + 1]
  <2>1. i \in 1 .. n + 1 /\ i + 1 \in 1 .. n + 1 /\ n + 1 \in 1 .. n + 1 /\ i + 1 <= n + 1
    BY <1>2
  <2>2. x \in Nat /\ y \in Nat /\ z = x + y /\ z <= l /\ j \in 1 .. y
    BY <1>3, <1>4, <1>5, <2>1
  <2>3. x + j \in 1 .. l /\ x < x + j /\ x + j <= z
    <3> HIDE DEF x, y, z
    <3> QED BY <1>2, <2>2
  <2> QED BY <1>3, <2>3
<1>8. ASSUME NEW i \in 1 .. n, NEW j \in 1 .. Len(bs[i].winds),
             NEW k \in 1 .. n, NEW m \in 1 .. Len(bs[k].winds), i < k
      PROVE  At(i, j) < At(k, m)
  <2> DEFINE x == At(i, j)
             y == At(k, m)
             u == base[i + 1]
             v == base[k]
  <2>1. i + 1 \in 1 .. n + 1 /\ k \in 1 .. n + 1 /\ i + 1 <= k
    BY <1>2, <1>8
  <2>2. u <= v /\ u \in Nat /\ v \in Nat
    BY <1>3, <1>4, <2>1
  <2>3. x <= u /\ v < y /\ x \in 1 .. l /\ y \in 1 .. l
    BY <1>7
  <2> HIDE DEF x, y, u, v
  <2>4. x \in Nat /\ y \in Nat
    BY <1>2, <2>3
  <2>5. x < y
    BY <2>2, <2>3, <2>4
  <2> QED BY <2>5 DEF x, y
<1>9. ASSUME NEW i \in 1 .. n, NEW j \in 1 .. Len(bs[i].winds),
             NEW k \in 1 .. n, NEW m \in 1 .. Len(bs[k].winds), At(i, j) = At(k, m)
      PROVE  i = k /\ j = m
  <2>1. ~ (i < k)
    <3> SUFFICES ASSUME i < k PROVE FALSE
      OBVIOUS
    <3>1. At(i, j) < At(k, m) /\ At(i, j) \in 1 .. l
      BY <1>7, <1>8
    <3> QED BY <1>2, <1>9, <3>1
  <2>2. ~ (k < i)
    <3> SUFFICES ASSUME k < i PROVE FALSE
      OBVIOUS
    <3>1. At(k, m) < At(i, j) /\ At(i, j) \in 1 .. l
      BY <1>7, <1>8
    <3> QED BY <1>2, <1>9, <3>1
  <2>3. i = k
    BY <1>2, <2>1, <2>2
  <2>4. base[i] \in Nat /\ j \in Int /\ m \in Int /\ base[i] + j = base[i] + m
    <3>1. i \in 1 .. n + 1 /\ Len(bs[i].winds) \in Nat /\ j \in Int /\ m \in Int
      BY <1>2, <1>5, <2>3
    <3> QED BY <1>4, <1>9, <2>3, <3>1
  <2> QED BY <2>3, <2>4
<1>10. ASSUME NEW m \in 1 .. l
       PROVE  \E i \in 1 .. n : \E j \in 1 .. Len(bs[i].winds) : At(i, j) = m
  <2>1. PICK i \in 1 .. n : base[i] < m /\ m <= base[i + 1]
    BY <1>3
  <2> DEFINE x == base[i]
             y == Len(bs[i].winds)
             j == m - x
  <2>2. i \in 1 .. n + 1
    BY <1>2
  <2>3. x \in Nat /\ y \in Nat /\ m <= x + y /\ x < m
    BY <1>3, <1>4, <1>5, <2>1, <2>2
  <2>4. j \in 1 .. y /\ x + j = m
    <3> HIDE DEF x, y
    <3> QED BY <1>2, <2>3
  <2> QED BY <2>4
<1> DEFINE f == [ij \in P |-> At(ij[1], ij[2])]
<1> HIDE DEF At
<1>11. \A i \in 1 .. n : \A j \in 1 .. Len(bs[i].winds) : f[<<i, j>>] = At(i, j)
  BY <1>6
<1>12. f \in [P -> 1 .. l]
  BY <1>6, <1>7
<1> HIDE DEF f
<1>13. \A a, b \in P : f[a] = f[b] => a = b
  BY <1>6, <1>9, <1>11
<1>14. \A m \in 1 .. l : \E a \in P : f[a] = m
  BY <1>6, <1>10, <1>11
<1>15. f \in Bijection(P, 1 .. l)
  BY <1>12, <1>13, <1>14 DEF Bijection, Injection, Surjection, IsInjective
<1>16. ExistsBijection(1 .. l, P)
  BY <1>15, Fun_ExistsBijSymmetric DEF ExistsBijection
<1>17. Cardinality(P) = l
  <2>1. IsFiniteSet(1 .. l) /\ Cardinality(1 .. l) = l
    <3>1. 1 \in Int /\ l \in Int /\ (IF 1 > l THEN 0 ELSE l - 1 + 1) = l
      BY <1>2
    <3> QED BY ONLY <3>1, FS_Interval, Zenon
  <2> QED BY <1>16, <2>1, FS_Bijection
<1>18. ASSUME NEW w \in Winds
       PROVE  Cardinality({ij \in P : bs[ij[1]].winds[ij[2]] = w})
                = IF w \in Members(bf) THEN 1 ELSE 0
  <2> DEFINE Q == {ij \in P : bs[ij[1]].winds[ij[2]] = w}
  <2>1. ASSUME NEW i \in 1 .. n, NEW j \in 1 .. Len(bs[i].winds)
        PROVE  <<i, j>> \in Q <=> bf[At(i, j)] = w
    <3>1. bf[At(i, j)] = bs[i].winds[j]
      BY <1>7
    <3>2. <<i, j>> \in P /\ <<i, j>>[1] = i /\ <<i, j>>[2] = j
      BY <1>6
    <3> HIDE DEF At
    <3> QED BY <3>1, <3>2
  <2>2. \A ij \in Q : \E i \in 1 .. n : \E j \in 1 .. Len(bs[i].winds) : ij = <<i, j>>
    BY <1>6
  <2> HIDE DEF Q
  <2>3. CASE w \in Members(bf)
    <3>1. PICK m \in 1 .. l : bf[m] = w
      BY <2>3 DEF Members, l
    <3>2. PICK i \in 1 .. n : \E j \in 1 .. Len(bs[i].winds) : At(i, j) = m
      BY <1>10
    <3>3. PICK j \in 1 .. Len(bs[i].winds) : At(i, j) = m
      BY <3>2
    <3>4. <<i, j>> \in Q
      BY <2>1, <3>1, <3>3
    <3>5. ASSUME NEW a \in Q PROVE a = <<i, j>>
      <4>1. PICK i2 \in 1 .. n : \E j2 \in 1 .. Len(bs[i2].winds) : a = <<i2, j2>>
        BY <2>2
      <4>2. PICK j2 \in 1 .. Len(bs[i2].winds) : a = <<i2, j2>>
        BY <4>1
      <4>3. bf[At(i2, j2)] = w /\ At(i2, j2) \in 1 .. l
        BY <1>7, <2>1, <4>2
      <4>4. At(i2, j2) = m
        BY <3>1, <4>3 DEF Distinct, l
      <4> QED BY <1>9, <3>3, <4>2, <4>4
    <3>6. Q = {<<i, j>>}
      BY <3>4, <3>5
    <3>7. Cardinality(Q) = 1
      BY <3>6, FS_Singleton
    <3> QED BY <2>3, <3>7 DEF Q
  <2>4. CASE w \notin Members(bf)
    <3>1. ASSUME NEW a \in Q PROVE FALSE
      <4>1. PICK i \in 1 .. n : \E j \in 1 .. Len(bs[i].winds) : a = <<i, j>>
        BY <2>2
      <4>2. PICK j \in 1 .. Len(bs[i].winds) : a = <<i, j>>
        BY <4>1
      <4>3. bf[At(i, j)] = w /\ At(i, j) \in 1 .. l
        BY <1>7, <2>1, <4>2
      <4> QED BY <2>4, <4>3 DEF Members, l
    <3>2. Q = {}
      BY <3>1
    <3>3. Cardinality(Q) = 0
      BY <3>2, FS_EmptySet
    <3> QED BY <2>4, <3>3 DEF Q
  <2> QED BY <2>3, <2>4
<1> QED BY <1>17, <1>18 DEF P, l

-----------------------------------------------------------------------------
(* Members of a before list.                                               *)
LEMMA PushMembers ==
  ASSUME NEW bf \in Seq(Winds), Distinct(bf), NEW w \in Winds, w \notin Members(bf)
  PROVE  Distinct(Append(bf, w)) /\ Members(Append(bf, w)) = Members(bf) \cup {w}
<1> DEFINE cf == Append(bf, w)
           n == Len(bf)
<1>1. /\ Len(cf) = n + 1 /\ n \in Nat /\ cf[n + 1] = w /\ \A i \in 1 .. n : cf[i] = bf[i]
  BY Pushed
<1> HIDE DEF cf, n
<1>2. \A i \in 1 .. n + 1 : i \in 1 .. n \/ i = n + 1
  BY <1>1
<1>3. \A i \in 1 .. n : bf[i] # w
  BY DEF Members, n
<1>4. \A i, j \in 1 .. n : bf[i] = bf[j] => i = j
  BY DEF Distinct, n
<1>5. \A i, j \in 1 .. n + 1 : cf[i] = cf[j] => i = j
  BY <1>1, <1>2, <1>3, <1>4
<1>6. Distinct(cf)
  BY <1>1, <1>5 DEF Distinct
<1>7. \A i \in 1 .. n : i \in 1 .. n + 1
  BY <1>1
<1>8. n + 1 \in 1 .. n + 1
  BY <1>1
<1>9. Members(cf) = {cf[i] : i \in 1 .. n + 1} /\ Members(bf) = {bf[i] : i \in 1 .. n}
  BY <1>1 DEF Members, n
<1>10. Members(cf) = Members(bf) \cup {w}
  BY <1>1, <1>2, <1>7, <1>8, <1>9
<1> QED BY <1>6, <1>10 DEF cf

LEMMA PopOne ==
  ASSUME NEW bf \in Seq(Winds), bf # <<>>, Distinct(bf)
  PROVE  Distinct(Pop(bf)) /\ Members(Pop(bf)) = Members(bf) \ {Top(bf)} /\ Top(bf) \in Members(bf)
<1> DEFINE cf == Pop(bf)
           n == Len(bf) - 1
<1>1. Len(cf) = n /\ Top(bf) = bf[n + 1] /\ (\A i \in 1 .. n : cf[i] = bf[i]) /\ n \in Nat /\ Len(bf) = n + 1
  <2>1. /\ Len(cf) = Len(bf) - 1 /\ Len(bf) \in Nat \ {0} /\ Top(bf) = bf[Len(bf)]
        /\ \A i \in 1 .. Len(bf) - 1 : cf[i] = bf[i]
    BY Popped
  <2> HIDE DEF cf
  <2>2. n \in Nat /\ Len(bf) = n + 1
    BY <2>1
  <2> QED BY <2>1, <2>2
<1> HIDE DEF cf, n
<1>2. \A i \in 1 .. n + 1 : i \in 1 .. n \/ i = n + 1
  BY <1>1
<1>3. n + 1 \in 1 .. n + 1 /\ n + 1 \notin 1 .. n /\ \A i \in 1 .. n : i \in 1 .. n + 1
  BY <1>1
<1>4. \A i, j \in 1 .. n + 1 : bf[i] = bf[j] => i = j
  BY <1>1 DEF Distinct
<1>5. \A i, j \in 1 .. n : cf[i] = cf[j] => i = j
  BY <1>1, <1>3, <1>4
<1>6. Distinct(cf)
  BY <1>1, <1>5 DEF Distinct
<1>7. Members(cf) = {cf[i] : i \in 1 .. n} /\ Members(bf) = {bf[i] : i \in 1 .. n + 1}
  BY <1>1 DEF Members
<1>8. \A i \in 1 .. n : bf[i] # bf[n + 1]
  BY <1>3, <1>4
<1>9. Members(cf) = Members(bf) \ {Top(bf)} /\ Top(bf) \in Members(bf)
  BY <1>1, <1>2, <1>3, <1>7, <1>8
<1> QED BY <1>6, <1>9 DEF cf

(* A block without protections goes.                                       *)
LEMMA BareFits ==
  ASSUME NEW bs \in Seq(Block), bs # <<>>, NEW bf \in Seq(Winds), Layout(bs, bf),
         Top(bs).winds = <<>>
  PROVE  Layout(Pop(bs), bf)
<1>1. Len(Top(bs).winds) = 0 /\ Len(bf) \in Nat
  OBVIOUS
<1>2. Len(bf) - Len(Top(bs).winds) = Len(bf)
  BY <1>1
<1>3. Layout(Pop(bs), SubSeq(bf, 1, Len(bf)))
  <2>1. Layout(Pop(bs), SubSeq(bf, 1, Len(bf) - Len(Top(bs).winds)))
    BY PopFits
  <2> QED BY <1>2, <2>1
<1>4. Len(SubSeq(bf, 1, Len(bf))) = Len(bf) /\ SubSeq(bf, 1, Len(bf)) \in Seq(Winds)
      /\ \A i \in 1 .. Len(bf) : SubSeq(bf, 1, Len(bf))[i] = bf[i]
  OBVIOUS
<1>5. SubSeq(bf, 1, Len(bf)) = bf
  BY <1>4, SeqEqual
<1> QED BY <1>3, <1>5

(* The bottom block, alone: its winds are the whole before list.           *)
LEMMA BottomFits ==
  ASSUME NEW bs \in Seq(Block), Len(bs) = 1, NEW bf \in Seq(Winds), Layout(bs, bf)
  PROVE  /\ bs[1].winds \in Seq(Winds) /\ Len(bf) = Len(bs[1].winds)
         /\ \A j \in 1 .. Len(bf) : bf[j] = bs[1].winds[j]
<1>1. PICK base \in [1 .. Len(bs) + 1 -> 0 .. Len(bf)] : Fit(bs, bf, base)
  BY DEF Layout
<1>2. bs # <<>>
  <2>1. bs = <<>> <=> Len(bs) = 0
    BY EmptySeq
  <2> QED BY <2>1
<1>3. base[1] = 0
  BY <1>1 DEF Fit
<1>5. LET n == Len(bs)
          q == bs[n].winds
      IN /\ base[n] + Len(q) = Len(bf) /\ Len(bf) \in Nat /\ Len(q) \in Nat
         /\ q \in Seq(Winds) /\ \A j \in 1 .. Len(q) : bf[base[n] + j] = q[j]
  BY <1>1, <1>2, TopFits
<1>4. /\ base[1] + Len(bs[1].winds) = Len(bf) /\ Len(bf) \in Nat /\ Len(bs[1].winds) \in Nat
      /\ bs[1].winds \in Seq(Winds) /\ \A j \in 1 .. Len(bs[1].winds) : bf[base[1] + j] = bs[1].winds[j]
  BY <1>5
<1>6. Len(bf) = Len(bs[1].winds) /\ \A j \in 1 .. Len(bf) : bf[j] = bs[1].winds[j]
  BY <1>3, <1>4
<1> QED BY <1>4, <1>6

(* The protections of the bottom block.                                    *)
LEMMA GuardsPush ==
  ASSUME NEW p \in Seq(Winds), NEW b \in Seq(Winds), NEW back, Guards(p, b, back), NEW w \in Winds
  PROVE  Guards(Append(p, w), Append(b, w), back)
<1> DEFINE q == Append(p, w)
           c == Append(b, w)
           n == Len(p)
           m == Len(b)
<1>1. /\ Len(q) = n + 1 /\ n \in Nat /\ q[n + 1] = w /\ \A i \in 1 .. n : q[i] = p[i]
      /\ Len(c) = m + 1 /\ m \in Nat /\ c[m + 1] = w /\ \A i \in 1 .. m : c[i] = b[i]
  BY Pushed
<1>2. m <= n /\ (\A j \in 1 .. m : p[n - m + j] = b[j]) /\ \A j \in 1 .. n - m : p[j] \in back
  BY DEF Guards
<1> HIDE DEF q, c, n, m
<1>3. Len(c) <= Len(q) /\ Len(q) - Len(c) = n - m /\ \A j \in 1 .. n - m : j \in 1 .. n
  BY <1>1, <1>2
<1>4. ASSUME NEW j \in 1 .. m + 1 PROVE q[n - m + j] = c[j]
  <2>1. CASE j = m + 1
    BY <1>1, <1>2, <2>1
  <2>2. CASE j # m + 1
    <3>1. j \in 1 .. m /\ n - m + j \in 1 .. n
      BY <1>1, <1>2, <2>2
    <3> QED BY <1>1, <1>2, <3>1
  <2> QED BY <2>1, <2>2
<1>5. Guards(q, c, back)
  BY <1>1, <1>2, <1>3, <1>4 DEF Guards
<1> QED BY <1>5 DEF q, c

LEMMA GuardsPop ==
  ASSUME NEW p \in Seq(Winds), p # <<>>, NEW b \in Seq(Winds), NEW back, Guards(p, b, back)
  PROVE  /\ b # <<>> => Guards(Pop(p), Pop(b), back)
         /\ b = <<>> => Guards(Pop(p), b, back)
<1> DEFINE q == Pop(p)
           n == Len(p)
           m == Len(b)
<1>1. /\ Len(q) = n - 1 /\ n \in Nat \ {0} /\ (\A i \in 1 .. n - 1 : q[i] = p[i]) /\ m \in Nat
  BY Popped
<1>2. m <= n /\ (\A j \in 1 .. m : p[n - m + j] = b[j]) /\ \A j \in 1 .. n - m : p[j] \in back
  BY DEF Guards
<1>3. ASSUME b # <<>> PROVE Guards(q, Pop(b), back)
  <2> DEFINE c == Pop(b)
  <2>1. Len(c) = m - 1 /\ m \in Nat \ {0} /\ \A i \in 1 .. m - 1 : c[i] = b[i]
    BY <1>3, Popped
  <2> HIDE DEF q, c, n, m
  <2>2. Len(c) <= Len(q) /\ Len(q) - Len(c) = n - m
    BY <1>1, <1>2, <2>1
  <2>3. ASSUME NEW j \in 1 .. m - 1 PROVE q[n - m + j] = c[j]
    <3>1. j \in 1 .. m /\ n - m + j \in 1 .. n - 1
      BY <1>1, <1>2, <2>1
    <3> QED BY <1>1, <1>2, <2>1, <3>1
  <2>4. \A j \in 1 .. n - m : j \in 1 .. n - 1
    BY <1>1, <2>1
  <2>5. Guards(q, c, back)
    BY <1>1, <1>2, <2>1, <2>2, <2>3, <2>4 DEF Guards
  <2> QED BY <2>5 DEF c
<1>4. ASSUME b = <<>> PROVE Guards(q, b, back)
  <2>1. m = 0
    BY <1>4
  <2> HIDE DEF q, n
  <2>2. \A j \in 1 .. n - 1 : j \in 1 .. n - m
    BY <1>1, <2>1
  <2> QED BY <1>1, <1>2, <2>1, <2>2 DEF Guards
<1> QED BY <1>3, <1>4

(* A step that leaves the bottom of a stack leaves its protections.        *)
LEMMA GuardKept ==
  ASSUME NEW t \in Runners, Guarded(t), blocks'[t][1] = blocks[t][1], bottom'[t] = bottom[t],
         again'[t] = again[t]
  PROVE  Guarded(t)'
BY DEF Guarded, Guards

(* Traces.                                                                 *)
LEMMA TracedPop ==
  ASSUME NEW bs \in Seq(Block), bs # <<>>, NEW k \in Kont, Len(k.blocks) >= 1, Traced(bs, k)
  PROVE  Traced(Pop(bs), k)
<1> DEFINE n == Len(bs)
           m == Len(k.blocks)
<1>1. Len(Pop(bs)) = n - 1 /\ n \in Nat \ {0} /\ \A i \in 1 .. n - 1 : Pop(bs)[i] = bs[i]
  BY Popped
<1>2. m \in Nat
  BY DEF Kont
<1>3. ASSUME m <= n - 1, Pop(bs)[m].stamp = k.stamp PROVE \A i \in 1 .. m - 1 : Pop(bs)[i] = k.blocks[i]
  <2> HIDE DEF n, m
  <2>1. m \in 1 .. n - 1 /\ m <= n /\ \A i \in 1 .. m - 1 : i \in 1 .. n - 1
    BY <1>1, <1>2, <1>3 DEF m
  <2>2. bs[m].stamp = k.stamp
    BY <1>1, <1>3, <2>1
  <2>3. \A i \in 1 .. m - 1 : bs[i] = k.blocks[i]
    BY <2>1, <2>2 DEF Traced, n, m
  <2> QED BY <1>1, <2>1, <2>3
<1> QED BY <1>1, <1>3 DEF Traced

LEMMA TracedRetop ==
  ASSUME NEW bs \in Seq(Block), NEW cs \in Seq(Block), Len(cs) = Len(bs),
         \A i \in 1 .. Len(bs) - 1 : cs[i] = bs[i],
         \A i \in 1 .. Len(bs) : cs[i].stamp = bs[i].stamp,
         NEW k \in Kont, Len(k.blocks) >= 1, Traced(bs, k)
  PROVE  Traced(cs, k)
<1> DEFINE n == Len(bs)
           m == Len(k.blocks)
<1>1. n \in Nat /\ m \in Nat
  BY DEF Kont
<1>2. ASSUME m <= n, cs[m].stamp = k.stamp PROVE \A i \in 1 .. m - 1 : cs[i] = k.blocks[i]
  <2>1. m \in 1 .. n /\ \A i \in 1 .. m - 1 : i \in 1 .. n - 1
    <3>1. m >= 1
      OBVIOUS
    <3> HIDE DEF n, m
    <3> QED BY <1>1, <1>2, <3>1
  <2>2. bs[m].stamp = k.stamp
    BY <1>2, <2>1
  <2>3. \A i \in 1 .. m - 1 : bs[i] = k.blocks[i]
    BY <1>2, <2>2 DEF Traced
  <2> QED BY <2>1, <2>3
<1> QED BY <1>2 DEF Traced

LEMMA TurnMoves ==
  ASSUME NEW p \in Turn, p.at \in {"unwind", "install", "init"},
         NEW a \in {"unwind", "install", "init"}
  PROVE  /\ p # Evaluating /\ p.kont \in Nat
         /\ [p EXCEPT !.at = a] \in Turn /\ [p EXCEPT !.at = a].at = a
         /\ [p EXCEPT !.at = a].kont = p.kont /\ [p EXCEPT !.at = a] # Evaluating
<1>1. Evaluating.at = "running"
  BY DEF Evaluating
<1>2. p # Evaluating
  BY <1>1
<1>3. p \in [at : {"unwind", "install", "init"}, kont : Nat]
  BY <1>2 DEF Turn
<1>4. [p EXCEPT !.at = a].at = a /\ [p EXCEPT !.at = a].kont = p.kont
  BY <1>3
<1>5. [p EXCEPT !.at = a] \in [at : {"unwind", "install", "init"}, kont : Nat]
  BY <1>3
<1> QED BY <1>1, <1>2, <1>3, <1>4, <1>5 DEF Turn

(* A step of one thread leaves the stacks of the others.                   *)
Same(u) ==
  /\ blocks'[u] = blocks[u] /\ befores'[u] = befores[u] /\ inside'[u] = inside[u]
  /\ bottom'[u] = bottom[u] /\ missed'[u] = missed[u] /\ again'[u] = again[u]
  /\ pc'[u] = pc[u] /\ (u \in mixed' <=> u \in mixed)
  /\ static' = static \/ static'.by # u

LEMMA Frame ==
  ASSUME CallccInv, NEW t \in Runners, CallccTypes', konts' = konts, stamps' = stamps,
         \A u \in Runners : u # t => Same(u), StackOf(t)',
         \A n \in 1 .. Len(konts) : konts[n].bot = t => Traced(blocks'[t], konts[n])
  PROVE  CallccInv'
<1>1. ASSUME NEW u \in Runners, u # t PROVE StackOf(u)'
  <2>1. Same(u) /\ StackOf(u)
    BY <1>1 DEF CallccInv, StacksInv
  <2>2. Balanced(u) => Balanced(u)'
    BY <2>1 DEF Same, Balanced
  <2>3. Unwound(u) => Unwound(u)'
    BY <2>1 DEF Same, Unwound
  <2>4. Guarded(u) => Guarded(u)'
    BY <2>1, GuardKept DEF Same
  <2> QED BY <2>1, <2>2, <2>3, <2>4 DEF StackOf, Same
<1>2. StacksInv'
  BY <1>1 DEF StacksInv
<1>3. KontsInv'
  <2>1. ASSUME NEW n \in 1 .. Len(konts) PROVE Captured(konts[n])'
    <3>1. Captured(konts[n])
      BY DEF CallccInv, KontsInv
    <3> QED BY <3>1 DEF Captured
  <2> QED BY <2>1 DEF KontsInv
<1>4. TraceInv'
  <2>1. ASSUME NEW n \in 1 .. Len(konts) PROVE Traced(blocks'[konts[n].bot], konts[n])
    <3>1. konts[n] \in Kont
      BY DEF CallccInv, CallccTypes
    <3>2. konts[n].bot \in Runners
      BY <3>1 DEF Kont
    <3>3. CASE konts[n].bot = t
      BY <3>3
    <3>4. CASE konts[n].bot # t
      <4>1. blocks'[konts[n].bot] = blocks[konts[n].bot]
        BY <3>2, <3>4 DEF Same
      <4>2. Traced(blocks[konts[n].bot], konts[n])
        BY DEF CallccInv, TraceInv
      <4> QED BY <4>1, <4>2
    <3> QED BY <3>3, <3>4
  <2>2. \A n \in 1 .. Len(konts) : \A m \in 1 .. Len(konts) :
          konts[m].bot = konts[n].bot => Traced(konts[m].blocks, konts[n])
    BY DEF CallccInv, TraceInv
  <2> QED BY <2>1, <2>2 DEF TraceInv
<1> QED BY <1>2, <1>3, <1>4 DEF CallccInv

LEMMA ThreadFacts ==
  ASSUME CallccInv, NEW t \in Runners
  PROVE  /\ blocks[t] \in Seq(Block) /\ blocks[t] # <<>> /\ Len(blocks[t]) \in Nat \ {0}
         /\ befores[t] \in Seq(Winds) /\ stamps[t] \in Nat /\ pc[t] \in Turn
         /\ inside[t] \in [Winds -> Int] /\ StackOf(t) /\ bottom[t] \in Seq(Winds)
         /\ missed[t] \in [Winds -> Nat] /\ again[t] \subseteq Winds
         /\ \A i \in 1 .. Len(blocks[t]) : blocks[t][i].stamp <= stamps[t]
<1>1. StackOf(t) /\ blocks[t] \in Seq(Block)
  BY DEF CallccInv, StacksInv, CallccTypes
<1>2. blocks[t] # <<>> /\ Len(blocks[t]) \in Nat \ {0}
  BY <1>1, Popped DEF StackOf
<1> QED BY <1>1, <1>2 DEF CallccInv, CallccTypes, StackOf

LEMMA KontFacts ==
  ASSUME CallccInv, NEW n \in 1 .. Len(konts)
  PROVE  /\ konts[n] \in Kont /\ konts[n].bot \in Runners /\ konts[n].blocks \in Seq(Block)
         /\ konts[n].befores \in Seq(Winds) /\ konts[n].stamp \in Nat
         /\ Captured(konts[n]) /\ Len(konts[n].blocks) >= 1
         /\ konts[n].blocks # <<>> /\ n \in Nat
         /\ Traced(blocks[konts[n].bot], konts[n])
<1>1. konts[n] \in Kont /\ Captured(konts[n]) /\ Traced(blocks[konts[n].bot], konts[n])
  BY DEF CallccInv, CallccTypes, KontsInv, TraceInv
<1>2. /\ konts[n].bot \in Runners /\ konts[n].blocks \in Seq(Block)
      /\ konts[n].befores \in Seq(Winds) /\ konts[n].stamp \in Nat
  BY <1>1 DEF Kont
<1>3. Len(konts[n].blocks) >= 2 /\ Len(konts[n].blocks) \in Nat
  BY <1>1, <1>2 DEF Captured
<1>4. konts[n].blocks # <<>>
  BY <1>2, <1>3, EmptySeq
<1>5. Len(konts[n].blocks) >= 1
  BY <1>3
<1> QED BY <1>1, <1>2, <1>4, <1>5

(* The operations, one by one.                                             *)
LEMMA StartsRight == InitCallcc => CallccInv
<1> SUFFICES ASSUME InitCallcc PROVE CallccInv
  OBVIOUS
<1> DEFINE b0 == [stamp |-> 0, winds |-> <<>>]
<1>1. b0 \in Block /\ b0.winds = <<>> /\ b0.stamp = 0
  BY DEF Block
<1> HIDE DEF b0
<1>2. <<b0>> \in Seq(Block) /\ Len(<<b0>>) = 1 /\ <<b0>>[1] = b0 /\ <<b0>> # <<>>
  BY <1>1
<1>3. <<>> \in Seq(Block) /\ <<>> \in Seq(Winds) /\ <<>> \in Seq(Kont) /\ Len(<<>>) = 0
  OBVIOUS
<1>4. \A t \in Runners : /\ blocks[t] = <<b0>> /\ befores[t] = <<>> /\ stamps[t] = 0 /\ pc[t] = Evaluating
                         /\ t \notin mixed /\ bottom[t] = <<>>
                         /\ \A w \in Winds : inside[t][w] = 0 /\ missed[t][w] = 0
  BY DEF InitCallcc, b0
<1>5. Layout(<<b0>>, <<>>)
  <2> DEFINE base == [i \in 1 .. 2 |-> 0]
  <2>1. base \in [1 .. Len(<<b0>>) + 1 -> 0 .. Len(<<>>)]
    BY <1>2, <1>3
  <2>2. Fit(<<b0>>, <<>>, base)
    BY <1>1, <1>2, <1>3 DEF Fit
  <2> QED BY <2>1, <2>2 DEF Layout
<1>6. CallccTypes
  <2>1. blocks \in [Runners -> Seq(Block)]
    BY <1>2 DEF InitCallcc, b0
  <2>2. pc \in [Runners -> Turn]
    BY DEF InitCallcc, Turn
  <2> QED BY <1>3, <2>1, <2>2 DEF InitCallcc, CallccTypes, NoKont
<1>7. ASSUME NEW t \in Runners PROVE StackOf(t)
  <2>1. Members(befores[t]) = {} /\ Distinct(befores[t])
    BY <1>3, <1>4 DEF Members, Distinct
  <2>2. Balanced(t)
    BY <1>4, <1>5, <2>1 DEF Balanced
  <2>3. \A i \in 1 .. Len(blocks[t]) : blocks[t][i].stamp <= stamps[t]
    BY <1>1, <1>2, <1>4
  <2>4. Guarded(t)
    <3>1. blocks[t][1].winds = <<>> /\ bottom[t] = <<>>
      BY <1>1, <1>2, <1>4
    <3>2. Guards(<<>>, <<>>, again[t])
      BY <1>3 DEF Guards
    <3> QED BY <3>1, <3>2 DEF Guarded
  <2> QED BY <1>2, <1>4, <2>2, <2>3, <2>4 DEF StackOf
<1>8. KontsInv /\ TraceInv
  BY <1>3 DEF InitCallcc, KontsInv, TraceInv
<1> QED BY <1>6, <1>7, <1>8 DEF CallccInv, StacksInv

LEMMA ReturnRight ==
  ASSUME CallccInv, NEW t \in Runners, CallCcReturn(t)
  PROVE  CallccInv'
<1> DEFINE bs == blocks[t]
           cs == Pop(bs)
<1>1. /\ bs \in Seq(Block) /\ bs # <<>> /\ StackOf(t) /\ befores[t] \in Seq(Winds) /\ Len(bs) \in Nat
      /\ \A i \in 1 .. Len(bs) : bs[i].stamp <= stamps[t]
  BY ThreadFacts
<1>2. /\ cs \in Seq(Block) /\ Len(cs) = Len(bs) - 1 /\ \A i \in 1 .. Len(bs) - 1 : cs[i] = bs[i]
  BY <1>1, Popped
<1> HIDE DEF cs
<1>3. blocks' = [blocks EXCEPT ![t] = cs]
  BY DEF CallCcReturn, cs
<1>4. /\ blocks' \in [Runners -> Seq(Block)] /\ blocks'[t] = cs
      /\ \A u \in Runners : u # t => blocks'[u] = blocks[u]
  BY <1>2, <1>3 DEF CallccInv, CallccTypes
<1>5. CallccTypes'
  BY <1>4 DEF CallCcReturn, CallccInv, CallccTypes
<1>6. \A u \in Runners : u # t => Same(u)
  BY <1>4 DEF CallCcReturn, Same
<1>7. Balanced(t)
  BY <1>1 DEF StackOf, CallCcReturn, Ready
<1>8. Layout(cs, befores[t])
  BY <1>1, <1>7, BareFits DEF Balanced, CallCcReturn, cs
<1>9. Balanced(t)'
  BY <1>4, <1>7, <1>8 DEF Balanced, CallCcReturn
<1>10. cs # <<>> /\ \A i \in 1 .. Len(cs) : cs[i].stamp <= stamps[t]
  <2>1. Len(bs) > 1
    BY DEF CallCcReturn
  <2>2. Len(cs) # 0
    BY <1>1, <1>2, <2>1
  <2>3. cs # <<>>
    BY <1>2, <2>2, EmptySeq
  <2>4. \A i \in 1 .. Len(cs) : i \in 1 .. Len(bs)
    BY <1>1, <1>2
  <2> QED BY <1>1, <1>2, <2>3, <2>4
<1>14. Guarded(t)'
  <2>1. cs[1] = bs[1]
    BY <1>1, <1>2 DEF CallCcReturn
  <2>2. Guarded(t)
    BY <1>1 DEF StackOf, CallCcReturn, Ready
  <2> QED BY <1>4, <2>1, <2>2, GuardKept DEF CallCcReturn
<1>11. StackOf(t)'
  BY <1>1, <1>4, <1>9, <1>10, <1>14 DEF StackOf, CallCcReturn, Ready
<1>12. \A n \in 1 .. Len(konts) : konts[n].bot = t => Traced(blocks'[t], konts[n])
  <2> SUFFICES ASSUME NEW n \in 1 .. Len(konts), konts[n].bot = t PROVE Traced(cs, konts[n])
    BY <1>4
  <2>1. konts[n] \in Kont /\ Len(konts[n].blocks) >= 1 /\ Traced(bs, konts[n])
    BY KontFacts
  <2> QED BY <1>1, <2>1, TracedPop DEF cs
<1>13. konts' = konts /\ stamps' = stamps
  BY DEF CallCcReturn
<1> QED BY <1>5, <1>6, <1>11, <1>12, <1>13, Frame

LEMMA WindRight ==
  ASSUME CallccInv, NEW t \in Runners, NEW w \in Winds, DynamicWind(t, w)
  PROVE  CallccInv'
<1> DEFINE bs == blocks[t]
           bf == befores[t]
           cs == [bs EXCEPT ![Len(bs)].winds = Append(@, w)]
           cf == Append(bf, w)
<1>1. /\ bs \in Seq(Block) /\ bs # <<>> /\ StackOf(t) /\ bf \in Seq(Winds) /\ Len(bs) \in Nat \ {0}
      /\ (\A i \in 1 .. Len(bs) : bs[i].stamp <= stamps[t]) /\ inside[t] \in [Winds -> Int]
  BY ThreadFacts
<1>2. Balanced(t)
  BY <1>1 DEF StackOf, DynamicWind, Ready
<1>3. /\ Layout(cs, cf) /\ cs \in Seq(Block) /\ Len(cs) = Len(bs)
      /\ \A i \in 1 .. Len(bs) - 1 : cs[i] = bs[i]
      /\ \A i \in 1 .. Len(bs) : cs[i].stamp = bs[i].stamp
  <2>1. Layout(bs, bf)
    BY <1>2 DEF Balanced
  <2>2. bs \in Seq(Block) /\ bs # <<>> /\ bf \in Seq(Winds)
    BY <1>1
  <2> HIDE DEF bs, bf
  <2> QED BY <2>1, <2>2, WindFits
<1>4. blocks' = [blocks EXCEPT ![t] = cs] /\ befores' = [befores EXCEPT ![t] = cf]
  BY DEF DynamicWind
<1>5. w \notin Members(bf)
  BY DEF DynamicWind, Members
<1>6. Distinct(cf) /\ Members(cf) = Members(bf) \cup {w} /\ cf \in Seq(Winds)
  BY <1>1, <1>2, <1>5, PushMembers DEF Balanced
<1> HIDE DEF cs, cf
<1>7. /\ blocks' \in [Runners -> Seq(Block)] /\ blocks'[t] = cs
      /\ befores' \in [Runners -> Seq(Winds)] /\ befores'[t] = cf
      /\ \A u \in Runners : u # t => blocks'[u] = blocks[u] /\ befores'[u] = befores[u]
  BY <1>3, <1>4, <1>6 DEF CallccInv, CallccTypes
<1>8. /\ inside' \in [Runners -> [Winds -> Int]] /\ inside'[t][w] = inside[t][w] + 1
      /\ \A v \in Winds : v # w => inside'[t][v] = inside[t][v]
      /\ \A u \in Runners : u # t => inside'[u] = inside[u]
  BY <1>1 DEF DynamicWind, CallccInv, CallccTypes
<1>17. /\ bottom' \in [Runners -> Seq(Winds)] /\ \A u \in Runners : u # t => bottom'[u] = bottom[u]
       /\ bottom'[t] = IF Len(bs) = 1 THEN Append(bottom[t], w) ELSE bottom[t]
  <2>1. bottom[t] \in Seq(Winds) /\ Append(bottom[t], w) \in Seq(Winds)
    BY ThreadFacts
  <2> QED BY <2>1 DEF DynamicWind, CallccInv, CallccTypes
<1>9. CallccTypes'
  BY <1>7, <1>8, <1>17 DEF DynamicWind, CallccInv, CallccTypes
<1>10. \A u \in Runners : u # t => Same(u)
  BY <1>7, <1>8, <1>17 DEF DynamicWind, Same
<1>11. \A v \in Winds : inside'[t][v] = missed[t][v] + IF v \in Members(cf) THEN 1 ELSE 0
  <2>1. /\ \A v \in Winds : inside[t][v] = missed[t][v] + IF v \in Members(bf) THEN 1 ELSE 0
        /\ missed[t] \in [Winds -> Nat]
    BY <1>2, ThreadFacts DEF Balanced
  <2> QED BY <1>5, <1>6, <1>8, <2>1
<1>12. Balanced(t)'
  BY <1>3, <1>6, <1>7, <1>11 DEF Balanced, DynamicWind
<1>18. Guarded(t)'
  <2>1. Guarded(t) /\ again' = again
    BY <1>1 DEF StackOf, DynamicWind, Ready
  <2>2. CASE Len(bs) = 1
    <3>1. bs[1] \in Block /\ cs = [bs EXCEPT ![1].winds = Append(@, w)]
      BY <1>1, <2>2 DEF cs
    <3>2. cs[1].winds = Append(bs[1].winds, w) /\ bs[1].winds \in Seq(Winds)
      BY <2>2, <3>1 DEF Block
    <3>3. bottom[t] \in Seq(Winds)
      BY ThreadFacts
    <3> QED BY <1>7, <1>17, <2>1, <2>2, <3>2, <3>3, GuardsPush DEF Guarded
  <2>3. CASE Len(bs) # 1
    <3>1. cs[1] = bs[1]
      <4> DEFINE n == Len(bs)
      <4>1. n \in Nat \ {0} /\ n # 1
        BY <1>1, <2>3
      <4> HIDE DEF n
      <4>2. 1 \in 1 .. n - 1
        BY <4>1
      <4> QED BY <1>3, <4>2 DEF n
    <3> QED BY <1>7, <1>17, <2>1, <2>3, <3>1, GuardKept
  <2> QED BY <2>2, <2>3
<1>13. cs # <<>> /\ \A i \in 1 .. Len(cs) : cs[i].stamp <= stamps[t]
  BY <1>1, <1>3, EmptySeq
<1>14. StackOf(t)'
  BY <1>1, <1>7, <1>12, <1>13, <1>18 DEF StackOf, DynamicWind, Ready
<1>15. \A n \in 1 .. Len(konts) : konts[n].bot = t => Traced(blocks'[t], konts[n])
  <2> SUFFICES ASSUME NEW n \in 1 .. Len(konts), konts[n].bot = t PROVE Traced(cs, konts[n])
    BY <1>7
  <2>1. konts[n] \in Kont /\ Len(konts[n].blocks) >= 1 /\ Traced(bs, konts[n])
    BY KontFacts
  <2> QED BY <1>1, <1>3, <2>1, TracedRetop
<1>16. konts' = konts /\ stamps' = stamps
  BY DEF DynamicWind
<1> QED BY <1>9, <1>10, <1>14, <1>15, <1>16, Frame

LEMMA WindExitRight ==
  ASSUME CallccInv, NEW t \in Runners, DynamicWindExit(t)
  PROVE  CallccInv'
<1> DEFINE bs == blocks[t]
           bf == befores[t]
           cs == [bs EXCEPT ![Len(bs)].winds = Pop(@)]
           cf == Pop(bf)
           w == Top(Top(bs).winds)
<1>1. /\ bs \in Seq(Block) /\ bs # <<>> /\ StackOf(t) /\ bf \in Seq(Winds) /\ Len(bs) \in Nat \ {0}
      /\ (\A i \in 1 .. Len(bs) : bs[i].stamp <= stamps[t]) /\ inside[t] \in [Winds -> Int]
  BY ThreadFacts
<1>2. Balanced(t)
  BY <1>1 DEF StackOf, DynamicWindExit, Ready
<1>3. /\ Layout(cs, cf) /\ cs \in Seq(Block) /\ Len(cs) = Len(bs)
      /\ (\A i \in 1 .. Len(bs) - 1 : cs[i] = bs[i])
      /\ (\A i \in 1 .. Len(bs) : cs[i].stamp = bs[i].stamp)
      /\ bf # <<>> /\ w = Top(bf)
  <2>1. Top(bs).winds # <<>>
    BY DEF DynamicWindExit
  <2> QED BY <1>1, <1>2, <2>1, UnwindFits DEF Balanced
<1>4. blocks' = [blocks EXCEPT ![t] = cs] /\ befores' = [befores EXCEPT ![t] = cf]
  BY DEF DynamicWindExit
<1>6. Distinct(cf) /\ Members(cf) = Members(bf) \ {w} /\ cf \in Seq(Winds) /\ w \in Members(bf) /\ w \in Winds
  BY <1>1, <1>2, <1>3, PopOne, Popped DEF Balanced
<1>8. /\ inside' \in [Runners -> [Winds -> Int]] /\ inside'[t][w] = inside[t][w] - 1
      /\ \A v \in Winds : v # w => inside'[t][v] = inside[t][v]
      /\ \A u \in Runners : u # t => inside'[u] = inside[u]
  <2>1. inside' = [inside EXCEPT ![t][w] = @ - 1]
    BY DEF DynamicWindExit
  <2> HIDE DEF w
  <2> QED BY <1>1, <1>6, <2>1 DEF CallccInv, CallccTypes
<1> HIDE DEF cs, cf, w
<1>7. /\ blocks' \in [Runners -> Seq(Block)] /\ blocks'[t] = cs
      /\ befores' \in [Runners -> Seq(Winds)] /\ befores'[t] = cf
      /\ \A u \in Runners : u # t => blocks'[u] = blocks[u] /\ befores'[u] = befores[u]
  BY <1>3, <1>4, <1>6 DEF CallccInv, CallccTypes
<1>17. /\ bottom' \in [Runners -> Seq(Winds)] /\ \A u \in Runners : u # t => bottom'[u] = bottom[u]
       /\ bottom'[t] = IF Len(bs) = 1 /\ bottom[t] # <<>> THEN Pop(bottom[t]) ELSE bottom[t]
  <2>1. bottom[t] \in Seq(Winds) /\ (bottom[t] # <<>> => Pop(bottom[t]) \in Seq(Winds))
    BY ThreadFacts, Popped
  <2> QED BY <2>1 DEF DynamicWindExit, CallccInv, CallccTypes
<1>9. CallccTypes'
  BY <1>7, <1>8, <1>17 DEF DynamicWindExit, CallccInv, CallccTypes
<1>10. \A u \in Runners : u # t => Same(u)
  BY <1>7, <1>8, <1>17 DEF DynamicWindExit, Same
<1>11. \A v \in Winds : inside'[t][v] = missed[t][v] + IF v \in Members(cf) THEN 1 ELSE 0
  <2>1. /\ \A v \in Winds : inside[t][v] = missed[t][v] + IF v \in Members(bf) THEN 1 ELSE 0
        /\ missed[t] \in [Winds -> Nat]
    BY <1>2, ThreadFacts DEF Balanced
  <2> QED BY <1>6, <1>8, <2>1
<1>12. Balanced(t)'
  BY <1>3, <1>6, <1>7, <1>11 DEF Balanced, DynamicWindExit
<1>18. Guarded(t)'
  <2>1. Guarded(t) /\ again' = again
    BY <1>1 DEF StackOf, DynamicWindExit, Ready
  <2>2. CASE Len(bs) = 1
    <3>1. bs[1] \in Block /\ cs = [bs EXCEPT ![1].winds = Pop(@)]
      BY <1>1, <2>2 DEF cs
    <3>2. cs[1].winds = Pop(bs[1].winds) /\ bs[1].winds \in Seq(Winds) /\ bs[1].winds # <<>>
      BY <2>2, <3>1 DEF Block, DynamicWindExit, Top
    <3>3. bottom[t] \in Seq(Winds)
      BY ThreadFacts
    <3> QED BY <1>7, <1>17, <2>1, <2>2, <3>2, <3>3, GuardsPop DEF Guarded
  <2>3. CASE Len(bs) # 1
    <3>1. cs[1] = bs[1]
      <4> DEFINE n == Len(bs)
      <4>1. n \in Nat \ {0} /\ n # 1
        BY <1>1, <2>3
      <4> HIDE DEF n
      <4>2. 1 \in 1 .. n - 1
        BY <4>1
      <4> QED BY <1>3, <4>2 DEF n
    <3> QED BY <1>7, <1>17, <2>1, <2>3, <3>1, GuardKept
  <2> QED BY <2>2, <2>3
<1>13. cs # <<>> /\ \A i \in 1 .. Len(cs) : cs[i].stamp <= stamps[t]
  BY <1>1, <1>3, EmptySeq
<1>14. StackOf(t)'
  BY <1>1, <1>7, <1>12, <1>13, <1>18 DEF StackOf, DynamicWindExit, Ready
<1>15. \A n \in 1 .. Len(konts) : konts[n].bot = t => Traced(blocks'[t], konts[n])
  <2> SUFFICES ASSUME NEW n \in 1 .. Len(konts), konts[n].bot = t PROVE Traced(cs, konts[n])
    BY <1>7
  <2>1. konts[n] \in Kont /\ Len(konts[n].blocks) >= 1 /\ Traced(bs, konts[n])
    BY KontFacts
  <2> QED BY <1>1, <1>3, <2>1, TracedRetop
<1>16. konts' = konts /\ stamps' = stamps
  BY DEF DynamicWindExit
<1> QED BY <1>9, <1>10, <1>14, <1>15, <1>16, Frame

LEMMA ApplyRight ==
  ASSUME CallccInv, NEW t \in Runners, NEW k \in 1 .. Len(konts), ApplyContinuation(t, k)
  PROVE  CallccInv'
<1> DEFINE p == [at |-> "unwind", kont |-> k]
<1>1. StackOf(t) /\ blocks[t] # <<>> /\ \A i \in 1 .. Len(blocks[t]) : blocks[t][i].stamp <= stamps[t]
  BY ThreadFacts
<1>2. p.at = "unwind" /\ p.kont = k /\ p \in Turn /\ p # Evaluating
  BY KontFacts DEF Turn, Evaluating
<1> HIDE DEF p
<1>3. pc' = [pc EXCEPT ![t] = p]
  BY DEF ApplyContinuation, p
<1>4. pc' \in [Runners -> Turn] /\ pc'[t] = p /\ \A u \in Runners : u # t => pc'[u] = pc[u]
  BY <1>2, <1>3 DEF CallccInv, CallccTypes
<1>5. CallccTypes'
  BY <1>4 DEF ApplyContinuation, CallccInv, CallccTypes
<1>6. \A u \in Runners : u # t => Same(u)
  BY <1>4 DEF ApplyContinuation, Same
<1>7. Balanced(t) /\ Guarded(t) /\ t \notin mixed
  BY <1>1 DEF StackOf, ApplyContinuation, Ready
<1>8. Balanced(t)' /\ Guarded(t)'
  BY <1>7 DEF Balanced, Guarded, Guards, ApplyContinuation
<1>9. StackOf(t)'
  BY <1>1, <1>2, <1>4, <1>7, <1>8 DEF StackOf, ApplyContinuation
<1>10. \A n \in 1 .. Len(konts) : konts[n].bot = t => Traced(blocks'[t], konts[n])
  BY KontFacts DEF ApplyContinuation
<1>11. konts' = konts /\ stamps' = stamps
  BY DEF ApplyContinuation
<1> QED BY <1>5, <1>6, <1>9, <1>10, <1>11, Frame

LEMMA InstallRight ==
  ASSUME CallccInv, NEW t \in Runners, CallccInstallStack(t)
  PROVE  CallccInv'
<1> DEFINE k == pc[t].kont
           cs == konts[k].blocks
           p == [pc[t] EXCEPT !.at = "init"]
<1>1. StackOf(t) /\ pc[t] \in Turn /\ pc[t].at = "install"
  BY ThreadFacts DEF CallccInstallStack
<1>2. pc[t] # Evaluating /\ p \in Turn /\ p.at = "init" /\ p.kont = k /\ p # Evaluating
  BY <1>1, TurnMoves
<1>3. k \in 1 .. Len(konts) /\ konts[k].bot = t /\ t \notin mixed /\ Unwound(t)
  BY <1>1, <1>2 DEF StackOf
<1>4. cs \in Seq(Block) /\ cs # <<>> /\ Captured(konts[k])
  BY <1>3, KontFacts
<1>5. \A i \in 1 .. Len(cs) : cs[i].stamp <= stamps[t]
  BY <1>3, <1>4 DEF Captured
<1> HIDE DEF p
<1>6. blocks' = [blocks EXCEPT ![t] = cs] /\ pc' = [pc EXCEPT ![t] = p]
  BY DEF CallccInstallStack, p
<1>7. static' = [by |-> t, kont |-> k] /\ static'.by = t /\ static'.kont = k
  BY DEF CallccInstallStack
<1>17. konts' = konts /\ stamps' = stamps /\ UNCHANGED <<bottom, befores, inside, missed, again, mixed, jumped>>
  BY DEF CallccInstallStack
<1>8. konts'[p.kont].blocks = cs /\ konts'[p.kont].bot = t /\ p.kont \in 1 .. Len(konts')
  BY <1>2, <1>3, <1>17
<1> HIDE DEF cs, k
<1>9. /\ blocks' \in [Runners -> Seq(Block)] /\ blocks'[t] = cs
      /\ pc' \in [Runners -> Turn] /\ pc'[t] = p
      /\ \A u \in Runners : u # t => blocks'[u] = blocks[u] /\ pc'[u] = pc[u]
  BY <1>2, <1>4, <1>6 DEF CallccInv, CallccTypes
<1>10. CallccTypes'
  BY <1>9, <1>17 DEF CallccInv, CallccTypes
<1>11. \A u \in Runners : u # t => Same(u)
  BY <1>7, <1>9, <1>17 DEF Same
<1>12. Unwound(t)'
  BY <1>3, <1>17 DEF Unwound
<1>13. StackOf(t)'
  BY <1>1, <1>2, <1>3, <1>4, <1>5, <1>7, <1>8, <1>9, <1>12, <1>17 DEF StackOf
<1>14. \A n \in 1 .. Len(konts) : konts[n].bot = t => Traced(blocks'[t], konts[n])
  <2> SUFFICES ASSUME NEW n \in 1 .. Len(konts), konts[n].bot = t PROVE Traced(cs, konts[n])
    BY <1>9
  <2>1. Traced(konts[k].blocks, konts[n])
    BY <1>3 DEF CallccInv, TraceInv
  <2> QED BY <2>1 DEF cs
<1> QED BY <1>10, <1>11, <1>13, <1>14, <1>17, Frame

LEMMA InitStackRight ==
  ASSUME CallccInv, NEW t \in Runners, CallccInitStack(t)
  PROVE  CallccInv'
<1>1. StackOf(t) /\ pc[t] \in Turn /\ pc[t].at = "init" /\ inside[t] \in [Winds -> Int]
  BY ThreadFacts DEF CallccInitStack
<1>2. pc[t] # Evaluating
  BY <1>1, TurnMoves
<1>3. /\ pc' \in [Runners -> Turn] /\ pc'[t] = Evaluating
      /\ \A u \in Runners : u # t => pc'[u] = pc[u]
  BY DEF CallccInitStack, CallccInv, CallccTypes, Turn
<1>4. konts' = konts /\ stamps' = stamps /\ static' = static /\ bottom' = bottom /\ missed' = missed
  BY DEF CallccInitStack
<1>5. /\ pc[t].kont \in 1 .. Len(konts) /\ konts[pc[t].kont].bot = t /\ t \notin mixed /\ Unwound(t)
      /\ blocks[t] = konts[pc[t].kont].blocks /\ (static.by = t => static.kont = pc[t].kont)
      /\ blocks[t] # <<>> /\ \A i \in 1 .. Len(blocks[t]) : blocks[t][i].stamp <= stamps[t]
  BY <1>1, <1>2 DEF StackOf
<1>6. CASE static.by # t
  <2>1. mixed' = mixed \cup {t} /\ UNCHANGED <<befores, inside, blocks, again, jumped>>
    BY <1>6 DEF CallccInitStack
  <2>2. CallccTypes'
    BY <1>3, <1>4, <2>1 DEF CallccInv, CallccTypes
  <2>3. \A u \in Runners : u # t => Same(u)
    BY <1>3, <1>4, <2>1 DEF Same
  <2>4. StackOf(t)'
    BY <1>1, <1>3, <1>4, <1>5, <2>1 DEF StackOf
  <2>5. \A n \in 1 .. Len(konts) : konts[n].bot = t => Traced(blocks'[t], konts[n])
    BY <2>1, KontFacts
  <2> QED BY <1>4, <2>2, <2>3, <2>4, <2>5, Frame
<1>7. CASE static.by = t
  <2> DEFINE k == konts[pc[t].kont]
             cs == Pop(blocks[t])
             cf == k.befores
             new == [w \in Winds |-> IF w \in Members(cf) THEN inside[t][w] + 1 ELSE inside[t][w]]
  <2>1. /\ k \in Kont /\ Captured(k) /\ k.blocks \in Seq(Block) /\ cf \in Seq(Winds) /\ pc[t].kont \in Nat
        /\ Len(k.blocks) \in Nat
    BY <1>5, KontFacts
  <2>2. /\ blocks' = [blocks EXCEPT ![t] = cs] /\ befores' = [befores EXCEPT ![t] = cf]
        /\ inside' = [inside EXCEPT ![t] = new] /\ jumped' = [jumped EXCEPT ![t] = pc[t].kont]
        /\ mixed' = mixed
    BY <1>5, <1>7 DEF CallccInitStack, Members
  <2>3. /\ cs \in Seq(Block) /\ Len(cs) = Len(k.blocks) - 1
        /\ \A i \in 1 .. Len(k.blocks) - 1 : cs[i] = blocks[t][i]
    <3>1. blocks[t] \in Seq(Block) /\ blocks[t] # <<>>
      BY ThreadFacts
    <3>2. /\ cs \in Seq(Block) /\ Len(cs) = Len(blocks[t]) - 1
          /\ \A i \in 1 .. Len(blocks[t]) - 1 : cs[i] = blocks[t][i]
      BY <3>1, Popped
    <3>3. Len(blocks[t]) = Len(k.blocks)
      BY <1>5
    <3> HIDE DEF cs, k
    <3> QED BY <3>2, <3>3
  <2>4. Layout(cs, cf) /\ Distinct(cf) /\ Len(k.blocks) >= 2
    <3>1. /\ Layout(k.blocks, cf) /\ Distinct(cf) /\ Len(k.blocks) >= 2
          /\ Top(k.blocks).winds = <<>> /\ k.blocks # <<>>
      BY <1>5, <2>1 DEF Captured
    <3>2. Layout(Pop(k.blocks), cf)
      BY <2>1, <3>1, BareFits
    <3> QED BY <1>5, <3>1, <3>2
  <2> HIDE DEF cs, cf
  <2>5. cs # <<>> /\ \A i \in 1 .. Len(cs) : cs[i].stamp <= stamps[t]
    <3>1. Len(cs) # 0
      <4> DEFINE m == Len(k.blocks)
      <4>1. m \in Nat /\ m >= 2 /\ Len(cs) = m - 1
        BY <2>1, <2>3, <2>4
      <4> HIDE DEF m
      <4> QED BY <4>1
    <3>2. cs # <<>>
      BY <2>3, <3>1, EmptySeq
    <3>3. \A i \in 1 .. Len(cs) : i \in 1 .. Len(k.blocks) - 1 /\ i \in 1 .. Len(k.blocks)
      BY <2>1, <2>3
    <3> QED BY <1>5, <2>3, <3>2, <3>3
  <2>6. new \in [Winds -> Int]
        /\ \A w \in Winds : new[w] = missed[t][w] + IF w \in Members(cf) THEN 1 ELSE 0
    <3>1. (\A w \in Winds : inside[t][w] = missed[t][w]) /\ missed[t] \in [Winds -> Nat]
      BY <1>5, ThreadFacts DEF Unwound
    <3> QED BY <1>1, <3>1
  <2>13. /\ again' \in [Runners -> SUBSET Winds] /\ again[t] \subseteq again'[t]
         /\ Members(blocks[t][1].winds) \subseteq again'[t]
         /\ \A u \in Runners : u # t => again'[u] = again[u]
    <3>1. again' = [again EXCEPT ![t] = @ \cup Members(blocks[t][1].winds)]
      BY <1>5, <1>7 DEF CallccInitStack
    <3>2. 1 \in 1 .. Len(blocks[t]) /\ blocks[t] \in Seq(Block)
      BY ThreadFacts
    <3>3. blocks[t][1] \in Block
      BY <3>2
    <3>4. Members(blocks[t][1].winds) \subseteq Winds
      BY <3>3 DEF Block, Members
    <3> QED BY <3>1, <3>4 DEF CallccInv, CallccTypes
  <2> HIDE DEF new
  <2>7. /\ blocks' \in [Runners -> Seq(Block)] /\ blocks'[t] = cs
        /\ befores' \in [Runners -> Seq(Winds)] /\ befores'[t] = cf
        /\ inside' \in [Runners -> [Winds -> Int]] /\ inside'[t] = new
        /\ jumped' \in [Runners -> Nat]
        /\ \A u \in Runners : u # t => blocks'[u] = blocks[u] /\ befores'[u] = befores[u] /\ inside'[u] = inside[u]
    BY <2>1, <2>2, <2>3, <2>6 DEF CallccInv, CallccTypes, cf
  <2>8. CallccTypes'
    BY <1>3, <1>4, <2>2, <2>7, <2>13 DEF CallccInv, CallccTypes
  <2>9. \A u \in Runners : u # t => Same(u)
    BY <1>3, <1>4, <2>2, <2>7, <2>13 DEF Same
  <2>10. Balanced(t)'
    BY <1>4, <2>4, <2>6, <2>7 DEF Balanced
  <2>14. Guarded(t)'
    <3>1. cs[1] = blocks[t][1] /\ bottom'[t] = <<>>
      <4>1. 1 \in 1 .. Len(k.blocks) - 1
        BY <2>1, <2>4
      <4> QED BY <1>4, <1>5, <2>3, <4>1 DEF Unwound
    <3>2. Len(blocks[t][1].winds) \in Nat
      <4>1. blocks[t] \in Seq(Block) /\ 1 \in 1 .. Len(blocks[t])
        BY ThreadFacts
      <4>2. blocks[t][1] \in Block
        BY <4>1
      <4> QED BY <4>2 DEF Block
    <3> QED BY <2>7, <2>13, <3>1, <3>2 DEF Guarded, Guards, Members
  <2>11. StackOf(t)'
    BY <1>1, <1>3, <1>4, <1>5, <2>5, <2>7, <2>10, <2>13, <2>14 DEF StackOf
  <2>12. \A n \in 1 .. Len(konts) : konts[n].bot = t => Traced(blocks'[t], konts[n])
    <3> SUFFICES ASSUME NEW n \in 1 .. Len(konts), konts[n].bot = t PROVE Traced(cs, konts[n])
      BY <2>7
    <3>1. konts[n] \in Kont /\ Len(konts[n].blocks) >= 1 /\ Traced(blocks[t], konts[n])
      BY KontFacts
    <3>2. blocks[t] \in Seq(Block)
      BY ThreadFacts
    <3> QED BY <1>5, <3>1, <3>2, TracedPop DEF cs
  <2> QED BY <1>4, <2>8, <2>9, <2>11, <2>12, Frame
<1> QED BY <1>6, <1>7

LEMMA CaptureRight ==
  ASSUME CallccInv, NEW t \in Runners, CallCc(t)
  PROVE  CallccInv'
<1> DEFINE bs == blocks[t]
           stamp == stamps[t] + 1
           b == [stamp |-> stamp, winds |-> <<>>]
           cs == Append(bs, b)
           bf == befores[t]
           k == [bot |-> t, stamp |-> stamp, blocks |-> cs, befores |-> bf]
           n0 == Len(konts)
<1>1. /\ bs \in Seq(Block) /\ bs # <<>> /\ StackOf(t) /\ bf \in Seq(Winds) /\ Len(bs) \in Nat \ {0}
      /\ (\A i \in 1 .. Len(bs) : bs[i].stamp <= stamps[t]) /\ stamps[t] \in Nat
  BY ThreadFacts
<1>2. stamp \in Nat /\ stamp > stamps[t]
  BY <1>1
<1> HIDE DEF stamp
<1>3. b \in Block /\ b.stamp = stamp /\ b.winds = <<>>
  BY <1>2 DEF Block
<1> HIDE DEF b
<1>4. /\ cs \in Seq(Block) /\ Len(cs) = Len(bs) + 1 /\ cs[Len(bs) + 1] = b
      /\ \A i \in 1 .. Len(bs) : cs[i] = bs[i]
  BY <1>1, <1>3, Pushed
<1>5. Balanced(t) /\ pc[t] = Evaluating /\ t \notin mixed
  BY <1>1 DEF StackOf, CallCc, Ready
<1>6. Layout(cs, bf) /\ Distinct(bf)
  BY <1>1, <1>3, <1>5, PushFits DEF Balanced
<1> HIDE DEF cs
<1>7. k \in Kont /\ k.bot = t /\ k.stamp = stamp /\ k.blocks = cs /\ k.befores = bf
  BY <1>1, <1>2, <1>4 DEF Kont
<1> HIDE DEF k
<1>8. /\ blocks' = [blocks EXCEPT ![t] = cs] /\ konts' = Append(konts, k)
      /\ stamps' = [stamps EXCEPT ![t] = stamp]
      /\ UNCHANGED <<bottom, befores, pc, static, inside, missed, again, mixed, jumped>>
  BY DEF CallCc, stamp, b, cs, k
<1>9. /\ blocks' \in [Runners -> Seq(Block)] /\ blocks'[t] = cs
      /\ stamps' \in [Runners -> Nat] /\ stamps'[t] = stamp
      /\ \A u \in Runners : u # t => blocks'[u] = blocks[u] /\ stamps'[u] = stamps[u]
  BY <1>2, <1>4, <1>8 DEF CallccInv, CallccTypes
<1>10. /\ konts' \in Seq(Kont) /\ Len(konts') = n0 + 1 /\ konts'[n0 + 1] = k /\ n0 \in Nat
       /\ \A n \in 1 .. n0 : konts'[n] = konts[n]
  BY <1>7, <1>8, Pushed DEF CallccInv, CallccTypes
<1> HIDE DEF n0
<1>11. CallccTypes'
  BY <1>8, <1>9, <1>10 DEF CallccInv, CallccTypes
<1>12. \A u \in Runners : stamps[u] <= stamps'[u] /\ stamps[u] \in Nat /\ stamps'[u] \in Nat
  <2>1. ASSUME NEW u \in Runners PROVE stamps[u] <= stamps'[u] /\ stamps[u] \in Nat /\ stamps'[u] \in Nat
    <3>1. stamps[u] \in Nat
      BY DEF CallccInv, CallccTypes
    <3>2. CASE u = t
      BY <1>1, <1>2, <1>9, <3>2
    <3>3. CASE u # t
      BY <1>9, <3>1, <3>3
    <3> QED BY <3>2, <3>3
  <2> QED BY <2>1
<1>13. \A n \in 1 .. n0 + 1 : n \in 1 .. n0 \/ n = n0 + 1
  BY <1>10
<1>14. \A n \in 1 .. n0 : n \in 1 .. Len(konts')
  BY <1>10
<1>15. \A i \in 1 .. Len(cs) : i \in 1 .. Len(bs) \/ i = Len(bs) + 1
  BY <1>1, <1>4
<1>16. \A i \in 1 .. Len(cs) : cs[i].stamp <= stamp
  <2>1. ASSUME NEW i \in 1 .. Len(bs) PROVE cs[i].stamp <= stamp
    <3>1. bs[i] \in Block
      BY <1>1
    <3>2. bs[i].stamp \in Nat
      BY <3>1 DEF Block
    <3>3. cs[i] = bs[i] /\ bs[i].stamp <= stamps[t]
      BY <1>1, <1>4
    <3> QED BY <1>1, <1>2, <3>2, <3>3
  <2>2. cs[Len(bs) + 1].stamp <= stamp
    BY <1>2, <1>3, <1>4
  <2> QED BY <1>15, <2>1, <2>2
<1>17. cs # <<>> /\ Len(cs) >= 2
  BY <1>1, <1>4, EmptySeq
<1>18. ASSUME NEW u \in Runners PROVE StackOf(u)'
  <2>1. CASE u = t
    <3>1. Balanced(t)'
      BY <1>5, <1>6, <1>8, <1>9 DEF Balanced
    <3>2. Guarded(t)'
      <4>1. Guarded(t) /\ cs[1] = bs[1]
        BY <1>1, <1>4, <1>5 DEF StackOf
      <4> QED BY <1>8, <1>9, <4>1, GuardKept
    <3> QED BY <1>1, <1>5, <1>8, <1>9, <1>16, <1>17, <2>1, <3>1, <3>2 DEF StackOf
  <2>2. CASE u # t
    <3>1. StackOf(u)
      BY DEF CallccInv, StacksInv
    <3>2. Balanced(u) => Balanced(u)'
      BY <1>8, <1>9, <2>2 DEF Balanced
    <3>3. Unwound(u) => Unwound(u)'
      BY <1>8 DEF Unwound
    <3>4. pc[u] # Evaluating => /\ pc[u].kont \in 1 .. Len(konts') /\ konts'[pc[u].kont] = konts[pc[u].kont]
                                /\ pc[u].kont \in 1 .. Len(konts)
      BY <1>10, <1>14, <3>1 DEF StackOf, n0
    <3>5. Guarded(u) => Guarded(u)'
      BY <1>8, <1>9, <2>2, GuardKept
    <3> QED BY <1>8, <1>9, <2>2, <3>1, <3>2, <3>3, <3>4, <3>5 DEF StackOf
  <2> QED BY <2>1, <2>2
<1>19. ASSUME NEW n \in 1 .. n0 PROVE Captured(konts[n])'
  <2>1. /\ Captured(konts[n]) /\ konts'[n] = konts[n] /\ konts[n].bot \in Runners
        /\ konts[n].blocks \in Seq(Block)
    BY <1>10, KontFacts DEF n0
  <2>2. \A i \in 1 .. Len(konts[n].blocks) : konts[n].blocks[i].stamp <= stamps'[konts[n].bot]
    <3> DEFINE c == konts[n].blocks
               u == konts[n].bot
    <3>1. \A i \in 1 .. Len(c) : c[i].stamp <= stamps[u]
      BY <2>1 DEF Captured
    <3>2. \A i \in 1 .. Len(c) : c[i].stamp \in Nat
      <4>1. ASSUME NEW i \in 1 .. Len(c) PROVE c[i].stamp \in Nat
        <5>1. c[i] \in Block
          BY <2>1
        <5> QED BY <5>1 DEF Block
      <4> QED BY <4>1
    <3>3. u \in Runners
      BY <2>1
    <3> HIDE DEF c, u
    <3>4. ASSUME NEW i \in 1 .. Len(c) PROVE c[i].stamp <= stamps'[u]
      <4> DEFINE x == c[i].stamp
                 y == stamps[u]
                 z == stamps'[u]
      <4>1. y <= z /\ y \in Nat /\ z \in Nat
        BY <1>12, <3>3
      <4>2. x <= y /\ x \in Nat
        BY <3>1, <3>2
      <4> HIDE DEF x, y, z
      <4>3. x <= z
        BY <4>1, <4>2
      <4> QED BY <4>3 DEF x, z
    <3> QED BY <3>4 DEF c, u
  <2> QED BY <2>1, <2>2 DEF Captured
<1>20. ASSUME NEW n \in 1 .. Len(konts'), n = n0 + 1 PROVE Captured(konts[n])'
  <2>1. Top(cs) = b
    <3>1. Top(cs) = cs[Len(cs)]
      BY DEF Top
    <3> QED BY <1>4, <3>1
  <2>2. konts'[n] = k
    BY <1>10, <1>20
  <2>3. /\ konts'[n].blocks = cs /\ konts'[n].bot = t /\ konts'[n].stamp = stamp /\ konts'[n].befores = bf
        /\ stamps'[t] = stamp
    BY <1>7, <1>9, <2>2
  <2>4. /\ Len(cs) >= 2 /\ Top(cs).winds = <<>> /\ Top(cs).stamp = stamp /\ Layout(cs, bf) /\ Distinct(bf)
        /\ \A i \in 1 .. Len(cs) : cs[i].stamp <= stamp
    BY <1>3, <1>6, <1>16, <1>17, <2>1
  <2> HIDE DEF bf
  <2> QED BY <2>3, <2>4 DEF Captured
<1>21. KontsInv'
  <2>1. ASSUME NEW n \in 1 .. Len(konts') PROVE Captured(konts[n])'
    <3>1. CASE n \in 1 .. n0
      BY <1>19, <3>1
    <3>2. CASE n = n0 + 1
      BY <1>20, <3>2
    <3> QED BY <1>10, <1>13, <3>1, <3>2
  <2> QED BY <2>1 DEF KontsInv
<1>22. ASSUME NEW n \in 1 .. n0, konts[n].bot = t PROVE Traced(cs, konts[n]) /\ Traced(konts[n].blocks, k)
  <2> DEFINE j == konts[n]
             m == Len(j.blocks)
  <2>1. /\ j \in Kont /\ Captured(j) /\ Traced(bs, j) /\ j.blocks \in Seq(Block) /\ m >= 1 /\ m \in Nat
        /\ j.stamp \in Nat
    BY <1>22, KontFacts DEF n0
  <2>2. j.blocks[m].stamp = j.stamp /\ \A i \in 1 .. m : j.blocks[i].stamp <= stamps[t]
    BY <1>22, <2>1 DEF Captured, Top
  <2> HIDE DEF m, j
  <2>3. j.stamp <= stamps[t]
    BY <2>1, <2>2
  <2>4. Traced(cs, j)
    <3>1. ASSUME m <= Len(cs), cs[m].stamp = j.stamp PROVE \A i \in 1 .. m - 1 : cs[i] = j.blocks[i]
      <4>1. m # Len(bs) + 1
        BY <1>1, <1>2, <1>3, <1>4, <2>1, <2>3, <3>1
      <4>2. m \in 1 .. Len(bs) /\ m <= Len(bs) /\ \A i \in 1 .. m - 1 : i \in 1 .. Len(bs)
        BY <1>1, <1>4, <2>1, <3>1, <4>1
      <4>3. bs[m].stamp = j.stamp
        BY <1>4, <3>1, <4>2
      <4>4. \A i \in 1 .. m - 1 : bs[i] = j.blocks[i]
        BY <2>1, <4>2, <4>3 DEF Traced, m
      <4> QED BY <1>4, <4>2, <4>4
    <3> QED BY <3>1 DEF Traced, m
  <2>5. Traced(j.blocks, k)
    <3>1. ASSUME Len(cs) <= m, j.blocks[Len(cs)].stamp = stamp PROVE FALSE
      <4>1. Len(cs) \in 1 .. m
        BY <1>1, <1>4, <2>1, <3>1
      <4>2. stamp <= stamps[t]
        BY <2>2, <3>1, <4>1
      <4> QED BY <1>1, <1>2, <4>2
    <3> QED BY <1>7, <3>1 DEF Traced, m
  <2> QED BY <2>4, <2>5 DEF j
<1>23. Traced(cs, k)
  BY <1>7 DEF Traced
<1>24. ASSUME NEW n \in 1 .. Len(konts') PROVE Traced(blocks'[konts'[n].bot], konts'[n])
  <2>1. CASE n \in 1 .. n0
    <3>1. /\ konts'[n] = konts[n] /\ konts[n].bot \in Runners /\ Traced(blocks[konts[n].bot], konts[n])
      BY <1>10, <2>1, KontFacts DEF n0
    <3> QED BY <1>9, <1>22, <2>1, <3>1
  <2>2. CASE n = n0 + 1
    BY <1>7, <1>9, <1>10, <1>23, <2>2
  <2> QED BY <1>10, <1>13, <2>1, <2>2
<1>25. ASSUME NEW n \in 1 .. Len(konts'), NEW m \in 1 .. Len(konts'), konts'[m].bot = konts'[n].bot
       PROVE  Traced(konts'[m].blocks, konts'[n])
  <2>1. CASE n \in 1 .. n0 /\ m \in 1 .. n0
    BY <1>10, <1>25, <2>1 DEF CallccInv, TraceInv, n0
  <2>2. CASE n \in 1 .. n0 /\ m = n0 + 1
    BY <1>7, <1>10, <1>22, <1>25, <2>2
  <2>3. CASE n = n0 + 1 /\ m \in 1 .. n0
    BY <1>7, <1>10, <1>22, <1>25, <2>3
  <2>4. CASE n = n0 + 1 /\ m = n0 + 1
    BY <1>7, <1>10, <1>23, <2>4
  <2> QED BY <1>10, <1>13, <2>1, <2>2, <2>3, <2>4
<1>26. TraceInv'
  BY <1>24, <1>25 DEF TraceInv
<1> QED BY <1>11, <1>18, <1>21, <1>26 DEF CallccInv, StacksInv

LEMMA UnwindRight ==
  ASSUME CallccInv, NEW t \in Runners, UnwindStackUntil(t)
  PROVE  CallccInv'
<1> DEFINE bs == blocks[t]
           bf == befores[t]
           p == Top(bs).winds
           cf == SubSeq(bf, 1, Len(bf) - Len(p))
           k == pc[t].kont
           new == [w \in Winds |-> IF w \in Members(p) THEN inside[t][w] - 1 ELSE inside[t][w]]
<1>1. /\ bs \in Seq(Block) /\ bs # <<>> /\ StackOf(t) /\ bf \in Seq(Winds) /\ Len(bs) \in Nat \ {0}
      /\ (\A i \in 1 .. Len(bs) : bs[i].stamp <= stamps[t]) /\ inside[t] \in [Winds -> Int]
      /\ pc[t] \in Turn /\ pc[t].at = "unwind" /\ Len(bs) # 1
  <2>1. Len(bs) > 1 /\ pc[t].at = "unwind"
    BY DEF UnwindStackUntil
  <2>3. Len(bs) \in Nat
    BY ThreadFacts
  <2>2. Len(bs) # 1
    <3> DEFINE n == Len(bs)
    <3>1. n \in Nat /\ n > 1
      BY <2>1, <2>3
    <3> HIDE DEF n
    <3>2. n # 1
      BY <3>1
    <3> QED BY <3>2 DEF n
  <2> QED BY <2>1, <2>2, ThreadFacts
<1>2. pc[t] # Evaluating /\ k \in Nat
  BY <1>1, TurnMoves
<1>3. Balanced(t) /\ Guarded(t) /\ t \notin mixed /\ k \in 1 .. Len(konts) /\ konts[k].bot = t
  BY <1>1, <1>2 DEF StackOf
<1>4. Members(cf) = Members(bf) \ Members(p) /\ Distinct(cf) /\ cf \in Seq(Winds) /\ Members(p) \subseteq Members(bf)
  BY <1>1, <1>3, PopMembers DEF Balanced
<1>5. Layout(Pop(bs), cf)
  BY <1>1, <1>3, PopFits DEF Balanced
<1>6. new \in [Winds -> Int] /\ \A w \in Winds : new[w] = missed[t][w] + IF w \in Members(cf) THEN 1 ELSE 0
  <2>1. /\ \A w \in Winds : inside[t][w] = missed[t][w] + IF w \in Members(bf) THEN 1 ELSE 0
        /\ missed[t] \in [Winds -> Nat]
    BY <1>3, ThreadFacts DEF Balanced
  <2>2. new \in [Winds -> Int] /\ \A w \in Winds : new[w] = IF w \in Members(p) THEN inside[t][w] - 1 ELSE inside[t][w]
    BY <1>1
  <2> HIDE DEF new, cf, p
  <2> QED BY <1>4, <2>1, <2>2
<1>7. inside' = [inside EXCEPT ![t] = new] /\ befores' = [befores EXCEPT ![t] = cf]
      /\ UNCHANGED <<bottom, stamps, konts, static, missed, again, mixed>>
  BY DEF UnwindStackUntil, Members
<1>8. /\ befores' \in [Runners -> Seq(Winds)] /\ befores'[t] = cf
      /\ inside' \in [Runners -> [Winds -> Int]] /\ inside'[t] = new
      /\ \A u \in Runners : u # t => befores'[u] = befores[u] /\ inside'[u] = inside[u]
  <2> HIDE DEF cf, new
  <2> QED BY <1>4, <1>6, <1>7 DEF CallccInv, CallccTypes
<1>9. CallccInv'
  <2> DEFINE cs == Pop(bs)
             q == IF IsBlock(t, k) THEN Evaluating ELSE pc[t]
  <2>1. /\ cs \in Seq(Block) /\ Len(cs) = Len(bs) - 1 /\ \A i \in 1 .. Len(bs) - 1 : cs[i] = bs[i]
    BY <1>1, Popped
  <2>2. blocks' = [blocks EXCEPT ![t] = cs] /\ pc' = [pc EXCEPT ![t] = q]
        /\ jumped' = [jumped EXCEPT ![t] = IF IsBlock(t, k) THEN k ELSE @]
    BY <1>1 DEF UnwindStackUntil
  <2>3. q \in Turn /\ (q = Evaluating \/ q = pc[t])
    BY <1>1 DEF Turn
  <2> HIDE DEF cs, q, k
  <2>4. /\ blocks' \in [Runners -> Seq(Block)] /\ blocks'[t] = cs /\ pc' \in [Runners -> Turn] /\ pc'[t] = q
        /\ jumped' \in [Runners -> Nat]
        /\ \A u \in Runners : u # t => blocks'[u] = blocks[u] /\ pc'[u] = pc[u]
    BY <1>2, <2>1, <2>2, <2>3 DEF CallccInv, CallccTypes
  <2> HIDE DEF cf, new, p
  <2>5. CallccTypes'
    BY <1>7, <1>8, <2>4 DEF CallccInv, CallccTypes
  <2>6. \A u \in Runners : u # t => Same(u)
    BY <1>7, <1>8, <2>4 DEF Same
  <2>7. Balanced(t)'
    BY <1>4, <1>5, <1>6, <1>7, <1>8, <2>4 DEF Balanced, cs
  <2>8. cs # <<>> /\ \A i \in 1 .. Len(cs) : cs[i].stamp <= stamps[t]
    <3>1. Len(cs) # 0
      BY <1>1, <2>1
    <3>2. cs # <<>>
      BY <2>1, <3>1, EmptySeq
    <3>3. \A i \in 1 .. Len(cs) : i \in 1 .. Len(bs) - 1 /\ i \in 1 .. Len(bs)
      BY <1>1, <2>1
    <3> QED BY <1>1, <2>1, <3>2, <3>3
  <2>9. q # Evaluating => q.at = "unwind" /\ q.kont = k
    BY <1>1, <2>3 DEF k
  <2>12. Guarded(t)'
    <3>1. cs[1] = bs[1]
      <4> DEFINE n == Len(bs)
      <4>1. n \in Nat \ {0} /\ n # 1
        BY <1>1
      <4> HIDE DEF n
      <4>2. 1 \in 1 .. n - 1
        BY <4>1
      <4> QED BY <2>1, <4>2 DEF n
    <3> QED BY <1>3, <1>7, <2>4, <3>1, GuardKept
  <2>10. StackOf(t)'
    BY <1>1, <1>3, <1>7, <2>4, <2>7, <2>8, <2>9, <2>12 DEF StackOf
  <2>11. \A n \in 1 .. Len(konts) : konts[n].bot = t => Traced(blocks'[t], konts[n])
    <3> SUFFICES ASSUME NEW n \in 1 .. Len(konts), konts[n].bot = t PROVE Traced(cs, konts[n])
      BY <2>4
    <3>1. konts[n] \in Kont /\ Len(konts[n].blocks) >= 1 /\ Traced(bs, konts[n])
      BY KontFacts
    <3> QED BY <1>1, <3>1, TracedPop DEF cs
  <2> QED BY <1>7, <2>5, <2>6, <2>10, <2>11, Frame
<1> QED BY <1>9

LEMMA UnwindBottomRight ==
  ASSUME CallccInv, NEW t \in Runners, UnwindBottom(t)
  PROVE  CallccInv'
<1> DEFINE bs == blocks[t]
           bf == befores[t]
           p == bottom[t]
           cf == SubSeq(bf, 1, Len(bf) - Len(p))
           k == pc[t].kont
           q == [pc[t] EXCEPT !.at = "install"]
           new == [w \in Winds |-> IF w \in Members(p) THEN inside[t][w] - 1 ELSE inside[t][w]]
           gone == [w \in Winds |-> IF w \in Members(cf) THEN missed[t][w] + 1 ELSE missed[t][w]]
<1>1. /\ bs \in Seq(Block) /\ bs # <<>> /\ StackOf(t) /\ bf \in Seq(Winds) /\ Len(bs) = 1
      /\ inside[t] \in [Winds -> Int] /\ missed[t] \in [Winds -> Nat] /\ p \in Seq(Winds)
      /\ pc[t] \in Turn /\ pc[t].at = "unwind" /\ again[t] \subseteq Winds
      /\ \A i \in 1 .. Len(bs) : bs[i].stamp <= stamps[t]
  BY ThreadFacts DEF UnwindBottom
<1>2. pc[t] # Evaluating /\ q \in Turn /\ q.at = "install" /\ q.kont = k /\ q # Evaluating
  BY <1>1, TurnMoves
<1>3. Balanced(t) /\ Guarded(t) /\ t \notin mixed /\ k \in 1 .. Len(konts) /\ konts[k].bot = t
  BY <1>1, <1>2 DEF StackOf
<1>4. /\ bs[1].winds \in Seq(Winds) /\ Len(bf) = Len(bs[1].winds)
      /\ \A j \in 1 .. Len(bf) : bf[j] = bs[1].winds[j]
  BY <1>1, <1>3, BottomFits DEF Balanced
<1>5. /\ Len(p) <= Len(bf) /\ \A j \in 1 .. Len(p) : bf[Len(bf) - Len(p) + j] = p[j]
      /\ \A j \in 1 .. Len(bf) - Len(p) : bf[j] \in again[t]
  <2> DEFINE r == bs[1].winds
             n == Len(bf)
             m == Len(p)
  <2>4. Len(r) = n /\ n \in Nat /\ m \in Nat /\ \A j \in 1 .. n : bf[j] = r[j]
    BY <1>1, <1>4
  <2>5. Guards(r, p, again[t])
    BY <1>3 DEF Guarded
  <2>6. /\ m <= Len(r) /\ (\A j \in 1 .. m : r[Len(r) - m + j] = p[j])
        /\ \A j \in 1 .. Len(r) - m : r[j] \in again[t]
    BY <2>5 DEF Guards
  <2>1. /\ n \in Nat /\ m \in Nat /\ m <= n /\ (\A j \in 1 .. m : r[n - m + j] = p[j])
        /\ (\A j \in 1 .. n - m : r[j] \in again[t]) /\ \A j \in 1 .. n : bf[j] = r[j]
    <3> HIDE DEF r, n, m
    <3> QED BY <2>4, <2>6
  <2> HIDE DEF r, n, m
  <2>2. (\A j \in 1 .. m : n - m + j \in 1 .. n) /\ \A j \in 1 .. n - m : j \in 1 .. n
    BY <2>1
  <2>3. (\A j \in 1 .. m : bf[n - m + j] = p[j]) /\ \A j \in 1 .. n - m : bf[j] \in again[t]
    BY <2>1, <2>2
  <2> QED BY <2>1, <2>3 DEF n, m
<1>6. /\ Members(cf) = Members(bf) \ Members(p) /\ cf \in Seq(Winds) /\ Members(p) \subseteq Members(bf)
  BY <1>1, <1>3, <1>5, SplitMembers DEF Balanced
<1>7. Members(cf) \subseteq again[t]
  <2> DEFINE h == Len(bf) - Len(p)
  <2>4. Len(bf) \in Nat /\ Len(p) \in Nat /\ Len(p) <= Len(bf)
    BY <1>1, <1>5
  <2>1. h \in 0 .. Len(bf) /\ \A j \in 1 .. h : bf[j] \in again[t]
    <3>1. \A j \in 1 .. h : bf[j] \in again[t]
      BY <1>5
    <3> DEFINE n == Len(bf)
               m == Len(p)
    <3>2. n \in Nat /\ m \in Nat /\ m <= n
      BY <2>4
    <3> HIDE DEF n, m
    <3>3. n - m \in 0 .. n
      BY <3>2
    <3>4. h \in 0 .. Len(bf)
      BY <3>3 DEF n, m
    <3> QED BY <3>1, <3>4
  <2> HIDE DEF h
  <2>2. Len(SubSeq(bf, 1, h)) = h /\ \A j \in 1 .. h : SubSeq(bf, 1, h)[j] = bf[j]
    BY <1>1, <2>1, Shortened
  <2>3. cf = SubSeq(bf, 1, h)
    BY DEF h
  <2> HIDE DEF cf
  <2> QED BY <2>1, <2>2, <2>3 DEF Members
<1>8. new \in [Winds -> Int] /\ gone \in [Winds -> Nat] /\ \A w \in Winds : new[w] = gone[w]
  <2>1. \A w \in Winds : inside[t][w] = missed[t][w] + IF w \in Members(bf) THEN 1 ELSE 0
    BY <1>3 DEF Balanced
  <2> HIDE DEF cf, p
  <2> QED BY <1>1, <1>6, <2>1
<1>9. \A w \in Winds : gone[w] > 0 => w \in again[t]
  <2>1. \A w \in Winds : missed[t][w] > 0 => w \in again[t]
    BY <1>1 DEF StackOf
  <2> HIDE DEF cf
  <2> QED BY <1>7, <2>1
<1>10. /\ inside' = [inside EXCEPT ![t] = new] /\ befores' = [befores EXCEPT ![t] = cf]
       /\ missed' = [missed EXCEPT ![t] = gone] /\ bottom' = [bottom EXCEPT ![t] = <<>>]
       /\ pc' = [pc EXCEPT ![t] = q] /\ UNCHANGED <<blocks, stamps, konts, static, again, mixed, jumped>>
  BY DEF UnwindBottom
<1> HIDE DEF new, gone, cf, q, p
<1>11. /\ befores' \in [Runners -> Seq(Winds)] /\ bottom' \in [Runners -> Seq(Winds)]
       /\ inside' \in [Runners -> [Winds -> Int]] /\ missed' \in [Runners -> [Winds -> Nat]]
       /\ pc' \in [Runners -> Turn] /\ bottom'[t] = <<>> /\ inside'[t] = new /\ missed'[t] = gone
       /\ pc'[t] = q
       /\ \A u \in Runners : u # t => /\ befores'[u] = befores[u] /\ inside'[u] = inside[u]
                                      /\ bottom'[u] = bottom[u] /\ missed'[u] = missed[u] /\ pc'[u] = pc[u]
  <2>1. <<>> \in Seq(Winds)
    OBVIOUS
  <2> QED BY <1>2, <1>6, <1>8, <1>10, <2>1 DEF CallccInv, CallccTypes
<1>12. CallccTypes'
  BY <1>10, <1>11 DEF CallccInv, CallccTypes
<1>13. \A u \in Runners : u # t => Same(u)
  BY <1>10, <1>11 DEF Same
<1>14. Unwound(t)'
  BY <1>8, <1>11 DEF Unwound
<1>15. StackOf(t)'
  BY <1>1, <1>2, <1>3, <1>9, <1>10, <1>11, <1>14 DEF StackOf
<1>16. \A n \in 1 .. Len(konts) : konts[n].bot = t => Traced(blocks'[t], konts[n])
  BY <1>10, KontFacts
<1> QED BY <1>10, <1>12, <1>13, <1>15, <1>16, Frame

LEMMA CallccStep ==
  ASSUME CallccInv, [CallccNext]_callccVars
  PROVE  CallccInv'
<1>1. ASSUME NEW t \in Runners, CallCc(t) PROVE CallccInv'
  BY <1>1, CaptureRight
<1>2. ASSUME NEW t \in Runners, CallCcReturn(t) PROVE CallccInv'
  BY <1>2, ReturnRight
<1>3. ASSUME NEW t \in Runners, DynamicWindExit(t) PROVE CallccInv'
  BY <1>3, WindExitRight
<1>4. ASSUME NEW t \in Runners, NEW w \in Winds, DynamicWind(t, w) PROVE CallccInv'
  BY <1>4, WindRight
<1>5. ASSUME NEW t \in Runners, NEW k \in 1 .. Len(konts), ApplyContinuation(t, k) PROVE CallccInv'
  BY <1>5, ApplyRight
<1>6. ASSUME NEW t \in Runners, UnwindStackUntil(t) PROVE CallccInv'
  BY <1>6, UnwindRight
<1>7. ASSUME NEW t \in Runners, CallccInstallStack(t) PROVE CallccInv'
  BY <1>7, InstallRight
<1>8. ASSUME NEW t \in Runners, CallccInitStack(t) PROVE CallccInv'
  BY <1>8, InitStackRight
<1>11. ASSUME NEW t \in Runners, UnwindBottom(t) PROVE CallccInv'
  BY <1>11, UnwindBottomRight
<1>9. CASE UNCHANGED callccVars
  BY <1>9 DEF callccVars, CallccInv, CallccTypes, StacksInv, StackOf, Balanced, Unwound,
              Guarded, Guards, KontsInv, Captured, TraceInv
<1>10. CASE CallccNext
  BY <1>1, <1>2, <1>3, <1>4, <1>5, <1>6, <1>7, <1>8, <1>10, <1>11 DEF CallccNext
<1> QED BY <1>9, <1>10

LEMMA CallccAlways == CallccSpec => []CallccInv
<1>1. InitCallcc => CallccInv
  BY StartsRight
<1>2. CallccInv /\ [CallccNext]_callccVars => CallccInv'
  BY CallccStep
<1> QED BY <1>1, <1>2, PTL DEF CallccSpec

LEMMA BalancedStacks == CallccInv => WindsBalanced
<1> SUFFICES ASSUME CallccInv, NEW t \in Runners, pc[t] = Evaluating, t \notin mixed
             PROVE  /\ \A w \in Winds : inside[t][w] = OnStack(t, w) + missed[t][w]
                    /\ Len(befores[t]) = Cardinality(Entered(blocks[t]))
                    /\ \A i \in 1 .. Len(befores[t]) : OnStack(t, befores[t][i]) = 1
                    /\ \A w \in Winds : missed[t][w] > 0 => w \in again[t]
  BY DEF WindsBalanced
<1>1. /\ blocks[t] \in Seq(Block) /\ befores[t] \in Seq(Winds) /\ StackOf(t)
      /\ missed[t] \in [Winds -> Nat]
  BY ThreadFacts
<1>2. Balanced(t)
  BY <1>1 DEF StackOf
<1>3. /\ Cardinality(Entered(blocks[t])) = Len(befores[t])
      /\ \A w \in Winds : OnStack(t, w) = IF w \in Members(befores[t]) THEN 1 ELSE 0
  BY <1>1, <1>2, WindsCounted DEF Balanced, OnStack
<1>4. \A w \in Winds : inside[t][w] = OnStack(t, w) + missed[t][w]
  BY <1>1, <1>2, <1>3 DEF Balanced
<1>5. ASSUME NEW i \in 1 .. Len(befores[t]) PROVE OnStack(t, befores[t][i]) = 1
  <2>1. befores[t][i] \in Members(befores[t])
    BY DEF Members
  <2>2. befores[t][i] \in Winds
    BY <1>1
  <2> QED BY <1>3, <2>1, <2>2
<1>6. \A w \in Winds : missed[t][w] > 0 => w \in again[t]
  BY <1>1 DEF StackOf
<1> QED BY <1>3, <1>4, <1>5, <1>6

(* However continuations are captured, left and entered again, a running   *)
(* thread has run the before of a dynamic-wind once more than its after    *)
(* exactly when the wind is on its stack, but for the times it left the    *)
(* wind without its after, which only happens to a wind above the bottom   *)
(* that a continuation put back; and its before list holds the winds of    *)
(* its stack: callcc.c and bexit.scm, for any threads, winds and bounds.   *)
THEOREM WindsAreBalanced == CallccSpec => []WindsBalanced
BY CallccAlways, BalancedStacks, PTL

(* The stack of a thread from below the block of the continuation it       *)
(* applies is the one that was captured.                                   *)
LEMMA SameBelow ==
  ASSUME CallccInv, NEW t \in Runners, NEW n \in 1 .. Len(konts), konts[n].bot = t, IsBlock(t, n)
  PROVE  Pop(blocks[t]) = Pop(konts[n].blocks)
<1> DEFINE bs == blocks[t]
           cs == konts[n].blocks
<1>1. bs \in Seq(Block) /\ bs # <<>> /\ cs \in Seq(Block) /\ cs # <<>> /\ Traced(bs, konts[n])
  BY ThreadFacts, KontFacts
<1>2. Len(bs) = Len(cs) /\ Len(bs) \in Nat /\ bs[Len(cs)].stamp = konts[n].stamp
  BY <1>1 DEF IsBlock, Top
<1>3. \A i \in 1 .. Len(cs) - 1 : bs[i] = cs[i]
  BY <1>1, <1>2 DEF Traced
<1> HIDE DEF bs, cs
<1>4. /\ Pop(bs) \in Seq(Block) /\ Len(Pop(bs)) = Len(bs) - 1
      /\ \A i \in 1 .. Len(bs) - 1 : Pop(bs)[i] = bs[i]
  BY <1>1, Popped
<1>5. /\ Pop(cs) \in Seq(Block) /\ Len(Pop(cs)) = Len(cs) - 1
      /\ \A i \in 1 .. Len(cs) - 1 : Pop(cs)[i] = cs[i]
  BY <1>1, Popped
<1>6. Len(Pop(bs)) = Len(Pop(cs)) /\ \A i \in 1 .. Len(Pop(bs)) : Pop(bs)[i] = Pop(cs)[i]
  BY <1>2, <1>3, <1>4, <1>5
<1>7. Pop(bs) = Pop(cs)
  BY <1>4, <1>5, <1>6, SeqEqual
<1> QED BY <1>7 DEF bs, cs

(* One thread's step ends an application in its own way only.              *)
LEMMA OneTurns ==
  ASSUME CallccInv, CallccNext, NEW t \in Runners, pc[t] # Evaluating, pc'[t] = Evaluating
  PROVE  UnwindStackUntil(t) \/ CallccInitStack(t)
<1>1. pc \in [Runners -> Turn] /\ pc[t] \in Turn
  BY DEF CallccInv, CallccTypes
<1>2. PICK u \in Runners :
        \/ CallCc(u) \/ CallCcReturn(u) \/ DynamicWindExit(u)
        \/ \E w \in Winds : DynamicWind(u, w)
        \/ \E k \in 1 .. Len(konts) : ApplyContinuation(u, k)
        \/ UnwindStackUntil(u) \/ UnwindBottom(u) \/ CallccInstallStack(u) \/ CallccInitStack(u)
  BY DEF CallccNext
<1>3. pc' # pc
  BY <1>1
<1>4. \/ \E k \in 1 .. Len(konts) : ApplyContinuation(u, k)
      \/ UnwindStackUntil(u) \/ UnwindBottom(u) \/ CallccInstallStack(u) \/ CallccInitStack(u)
  BY <1>2, <1>3 DEF CallCc, CallCcReturn, DynamicWindExit, DynamicWind
<1>5. u = t
  <2> SUFFICES ASSUME u # t PROVE FALSE
    OBVIOUS
  <2>1. pc'[t] = pc[t]
    BY <1>1, <1>4 DEF ApplyContinuation, UnwindStackUntil, UnwindBottom, CallccInstallStack, CallccInitStack
  <2> QED BY <2>1
<1>6. ~ \E k \in 1 .. Len(konts) : ApplyContinuation(t, k)
  BY DEF ApplyContinuation, Ready
<1>7. ~ CallccInstallStack(t)
  <2> SUFFICES ASSUME CallccInstallStack(t) PROVE FALSE
    OBVIOUS
  <2>1. pc[t].at = "install" /\ pc'[t] = [pc[t] EXCEPT !.at = "init"]
    BY <1>1 DEF CallccInstallStack
  <2>2. [pc[t] EXCEPT !.at = "init"] # Evaluating
    BY <1>1, <2>1, TurnMoves
  <2> QED BY <2>1, <2>2
<1>8. ~ UnwindBottom(t)
  <2> SUFFICES ASSUME UnwindBottom(t) PROVE FALSE
    OBVIOUS
  <2>1. pc[t].at = "unwind" /\ pc'[t] = [pc[t] EXCEPT !.at = "install"]
    BY <1>1 DEF UnwindBottom
  <2>2. [pc[t] EXCEPT !.at = "install"] # Evaluating
    BY <1>1, <2>1, TurnMoves
  <2> QED BY <2>1, <2>2
<1> QED BY <1>4, <1>5, <1>6, <1>7, <1>8

LEMMA Lands ==
  ASSUME CallccInv, CallccInv', CallccNext
  PROVE  Landing
<1> SUFFICES ASSUME NEW t \in Runners, pc[t] # Evaluating, pc'[t] = Evaluating, t \notin mixed'
             PROVE  /\ jumped'[t] = pc[t].kont
                    /\ befores'[t] = konts[pc[t].kont].befores
                    /\ blocks'[t] = Pop(konts[pc[t].kont].blocks)
  BY DEF Landing
<1> DEFINE n == pc[t].kont
<1>1. /\ StackOf(t) /\ pc[t] \in Turn /\ blocks[t] \in Seq(Block) /\ blocks[t] # <<>>
      /\ blocks \in [Runners -> Seq(Block)] /\ befores \in [Runners -> Seq(Winds)]
      /\ pc \in [Runners -> Turn] /\ jumped \in [Runners -> Nat]
  BY ThreadFacts DEF CallccInv, CallccTypes
<1>2. n \in 1 .. Len(konts) /\ konts[n].bot = t
  BY <1>1 DEF StackOf
<1>3. /\ konts[n].blocks \in Seq(Block) /\ konts[n].befores \in Seq(Winds) /\ Captured(konts[n])
      /\ konts[n].blocks # <<>>
  BY <1>2, KontFacts
<1>4. CASE UnwindStackUntil(t)
  <2>1. IsBlock(t, n)
    <3>1. pc'[t] = IF IsBlock(t, n) THEN Evaluating ELSE pc[t]
      BY <1>1, <1>4 DEF UnwindStackUntil
    <3> QED BY <3>1
  <2>2. blocks'[t] = Pop(blocks[t]) /\ jumped'[t] = n
    BY <1>1, <1>4, <2>1 DEF UnwindStackUntil
  <2>3. Pop(blocks[t]) = Pop(konts[n].blocks)
    BY <1>2, <2>1, SameBelow
  <2>4. Layout(Pop(konts[n].blocks), konts[n].befores)
    BY <1>3, BareFits DEF Captured
  <2>5. Layout(blocks'[t], befores'[t])
    BY DEF CallccInv, StacksInv, StackOf, Balanced
  <2>6. blocks'[t] \in Seq(Block) /\ befores'[t] \in Seq(Winds)
    BY DEF CallccInv, CallccTypes
  <2>7. befores'[t] = konts[n].befores
    <3> DEFINE x == blocks'[t]
    <3>1. x \in Seq(Block) /\ Layout(x, befores'[t]) /\ Layout(x, konts[n].befores)
      BY <2>2, <2>3, <2>4, <2>5, <2>6
    <3> HIDE DEF x
    <3> QED BY <1>3, <2>6, <3>1, OneLayout
  <2> QED BY <2>2, <2>3, <2>7
<1>5. CASE CallccInitStack(t)
  <2>1. static.by = t
    <3> SUFFICES ASSUME static.by # t PROVE FALSE
      OBVIOUS
    <3>1. t \in mixed'
      BY <1>5 DEF CallccInitStack
    <3> QED BY <3>1
  <2>2. pc[t].at = "init" /\ static.kont = n /\ blocks[t] = konts[n].blocks
    BY <1>1, <1>5, <2>1 DEF StackOf, CallccInitStack
  <2>3. blocks'[t] = Pop(blocks[t]) /\ befores'[t] = konts[n].befores /\ jumped'[t] = n
    BY <1>1, <1>5, <2>1, <2>2 DEF CallccInitStack
  <2> QED BY <2>2, <2>3
<1> QED BY <1>4, <1>5, OneTurns

(* A thread that applies a continuation arrives, whatever other threads    *)
(* apply at the same time, in the call/cc that captured it, with the stack *)
(* and the before list it had then: apply_continuation and                 *)
(* unwind-stack-until!, for any threads, winds and bounds.                 *)
THEOREM ContinuationsLand == CallccSpec => LandsThere
<1>1. CallccInv /\ CallccInv' /\ [CallccNext]_callccVars => [Landing]_callccVars
  BY Lands
<1> QED BY <1>1, CallccAlways, PTL DEF CallccSpec, LandsThere

-----------------------------------------------------------------------------
(* The symbol table.  A bucket holds symbols with a name, each symbol with *)
(* a name is in the bucket of the name, and no two have the same.          *)
AnyName == Stems \X Nat

SymbolTypes ==
  /\ string \in Seq(AnyName \cup {NoString}) /\ symtab \in [0 .. 1 -> Seq(Nat)] /\ counter \in Nat
  /\ caller \in [Callers -> Nat] /\ \A t \in Callers : caller[t] # 0 => caller[t] \in Symbols

Bucket(s) == symtab[HashPower(string[s])]

InTable ==
  \A h \in 0 .. 1 : \A s \in Members(symtab[h]) :
    /\ s \in Symbols /\ string[s] # NoString
    /\ s \notin renamed => HashPower(string[s]) = h

Found == \A s \in Symbols : string[s] # NoString => s \in Members(Bucket(s))

OneName == \A r, s \in Symbols : string[r] # NoString /\ string[r] = string[s] => r = s

Answered ==
  symresult.kind = "symbol" =>
    /\ symresult.is \in Symbols /\ string[symresult.is] # NoString
    /\ string[symresult.is] = symresult.of \/ symresult.is \in renamed

SymbolsInv == SymbolTypes /\ InTable /\ Found /\ OneName /\ Answered

(* The weak pointer.                                                       *)
WeakTypes ==
  /\ alive \subseteq Objects /\ roots \subseteq alive
  /\ weak \in [data : Values \cup {Null}, ref : Values \cup {Null}, crashed : BOOLEAN,
               datalink : Values, reflink : Values]

WeakInv == WeakTypes /\ WeakExact

TablesInv == SymbolsInv /\ WeakInv

LEMMA MembersEnd ==
  ASSUME NEW s \in Seq(Nat), NEW x \in Nat
  PROVE  Append(s, x) \in Seq(Nat) /\ Members(Append(s, x)) = Members(s) \cup {x}
<1> DEFINE n == Len(s)
           c == Append(s, x)
<1>1. /\ Len(c) = n + 1 /\ n \in Nat /\ c[n + 1] = x /\ (\A i \in 1 .. n : c[i] = s[i]) /\ c \in Seq(Nat)
  BY Pushed
<1> HIDE DEF c, n
<1>2. (\A i \in 1 .. n + 1 : i \in 1 .. n \/ i = n + 1) /\ n + 1 \in 1 .. n + 1 /\ \A i \in 1 .. n : i \in 1 .. n + 1
  BY <1>1
<1>3. Members(c) = {c[i] : i \in 1 .. n + 1} /\ Members(s) = {s[i] : i \in 1 .. n}
  BY <1>1 DEF Members, n
<1>4. Members(c) = Members(s) \cup {x}
  BY <1>1, <1>2, <1>3
<1> QED BY <1>1, <1>4 DEF c

LEMMA MembersFront ==
  ASSUME NEW s \in Seq(Nat), NEW x \in Nat
  PROVE  <<x>> \o s \in Seq(Nat) /\ Members(<<x>> \o s) = Members(s) \cup {x}
<1> DEFINE n == Len(s)
           c == <<x>> \o s
<1>1. /\ Len(c) = n + 1 /\ n \in Nat /\ c[1] = x /\ (\A i \in 1 .. n : c[i + 1] = s[i]) /\ c \in Seq(Nat)
  OBVIOUS
<1> HIDE DEF c, n
<1>2. 1 \in 1 .. n + 1 /\ \A i \in 1 .. n : i + 1 \in 1 .. n + 1
  BY <1>1
<1>3. Members(c) = {c[i] : i \in 1 .. n + 1} /\ Members(s) = {s[i] : i \in 1 .. n}
  BY <1>1 DEF Members, n
<1>4. ASSUME NEW y \in Members(c) PROVE y \in Members(s) \cup {x}
  <2>1. PICK i \in 1 .. n + 1 : y = c[i]
    BY <1>3
  <2>2. CASE i = 1
    BY <1>1, <2>1, <2>2
  <2>3. CASE i # 1
    <3> DEFINE j == i - 1
    <3>1. j \in 1 .. n /\ j + 1 = i
      BY <1>1, <2>3
    <3> HIDE DEF j
    <3>2. y = s[j]
      BY <1>1, <2>1, <3>1
    <3> QED BY <1>3, <3>1, <3>2
  <2> QED BY <2>2, <2>3
<1>5. ASSUME NEW y \in Members(s) PROVE y \in Members(c)
  <2>1. PICK i \in 1 .. n : y = s[i]
    BY <1>3
  <2>2. c[i + 1] = y /\ i + 1 \in 1 .. n + 1
    BY <1>1, <1>2, <2>1
  <2> QED BY <1>3, <2>2
<1>6. x \in Members(c)
  BY <1>1, <1>2, <1>3
<1>7. Members(c) = Members(s) \cup {x}
  BY <1>4, <1>5, <1>6
<1> QED BY <1>1, <1>7 DEF c

(* Where the walk along a bucket ends.                                     *)
LEMMA Walk ==
  ASSUME NEW bucket \in Seq(Nat), NEW strings, NEW name
  PROVE  LET i == Position(bucket, strings, name)
         IN /\ i = 0 => \A s \in Members(bucket) : strings[s] \notin {name, NoString}
            /\ i # 0 => i \in 1 .. Len(bucket) /\ strings[bucket[i]] \in {name, NoString}
<1> DEFINE At == {i \in 1 .. Len(bucket) : strings[bucket[i]] \in {name, NoString}}
           p == Position(bucket, strings, name)
<1>1. p = IF At = {} THEN 0 ELSE Min(At)
  BY DEF Position
<1>2. At \in SUBSET Nat /\ At \subseteq 1 .. Len(bucket)
  OBVIOUS
<1>3. \A i \in At : strings[bucket[i]] \in {name, NoString}
  OBVIOUS
<1>4. CASE At = {}
  <2>1. p = 0 /\ p \notin 1 .. Len(bucket)
    BY <1>1, <1>4
  <2>2. \A i \in 1 .. Len(bucket) : strings[bucket[i]] \notin {name, NoString}
    BY <1>4
  <2>3. \A s \in Members(bucket) : strings[s] \notin {name, NoString}
    BY <2>2 DEF Members
  <2> QED BY <2>1, <2>3
<1>5. CASE At # {}
  <2> HIDE DEF At
  <2>1. \E x \in At : \A y \in At : x <= y
    BY <1>2, <1>5, LeastNatural
  <2>2. Min(At) \in At
    BY <2>1 DEF Min
  <2>3. p \in At
    BY <1>1, <1>5, <2>2
  <2> HIDE DEF p
  <2>4. p \in 1 .. Len(bucket) /\ p # 0
    BY <1>2, <2>3
  <2> QED BY <1>3, <2>3, <2>4 DEF p
<1> QED BY <1>4, <1>5

LEMMA Hashes == \A name \in AnyName : HashPower(name) \in 0 .. 1 /\ HashPowerLen(name) = HashPower(name)
<1> SUFFICES ASSUME NEW name \in AnyName PROVE HashPower(name) \in 0 .. 1 /\ HashPowerLen(name) = HashPower(name)
  OBVIOUS
<1>1. name[2] \in Nat
  BY DEF AnyName
<1> DEFINE n == name[2]
<1>2. n % 2 \in 0 .. 1
  <2> HIDE DEF n
  <2> QED BY <1>1 DEF n
<1> QED BY <1>2 DEF HashPower, HashPowerLen

LEMMA Strings ==
  ASSUME TablesConstants, SymbolsInv
  PROVE  /\ NoString \notin AnyName /\ Len(string) \in Nat
         /\ \A s \in Symbols : string[s] # NoString =>
              /\ string[s] \in AnyName /\ HashPower(string[s]) \in 0 .. 1
              /\ s \in Members(symtab[HashPower(string[s])])
<1>1. NoString \notin AnyName
  BY DEF TablesConstants, NoString, AnyName
<1>2. string \in Seq(AnyName \cup {NoString})
  BY DEF SymbolsInv, SymbolTypes
<1>3. Len(string) \in Nat /\ \A s \in Symbols : string[s] \in AnyName \cup {NoString}
  BY <1>2 DEF Symbols
<1>4. \A s \in Symbols : string[s] # NoString => string[s] \in AnyName
  BY <1>3
<1> QED BY <1>1, <1>3, <1>4, Hashes DEF SymbolsInv, Found, Bucket

(* A symbol, old or new, gets a name that nobody has.                      *)
Named(s, strings) ==
  /\ strings \in Seq(AnyName \cup {NoString}) /\ s \in 1 .. Len(strings)
  /\ Len(string) <= Len(strings) /\ \A i \in Symbols : strings[i] = string[i]
  /\ \A i \in 1 .. Len(strings) : i # s => i \in Symbols
  /\ renamed \subseteq renamed' /\ (s \in Symbols /\ string[s] # NoString => s \in renamed')

LEMMA GennameRight ==
  ASSUME TablesConstants, SymbolsInv, NEW s, NEW strings, NEW prefix \in Stems,
         Named(s, strings), SymbolGenname(s, strings, prefix)
  PROVE  /\ string' \in Seq(AnyName \cup {NoString}) /\ symtab' \in [0 .. 1 -> Seq(Nat)]
         /\ counter' \in Nat /\ Symbols \subseteq Symbols' /\ Symbols' = 1 .. Len(strings)
         /\ InTable' /\ Found' /\ OneName' /\ Answered'
<1> DEFINE n == Min(FreeNumbers(prefix))
           name == <<prefix, n>>
           h == HashPower(name)
           M == Len(strings)
<1>1. n \in FreeNumbers(prefix)
  <2> DEFINE T == FreeNumbers(prefix)
  <2>1. T \in SUBSET Nat
    <3>1. counter \in Nat /\ MaxSymbols \in Nat
      BY DEF SymbolsInv, SymbolTypes, TablesConstants
    <3>2. \A m \in counter + 1 .. MaxSymbols : m \in Nat
      BY <3>1
    <3> QED BY <3>2 DEF FreeNumbers
  <2>4. T # {}
    BY DEF SymbolGenname
  <2> HIDE DEF T
  <2>2. \E x \in T : \A y \in T : x <= y
    BY <2>1, <2>4, LeastNatural
  <2>3. Min(T) \in T
    BY <2>2 DEF Min
  <2> QED BY <2>3 DEF T
<1>2. n \in Nat /\ ~ SymbolExistsSansLock(name)
  BY <1>1 DEF FreeNumbers, SymbolsInv, SymbolTypes
<1>3. /\ string' = [strings EXCEPT ![s] = name] /\ symtab' = [symtab EXCEPT ![h] = <<s>> \o @]
      /\ counter' = n /\ symresult' = [kind |-> "name", of |-> s, is |-> name]
  BY DEF SymbolGenname
<1> HIDE DEF n
<1>4. name \in AnyName
  BY <1>2 DEF AnyName
<1>5. h \in 0 .. 1
  BY <1>4, Hashes
<1>6. symtab \in [0 .. 1 -> Seq(Nat)] /\ symtab[h] \in Seq(Nat)
  BY <1>5 DEF SymbolsInv, SymbolTypes
<1>7. \A r \in Members(symtab[h]) : string[r] # name
  <2> DEFINE at == Position(symtab[h], string, name)
  <2>1. at = 0
    BY <1>2 DEF SymbolExistsSansLock
  <2> HIDE DEF name, h
  <2>2. at = 0 => \A r \in Members(symtab[h]) : string[r] \notin {name, NoString}
    BY <1>6, Walk
  <2> HIDE DEF at
  <2> QED BY <2>1, <2>2
<1> HIDE DEF name, h
<1>8. M \in Nat /\ s \in 1 .. M /\ s \in Nat /\ Symbols \subseteq 1 .. M
  <2>1. strings \in Seq(AnyName \cup {NoString}) /\ s \in 1 .. M /\ Len(string) <= M /\ Len(string) \in Nat
    BY Strings DEF Named
  <2>2. M \in Nat
    BY <2>1
  <2> HIDE DEF M
  <2> QED BY <2>1, <2>2 DEF Symbols
<1>9. /\ string' \in Seq(AnyName \cup {NoString}) /\ Len(string') = M /\ string'[s] = name
      /\ \A r \in 1 .. M : r # s => string'[r] = strings[r]
  BY <1>3, <1>4, <1>8, Replaced DEF Named
<1>10. Symbols' = 1 .. M
  BY <1>9 DEF Symbols
<1>11. \A r \in 1 .. M : r # s => r \in Symbols /\ string'[r] = string[r]
  BY <1>9 DEF Named
<1>12. <<s>> \o symtab[h] \in Seq(Nat) /\ Members(<<s>> \o symtab[h]) = Members(symtab[h]) \cup {s}
  BY <1>6, <1>8, MembersFront
<1>13. symtab' \in [0 .. 1 -> Seq(Nat)] /\ symtab'[h] = <<s>> \o symtab[h] /\ \A g \in 0 .. 1 : g # h => symtab'[g] = symtab[g]
  BY <1>3, <1>5, <1>6, <1>12
<1>14. \A g \in 0 .. 1 : /\ Members(symtab[g]) \subseteq Members(symtab'[g])
                         /\ \A r \in Members(symtab'[g]) : r \in Members(symtab[g]) \/ (r = s /\ g = h)
  BY <1>12, <1>13
<1>15. NoString \notin AnyName
  BY Strings
<1>16. InTable'
  <2> SUFFICES ASSUME NEW g \in 0 .. 1, NEW r \in Members(symtab'[g])
               PROVE  /\ r \in Symbols' /\ string'[r] # NoString
                      /\ r \notin renamed' => HashPower(string'[r]) = g
    BY DEF InTable
  <2>1. CASE r = s /\ g = h
    BY <1>4, <1>8, <1>9, <1>10, <1>15, <2>1 DEF h
  <2>2. CASE r \in Members(symtab[g])
    <3>1. /\ r \in Symbols /\ string[r] # NoString
          /\ r \notin renamed => HashPower(string[r]) = g
      BY <2>2 DEF SymbolsInv, InTable
    <3>2. CASE r = s
      <4>1. r \in renamed'
        BY <3>1, <3>2 DEF Named
      <4> QED BY <1>4, <1>8, <1>9, <1>10, <1>15, <3>2, <4>1
    <3>3. CASE r # s
      <4>1. r \in 1 .. M /\ string'[r] = string[r]
        BY <1>8, <1>11, <3>1, <3>3
      <4>2. r \notin renamed' => r \notin renamed
        BY DEF Named
      <4> QED BY <1>10, <3>1, <4>1, <4>2
    <3> QED BY <3>2, <3>3
  <2> QED BY <1>14, <2>1, <2>2
<1>17. Found'
  <2> SUFFICES ASSUME NEW r \in Symbols', string'[r] # NoString
               PROVE  r \in Members(symtab'[HashPower(string'[r])])
    BY DEF Found, Bucket
  <2>1. CASE r = s
    BY <1>9, <1>12, <1>13, <2>1 DEF h
  <2>2. CASE r # s
    <3>1. r \in Symbols /\ string'[r] = string[r]
      BY <1>10, <1>11, <2>2
    <3>2. r \in Members(symtab[HashPower(string[r])]) /\ HashPower(string[r]) \in 0 .. 1
      BY <3>1, Strings
    <3> QED BY <1>14, <3>1, <3>2
  <2> QED BY <2>1, <2>2
<1>18. ASSUME NEW r \in 1 .. M, r # s PROVE string'[r] # name
  <2> SUFFICES ASSUME string'[r] = name PROVE FALSE
    OBVIOUS
  <2>1. r \in Symbols /\ string[r] = name
    BY <1>11, <1>18
  <2>2. string[r] # NoString
    BY <1>4, <1>15, <2>1
  <2>3. r \in Members(symtab[h])
    BY <2>1, <2>2, Strings DEF h
  <2> QED BY <1>7, <2>1, <2>3
<1>19. OneName'
  <2> SUFFICES ASSUME NEW r \in Symbols', NEW q \in Symbols', string'[r] # NoString, string'[r] = string'[q]
               PROVE  r = q
    BY DEF OneName
  <2>1. CASE r # s /\ q # s
    BY <1>10, <1>11, <2>1 DEF SymbolsInv, OneName
  <2>2. CASE r = s \/ q = s
    BY <1>9, <1>10, <1>18, <2>2
  <2> QED BY <2>1, <2>2
<1>20. Answered'
  BY <1>3 DEF Answered
<1>21. counter' \in Nat
  BY <1>2, <1>3
<1> HIDE DEF M
<1> QED BY <1>8, <1>9, <1>10, <1>13, <1>16, <1>17, <1>19, <1>20, <1>21 DEF M

LEMMA InternRight ==
  ASSUME TablesConstants, SymbolsInv, NEW t \in Callers, NEW name \in AnyName, BstringToSymbol(t, name)
  PROVE  SymbolsInv'
<1> DEFINE h == HashPower(name)
           bucket == symtab[h]
           i == Position(bucket, string, name)
           L == Len(string)
<1>1. h \in 0 .. 1 /\ HashPowerLen(name) = h
  BY Hashes
<1>2. bucket \in Seq(Nat) /\ symtab \in [0 .. 1 -> Seq(Nat)]
  BY <1>1 DEF SymbolsInv, SymbolTypes
<1>3. /\ i = 0 => \A s \in Members(bucket) : string[s] \notin {name, NoString}
      /\ i # 0 => i \in 1 .. Len(bucket) /\ string[bucket[i]] \in {name, NoString}
  BY <1>2, Walk
<1>4. name # NoString /\ L \in Nat
  BY Strings
<1>5. UNCHANGED <<counter, caller, renamed>>
  BY DEF BstringToSymbol
<1>6. CASE i # 0
  <2> DEFINE s == bucket[i]
  <2>1. symresult' = [kind |-> "symbol", of |-> name, is |-> s] /\ UNCHANGED <<symtab, string>>
    BY <1>1, <1>6 DEF BstringToSymbol
  <2>2. s \in Members(bucket)
    BY <1>3, <1>6 DEF Members
  <2>3. s \in Symbols /\ string[s] # NoString
    BY <1>1, <2>2 DEF SymbolsInv, InTable
  <2>4. string[s] = name
    BY <1>3, <1>6, <2>3
  <2> HIDE DEF s
  <2>5. Answered'
    BY <2>1, <2>3, <2>4 DEF Answered, Symbols
  <2> QED BY <1>5, <2>1, <2>5 DEF SymbolsInv, SymbolTypes, InTable, Found, Bucket, OneName, Symbols
<1>7. CASE i = 0
  <2> DEFINE s == L + 1
  <2>1. string' = Append(string, name) /\ symtab' = [symtab EXCEPT ![h] = Append(@, Len(string'))]
        /\ symresult' = [kind |-> "symbol", of |-> name, is |-> Len(string')]
    BY <1>1, <1>7 DEF BstringToSymbol, MakeSymbol
  <2>2. /\ string' \in Seq(AnyName \cup {NoString}) /\ Len(string') = s /\ string'[s] = name
        /\ \A r \in 1 .. L : string'[r] = string[r]
    BY <2>1, Pushed DEF SymbolsInv, SymbolTypes
  <2>3. s \in Nat /\ s \in 1 .. s /\ Symbols = 1 .. L /\ Symbols' = 1 .. s /\ (\A r \in 1 .. s : r \in 1 .. L \/ r = s)
        /\ \A r \in 1 .. L : r \in 1 .. s /\ r # s
    BY <1>4, <2>2 DEF Symbols
  <2> HIDE DEF s, L
  <2>4. Append(bucket, s) \in Seq(Nat) /\ Members(Append(bucket, s)) = Members(bucket) \cup {s}
    BY <1>2, <2>3, MembersEnd
  <2>5. symtab' = [symtab EXCEPT ![h] = Append(bucket, s)]
    BY <2>1, <2>2
  <2>6. symtab' \in [0 .. 1 -> Seq(Nat)] /\ symtab'[h] = Append(bucket, s) /\ \A g \in 0 .. 1 : g # h => symtab'[g] = symtab[g]
    BY <1>1, <1>2, <2>4, <2>5
  <2>7. \A g \in 0 .. 1 : /\ Members(symtab[g]) \subseteq Members(symtab'[g])
                          /\ \A r \in Members(symtab'[g]) : r \in Members(symtab[g]) \/ (r = s /\ g = h)
    BY <2>4, <2>6
  <2>8. SymbolTypes'
    <3>1. \A u \in Callers : caller[u] # 0 => caller[u] \in Symbols'
      BY <2>3 DEF SymbolsInv, SymbolTypes
    <3> QED BY <1>5, <2>2, <2>6, <3>1 DEF SymbolsInv, SymbolTypes
  <2>9. InTable'
    <3> SUFFICES ASSUME NEW g \in 0 .. 1, NEW r \in Members(symtab'[g])
                 PROVE  /\ r \in Symbols' /\ string'[r] # NoString
                        /\ r \notin renamed' => HashPower(string'[r]) = g
      BY DEF InTable
    <3>1. CASE r = s /\ g = h
      BY <1>4, <2>2, <2>3, <3>1
    <3>2. CASE r \in Members(symtab[g])
      <4>1. /\ r \in Symbols /\ string[r] # NoString
            /\ r \notin renamed => HashPower(string[r]) = g
        BY <3>2 DEF SymbolsInv, InTable
      <4> QED BY <1>5, <2>2, <2>3, <4>1
    <3> QED BY <2>7, <3>1, <3>2
  <2>10. Found'
    <3> SUFFICES ASSUME NEW r \in Symbols', string'[r] # NoString
                 PROVE  r \in Members(symtab'[HashPower(string'[r])])
      BY DEF Found, Bucket
    <3>1. CASE r = s
      BY <2>2, <2>4, <2>6, <3>1
    <3>2. CASE r # s
      <4>1. r \in Symbols /\ string'[r] = string[r]
        BY <2>2, <2>3, <3>2
      <4>2. r \in Members(symtab[HashPower(string[r])]) /\ HashPower(string[r]) \in 0 .. 1
        BY <4>1, Strings
      <4> QED BY <2>7, <4>1, <4>2
    <3> QED BY <3>1, <3>2
  <2>11. ASSUME NEW r \in 1 .. L PROVE string[r] # name
    <3> SUFFICES ASSUME string[r] = name PROVE FALSE
      OBVIOUS
    <3>1. r \in Symbols /\ string[r] # NoString
      BY <1>4, <2>3
    <3>2. r \in Members(bucket)
      BY <3>1, Strings
    <3> QED BY <1>3, <1>7, <3>2
  <2>12. OneName'
    <3> SUFFICES ASSUME NEW r \in Symbols', NEW q \in Symbols', string'[r] # NoString, string'[r] = string'[q]
                 PROVE  r = q
      BY DEF OneName
    <3>1. CASE r # s /\ q # s
      BY <2>2, <2>3, <3>1 DEF SymbolsInv, OneName
    <3>2. CASE r = s \/ q = s
      BY <2>2, <2>3, <2>11, <3>2
    <3> QED BY <3>1, <3>2
  <2>13. Answered'
    BY <1>4, <2>1, <2>2, <2>3 DEF Answered
  <2> QED BY <2>8, <2>9, <2>10, <2>12, <2>13 DEF SymbolsInv
<1> QED BY <1>6, <1>7

LEMMA GensymRight ==
  ASSUME TablesConstants, SymbolsInv, NEW t \in Callers, NEW p \in Stems, Gensym(t, p)
  PROVE  SymbolsInv'
<1> DEFINE L == Len(string)
           s == L + 1
           ss == Append(string, NoString)
<1>1. UNCHANGED <<caller, renamed>>
  BY DEF Gensym
<1>2. L \in Nat /\ string \in Seq(AnyName \cup {NoString})
  BY Strings DEF SymbolsInv, SymbolTypes
<1>3. /\ ss \in Seq(AnyName \cup {NoString}) /\ Len(ss) = s /\ ss[s] = NoString
      /\ \A r \in 1 .. L : ss[r] = string[r]
  BY <1>2, Pushed
<1>4. s \in Nat /\ s \in 1 .. s /\ Symbols = 1 .. L /\ (\A r \in 1 .. s : r \in 1 .. L \/ r = s)
      /\ (\A r \in 1 .. L : r \in 1 .. s /\ r # s) /\ L <= s
  BY <1>2 DEF Symbols
<1> HIDE DEF ss
<1>5. CASE string' = ss /\ symresult' = [kind |-> "gensym", is |-> Len(string')] /\ UNCHANGED <<symtab, counter>>
  <2>1. Symbols' = 1 .. s
    BY <1>3, <1>5 DEF Symbols
  <2> HIDE DEF s, L
  <2>2. SymbolTypes'
    <3>1. \A u \in Callers : caller[u] # 0 => caller[u] \in Symbols'
      BY <1>4, <2>1 DEF SymbolsInv, SymbolTypes
    <3> QED BY <1>1, <1>3, <1>5, <3>1 DEF SymbolsInv, SymbolTypes
  <2>3. InTable'
    <3> SUFFICES ASSUME NEW g \in 0 .. 1, NEW r \in Members(symtab[g])
                 PROVE  /\ r \in Symbols' /\ string'[r] # NoString
                        /\ r \notin renamed' => HashPower(string'[r]) = g
      BY <1>5 DEF InTable
    <3>1. /\ r \in Symbols /\ string[r] # NoString
          /\ r \notin renamed => HashPower(string[r]) = g
      BY DEF SymbolsInv, InTable
    <3> QED BY <1>1, <1>3, <1>4, <1>5, <2>1, <3>1
  <2>4. \A r \in Symbols' : string'[r] # NoString => r \in Symbols /\ string'[r] = string[r]
    BY <1>3, <1>4, <1>5, <2>1
  <2>5. Found'
    <3> SUFFICES ASSUME NEW r \in Symbols', string'[r] # NoString
                 PROVE  r \in Members(symtab[HashPower(string'[r])])
      BY <1>5 DEF Found, Bucket
    <3> QED BY <2>4, Strings
  <2>6. OneName'
    <3> SUFFICES ASSUME NEW r \in Symbols', NEW q \in Symbols', string'[r] # NoString, string'[r] = string'[q]
                 PROVE  r = q
      BY DEF OneName
    <3> QED BY <2>4 DEF SymbolsInv, OneName
  <2>7. Answered'
    BY <1>5 DEF Answered
  <2> QED BY <2>2, <2>3, <2>5, <2>6, <2>7 DEF SymbolsInv
<1>6. CASE SymbolGenname(s, ss, p)
  <2>1. Named(s, ss)
    BY <1>1, <1>2, <1>3, <1>4 DEF Named
  <2> HIDE DEF s
  <2>2. /\ string' \in Seq(AnyName \cup {NoString}) /\ symtab' \in [0 .. 1 -> Seq(Nat)]
        /\ counter' \in Nat /\ Symbols \subseteq Symbols'
        /\ InTable' /\ Found' /\ OneName' /\ Answered'
    BY <1>6, <2>1, GennameRight
  <2>3. SymbolTypes'
    BY <1>1, <2>2 DEF SymbolsInv, SymbolTypes
  <2> QED BY <2>2, <2>3 DEF SymbolsInv
<1> QED BY <1>5, <1>6 DEF Gensym, MakeSymbol, ss

LEMMA NameGensymRight ==
  ASSUME TablesConstants, SymbolsInv, NEW t \in Callers, NameGensym(t)
  PROVE  SymbolsInv'
<1> DEFINE s == caller[t]
<1>1. s \in Symbols /\ s # 0 /\ caller \in [Callers -> Nat]
  BY DEF NameGensym, SymbolsInv, SymbolTypes
<1>2. /\ SymbolGenname(s, string, Shared) /\ caller' = [caller EXCEPT ![t] = 0]
      /\ renamed' = IF string[s] = NoString THEN renamed ELSE renamed \cup {s}
  BY DEF NameGensym
<1>3. Shared \in Stems
  BY DEF Shared, TablesConstants
<1>4. Named(s, string)
  <2>1. string \in Seq(AnyName \cup {NoString}) /\ Len(string) <= Len(string)
    BY Strings DEF SymbolsInv, SymbolTypes
  <2> QED BY <1>1, <1>2, <2>1 DEF Named, Symbols
<1>5. \A u \in Callers : caller'[u] \in Nat /\ (caller'[u] # 0 => caller'[u] \in Symbols)
  BY <1>1, <1>2 DEF SymbolsInv, SymbolTypes
<1>6. caller' \in [Callers -> Nat]
  BY <1>1, <1>2
<1> HIDE DEF s
<1>7. /\ string' \in Seq(AnyName \cup {NoString}) /\ symtab' \in [0 .. 1 -> Seq(Nat)]
      /\ counter' \in Nat /\ Symbols \subseteq Symbols'
      /\ InTable' /\ Found' /\ OneName' /\ Answered'
  BY <1>2, <1>3, <1>4, GennameRight
<1>8. SymbolTypes'
  BY <1>5, <1>6, <1>7 DEF SymbolTypes
<1> QED BY <1>7, <1>8 DEF SymbolsInv

LEMMA AskRight ==
  ASSUME TablesConstants, SymbolsInv, NEW t \in Callers,
         (\E s \in Symbols : SymbolToString(t, s)) \/ \E name \in AnyName : SymbolExistsP(t, name)
  PROVE  SymbolsInv'
<1>1. UNCHANGED <<symtab, string, counter, renamed>>
  BY DEF SymbolToString, SymbolExistsP
<1>2. Symbols' = Symbols
  BY <1>1 DEF Symbols
<1>3. caller' \in [Callers -> Nat] /\ \A u \in Callers : caller'[u] # 0 => caller'[u] \in Symbols
  <2>1. CASE caller' = caller
    BY <2>1 DEF SymbolsInv, SymbolTypes
  <2>2. CASE \E s \in Symbols : caller' = [caller EXCEPT ![t] = s]
    BY <2>2 DEF SymbolsInv, SymbolTypes, Symbols
  <2> QED BY <2>1, <2>2 DEF SymbolToString, SymbolExistsP
<1>4. symresult'.kind = "symbol" => symresult' = symresult
  BY DEF SymbolToString, SymbolExistsP
<1>5. SymbolTypes'
  BY <1>1, <1>2, <1>3 DEF SymbolsInv, SymbolTypes
<1>6. InTable' /\ Found' /\ OneName'
  BY <1>1, <1>2 DEF SymbolsInv, InTable, Found, Bucket, OneName
<1>7. Answered'
  BY <1>1, <1>2, <1>4 DEF SymbolsInv, Answered
<1> QED BY <1>5, <1>6, <1>7 DEF SymbolsInv

LEMMA SymbolsStart == InitSymbols => SymbolsInv
<1> SUFFICES ASSUME InitSymbols PROVE SymbolsInv
  OBVIOUS
<1>1. /\ Len(string) = 0 /\ string \in Seq(AnyName \cup {NoString}) /\ renamed = {}
      /\ \A h \in 0 .. 1 : symtab[h] = <<>>
  BY DEF InitSymbols
<1>2. Symbols = {} /\ \A h \in 0 .. 1 : Members(symtab[h]) = {}
  BY <1>1 DEF Symbols, Members
<1>3. SymbolTypes
  BY <1>1, <1>2 DEF SymbolTypes, InitSymbols
<1>4. Answered
  BY DEF Answered, InitSymbols, Nothing
<1> QED BY <1>2, <1>3, <1>4 DEF SymbolsInv, InTable, Found, OneName

LEMMA SymbolsStep ==
  ASSUME TablesConstants, SymbolsInv, SymbolNext
  PROVE  SymbolsInv'
<1>1. PICK t \in Callers :
        \/ \E p \in Stems, n \in 0 .. 2 :
             BstringToSymbol(t, <<p, n>>) \/ SymbolExistsP(t, <<p, n>>)
        \/ \E p \in Stems : Gensym(t, p)
        \/ \E s \in Symbols : SymbolToString(t, s)
        \/ NameGensym(t)
  BY DEF SymbolNext
<1>2. \A p \in Stems, n \in 0 .. 2 : <<p, n>> \in AnyName
  BY DEF AnyName
<1>3. CASE \E p \in Stems, n \in 0 .. 2 : BstringToSymbol(t, <<p, n>>)
  BY <1>2, <1>3, InternRight
<1>4. CASE \E p \in Stems, n \in 0 .. 2 : SymbolExistsP(t, <<p, n>>)
  BY <1>2, <1>4, AskRight
<1>5. CASE \E p \in Stems : Gensym(t, p)
  BY <1>5, GensymRight
<1>6. CASE \E s \in Symbols : SymbolToString(t, s)
  BY <1>6, AskRight
<1>7. CASE NameGensym(t)
  BY <1>7, NameGensymRight
<1> QED BY <1>1, <1>3, <1>4, <1>5, <1>6, <1>7

LEMMA SymbolsFollow == ASSUME TablesConstants, SymbolsInv PROVE SymbolsExact
<1>1. ASSUME NEW s \in Symbols, string[s] # NoString
      PROVE  LET bucket == symtab[HashPowerLen(string[s])]
                 i      == Position(bucket, string, string[s])
             IN i # 0 /\ bucket[i] = s
  <2> DEFINE h == HashPower(string[s])
             bucket == symtab[h]
             i == Position(bucket, string, string[s])
  <2>1. string[s] \in AnyName /\ h \in 0 .. 1 /\ s \in Members(bucket)
    BY <1>1, Strings
  <2>2. HashPowerLen(string[s]) = h
    BY <2>1, Hashes
  <2>3. bucket \in Seq(Nat)
    BY <2>1 DEF SymbolsInv, SymbolTypes
  <2>4. /\ i = 0 => \A r \in Members(bucket) : string[r] \notin {string[s], NoString}
        /\ i # 0 => i \in 1 .. Len(bucket) /\ string[bucket[i]] \in {string[s], NoString}
    BY <2>3, Walk
  <2>5. i # 0
    BY <2>1, <2>4
  <2> HIDE DEF i
  <2>6. bucket[i] \in Members(bucket)
    BY <2>4, <2>5 DEF Members
  <2>7. bucket[i] \in Symbols /\ string[bucket[i]] # NoString
    BY <2>1, <2>6 DEF SymbolsInv, InTable
  <2>8. bucket[i] = s
    BY <1>1, <2>4, <2>5, <2>7 DEF SymbolsInv, OneName
  <2> QED BY <2>2, <2>5, <2>8 DEF i
<1>2. ASSUME NEW h \in DOMAIN symtab, NEW i \in 1 .. Len(symtab[h])
      PROVE  string[symtab[h][i]] # NoString /\ (symtab[h][i] \notin renamed =>
               HashPower(string[symtab[h][i]]) = h)
  <2>1. h \in 0 .. 1 /\ symtab[h][i] \in Members(symtab[h])
    BY DEF SymbolsInv, SymbolTypes, Members
  <2> QED BY <2>1 DEF SymbolsInv, InTable
<1>3. symresult.kind = "symbol" =>
        string[symresult.is] = symresult.of \/ symresult.is \in renamed
  BY DEF SymbolsInv, Answered
<1> QED BY <1>1, <1>2, <1>3 DEF SymbolsExact

(* The weak pointer.                                                       *)
LEMMA DataSetRight ==
  ASSUME TablesConstants, WeakInv, NEW v \in Values, WeakptrDataSet(v)
  PROVE  WeakInv'
<1> DEFINE A == Values \cup {Null}
           W == [data : A, ref : A, crashed : BOOLEAN, datalink : Values, reflink : Values]
           off(link) == IF DataGetter \in Objects THEN Unspec ELSE link
           dl == Linked(v, off(weak.datalink))
           rl == Linked(v, off(weak.reflink))
<1>1. weak \in W /\ v \in A
  BY DEF WeakInv, WeakTypes
<1>2. v \in roots \cup {Unspec} /\ UNCHANGED <<alive, roots>>
  BY DEF WeakptrDataSet
<1>3. CASE weak.data = Null
  <2>1. weak' = [weak EXCEPT !.crashed = TRUE]
    BY <1>3 DEF WeakptrDataSet
  <2>2. /\ weak'.data = weak.data /\ weak'.ref = weak.ref
        /\ weak'.datalink = weak.datalink /\ weak'.reflink = weak.reflink
    BY <1>1, <2>1
  <2>3. weak' \in W
    <3> HIDE DEF A
    <3> QED BY <1>1, <2>1
  <2> QED BY <1>2, <2>2, <2>3 DEF WeakInv, WeakTypes, WeakExact
<1>4. CASE weak.data # Null
  <2>1. weak' = [weak EXCEPT !.data = v, !.datalink = dl, !.reflink = rl]
    BY <1>4 DEF WeakptrDataSet
  <2>2. weak.datalink = Linked(weak.data, Unspec) /\ weak.reflink = weak.datalink
    BY <1>4 DEF WeakInv, WeakExact
  <2>3. dl = Linked(v, Unspec) /\ rl = dl
    BY <1>4, <2>2 DEF Linked, DataGetter
  <2>4. dl \in Values
    BY <2>3 DEF Linked, Values
  <2> HIDE DEF dl, rl
  <2>5. weak'.data = v /\ weak'.ref = weak.ref /\ weak'.datalink = dl /\ weak'.reflink = dl
    BY <1>1, <2>1, <2>3
  <2>6. weak' \in W
    <3> HIDE DEF A
    <3> QED BY <1>1, <2>1, <2>3, <2>4
  <2>7. v # Null
    BY <1>2 DEF Values, TablesConstants, WeakInv, WeakTypes
  <2>8. {v, weak.ref} \cap Objects \subseteq alive
    BY <1>2 DEF WeakInv, WeakTypes, WeakExact, TablesConstants
  <2> QED BY <1>2, <2>3, <2>5, <2>6, <2>7, <2>8 DEF WeakInv, WeakTypes, WeakExact
<1> QED BY <1>3, <1>4

LEMMA RefSetRight ==
  ASSUME TablesConstants, WeakInv, NEW v \in Values, WeakptrRefSet(v)
  PROVE  WeakInv'
<1> DEFINE A == Values \cup {Null}
           W == [data : A, ref : A, crashed : BOOLEAN, datalink : Values, reflink : Values]
           off(link) == IF RefGetter \in Objects THEN Unspec ELSE link
           rl == Linked(DataGetter, off(weak.reflink))
<1>1. weak \in W /\ v \in A
  BY DEF WeakInv, WeakTypes
<1>2. v \in roots \cup {Unspec} /\ UNCHANGED <<alive, roots>>
  BY DEF WeakptrRefSet
<1>3. weak' = [weak EXCEPT !.ref = v, !.reflink = rl]
  BY DEF WeakptrRefSet
<1>4. rl \in Values
  BY <1>1 DEF Linked, Values
<1>5. weak.data # Null => rl = weak.datalink
  <2> SUFFICES ASSUME weak.data # Null PROVE rl = weak.datalink
    OBVIOUS
  <2>1. weak.datalink = Linked(weak.data, Unspec) /\ weak.reflink = weak.datalink /\ DataGetter = weak.data
    BY DEF WeakInv, WeakExact, DataGetter
  <2> QED BY <2>1 DEF Linked
<1> HIDE DEF rl
<1>6. weak'.data = weak.data /\ weak'.ref = v /\ weak'.datalink = weak.datalink /\ weak'.reflink = rl
  BY <1>1, <1>3
<1>7. weak' \in W
  <2> HIDE DEF A
  <2> QED BY <1>1, <1>3, <1>4
<1>8. {weak.data, v} \cap Objects \subseteq alive
  BY <1>2 DEF WeakInv, WeakTypes, WeakExact, TablesConstants
<1>9. WeakExact'
  BY <1>2, <1>5, <1>6, <1>8 DEF WeakInv, WeakExact
<1> QED BY <1>2, <1>7, <1>9 DEF WeakInv, WeakTypes

LEMMA HoldRight ==
  ASSUME TablesConstants, WeakInv, WeakptrData \/ WeakptrRef \/ \E o \in Objects : Forget(o)
  PROVE  WeakInv'
<1>1. alive' = alive /\ weak' = weak
  BY DEF WeakptrData, WeakptrRef, Forget
<1>2. {weak.data, weak.ref} \cap Objects \subseteq alive /\ roots \subseteq alive
  BY DEF WeakInv, WeakTypes, WeakExact
<1>3. Unspec \notin Objects
  BY DEF TablesConstants
<1>4. roots' \subseteq alive
  BY <1>2, <1>3 DEF WeakptrData, WeakptrRef, Forget, DataGetter, RefGetter
<1> QED BY <1>1, <1>4 DEF WeakInv, WeakTypes, WeakExact

LEMMA CollectRight ==
  ASSUME TablesConstants, WeakInv, NEW o \in Objects, Collect(o)
  PROVE  WeakInv'
<1> DEFINE A == Values \cup {Null}
           W == [data : A, ref : A, crashed : BOOLEAN, datalink : Values, reflink : Values]
           d == IF weak.datalink = o THEN Null ELSE weak.data
           r == IF weak.reflink = o THEN Null ELSE weak.ref
           dl == IF weak.datalink = o THEN Unspec ELSE weak.datalink
           rl == IF weak.reflink = o THEN Unspec ELSE weak.reflink
<1>1. weak \in W
  BY DEF WeakInv, WeakTypes
<1>2. o \in alive \ (roots \cup {weak.ref}) /\ alive' = alive \ {o} /\ roots' = roots
  BY DEF Collect
<1>3. weak' = [weak EXCEPT !.data = d, !.ref = r, !.datalink = dl, !.reflink = rl]
  BY DEF Collect
<1>4. d \in A /\ r \in A /\ dl \in Values /\ rl \in Values
  BY <1>1 DEF Values
<1>5. Null \notin Objects /\ Unspec \notin Objects
  BY DEF TablesConstants
<1>6. d # Null => weak.data # Null /\ d = weak.data /\ weak.datalink # o
  OBVIOUS
<1>7. weak.data # Null => weak.datalink = Linked(weak.data, Unspec) /\ weak.reflink = weak.datalink
  BY DEF WeakInv, WeakExact
<1>8. d # Null => dl = Linked(d, Unspec) /\ rl = dl
  BY <1>6, <1>7
<1>9. d = Null => dl = Unspec
  <2>1. CASE weak.datalink = o
    BY <2>1
  <2>2. CASE weak.datalink # o
    BY <2>2 DEF WeakInv, WeakExact
  <2> QED BY <2>1, <2>2
<1>10. d \in Objects => d # o
  BY <1>5, <1>6, <1>7 DEF Linked
<1>11. {weak.data, weak.ref} \cap Objects \subseteq alive
  BY DEF WeakInv, WeakExact
<1>12. {d, r} \cap Objects \subseteq alive'
  BY <1>2, <1>5, <1>10, <1>11
<1> HIDE DEF d, r, dl, rl
<1>13. weak'.data = d /\ weak'.ref = r /\ weak'.datalink = dl /\ weak'.reflink = rl
  BY <1>1, <1>3
<1>14. weak' \in W
  <2> HIDE DEF A
  <2> QED BY <1>1, <1>3, <1>4
<1>15. WeakExact'
  BY <1>8, <1>9, <1>12, <1>13 DEF WeakExact
<1>16. alive' \subseteq Objects /\ roots' \subseteq alive'
  BY <1>2 DEF WeakInv, WeakTypes
<1> QED BY <1>14, <1>15, <1>16 DEF WeakInv, WeakTypes

LEMMA WeakStart == ASSUME TablesConstants, InitWeak PROVE WeakInv
<1>1. PICK data \in Values, ref \in Values :
        weak = [data |-> data, ref |-> ref, crashed |-> FALSE,
                datalink |-> Linked(data, Unspec), reflink |-> Linked(data, Unspec)]
  BY DEF InitWeak
<1>2. weak.data = data /\ weak.ref = ref /\ weak.datalink = Linked(data, Unspec) /\ weak.reflink = weak.datalink
  BY <1>1
<1>3. Linked(data, Unspec) \in Values /\ data # Null
  BY DEF Linked, Values, TablesConstants
<1>4. weak \in [data : Values \cup {Null}, ref : Values \cup {Null}, crashed : BOOLEAN,
                datalink : Values, reflink : Values]
  <2> DEFINE A == Values \cup {Null}
  <2>1. data \in A /\ ref \in A
    OBVIOUS
  <2> HIDE DEF A
  <2>2. weak \in [data : A, ref : A, crashed : BOOLEAN, datalink : Values, reflink : Values]
    BY <1>1, <1>3, <2>1
  <2> QED BY <2>2 DEF A
<1>5. alive = Objects /\ roots = Objects
  BY DEF InitWeak
<1>6. WeakExact
  BY <1>2, <1>3, <1>5 DEF WeakExact
<1> QED BY <1>4, <1>5, <1>6 DEF WeakInv, WeakTypes

LEMMA WeakStep ==
  ASSUME TablesConstants, WeakInv, WeakNext
  PROVE  WeakInv'
<1>1. CASE \E v \in Values : WeakptrDataSet(v)
  BY <1>1, DataSetRight
<1>2. CASE \E v \in Values : WeakptrRefSet(v)
  BY <1>2, RefSetRight
<1>3. CASE WeakptrData \/ WeakptrRef \/ \E o \in Objects : Forget(o)
  BY <1>3, HoldRight
<1>4. CASE \E o \in Objects : Collect(o)
  BY <1>4, CollectRight
<1> QED BY <1>1, <1>2, <1>3, <1>4 DEF WeakNext

LEMMA TablesStep ==
  ASSUME TablesConstants, TablesInv, [TablesNext]_tablesVars
  PROVE  TablesInv'
<1>1. UNCHANGED symbolVars => SymbolsInv'
  BY DEF symbolVars, TablesInv, SymbolsInv, SymbolTypes, InTable, Found, Bucket, OneName, Answered, Symbols
<1>2. UNCHANGED weakVars => WeakInv'
  BY DEF weakVars, TablesInv, WeakInv, WeakTypes, WeakExact
<1>3. SymbolNext => SymbolsInv'
  BY SymbolsStep DEF TablesInv
<1>4. WeakNext => WeakInv'
  BY WeakStep DEF TablesInv
<1>5. \/ SymbolNext /\ UNCHANGED weakVars
      \/ WeakNext /\ UNCHANGED symbolVars
      \/ UNCHANGED symbolVars /\ UNCHANGED weakVars
  BY DEF TablesNext, tablesVars
<1> QED BY <1>1, <1>2, <1>3, <1>4, <1>5 DEF TablesInv

(* A name has one symbol and a symbol one name, however threads intern,    *)
(* generate and name symbols; and a weak pointer never leads to an object  *)
(* that was collected, nor loses one that is alive: csymbol.c and          *)
(* cweakptr.c, for any threads, names and objects.                         *)
THEOREM TablesAreExact == ASSUME TablesConstants PROVE TablesSpec => []TablesExact
<1>1. InitSymbols /\ InitWeak => TablesInv
  BY SymbolsStart, WeakStart DEF TablesInv
<1>2. TablesInv /\ [TablesNext]_tablesVars => TablesInv'
  BY TablesStep
<1>3. TablesInv => TablesExact
  BY SymbolsFollow DEF TablesInv, WeakInv, TablesExact
<1> QED BY <1>1, <1>2, <1>3, PTL DEF TablesSpec
=============================================================================
