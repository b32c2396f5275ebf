-------------------------------- MODULE Bignum --------------------------------
(***************************************************************************)
(* The integers of runtime/Clib/cbignum.c, in the build with GMP: limbs    *)
(* and a size that has the sign of the number, and the fixnum operations   *)
(* that become bignum operations when their result has no fixnum.  The mpn *)
(* and mpz functions of GMP are given by the numbers they compute; signs,  *)
(* sizes and the removal of leading zeros are the work of this file.       *)
(* A limb is as large as a long.                                           *)
(***************************************************************************)
EXTENDS CInteger, Sequences, FiniteSets, FiniteSetsExt

CONSTANTS
  LongBits,    \* size of a long, of a long long and of a limb
  FixBits,     \* size of a fixnum, smaller than a long by the tag
  Bigs         \* the numbers that bignum operations are applied to

VARIABLES numX, numY   \* the operands

numberVars == <<numX, numY>>
InitNumbers == numX \in Bigs /\ numY \in Bigs

Base == 2 ^ LongBits
(* The number of the first limbs, and the limbs of a number.               *)
Magnitude(l, size) == MapThenSumSet(LAMBDA i : l[i] * Base ^ (i - 1), 1 .. size)
Limbs(n, size) == [i \in 1 .. size |-> (n \div Base ^ (i - 1)) % Base]
SizeOf(n) == CHOOSE s \in 0 .. 6 : n < Base ^ s /\ (s = 0 \/ n >= Base ^ (s - 1))

Big(size, l) == [size |-> size, limbs |-> l]
BigValue(x) == Sign(x.size) * Magnitude(x.limbs, Absolute(x.size))
Negated(x) == [x EXCEPT !.size = - @]

(* Mutant: the size is the number of limbs that were allocated.            *)
SizeAllocated(l, size) == Big(size, l)

(* bignum_set_size: zero limbs at the end do not count.                    *)
BignumSetSize(l, size) ==
  LET count == IF \E i \in 2 .. size : l[i] # 0 THEN Max({i \in 2 .. size : l[i] # 0}) ELSE 1
  IN Big(IF count = 1 /\ l[1] = 0 THEN 0 ELSE count, l)

MpzToBignum(n) == Big(Sign(n) * SizeOf(Absolute(n)), Limbs(Absolute(n), SizeOf(Absolute(n))))

BglLongToBignum(n) == Big(Sign(n), << Absolute(n) >>)

(* mpz_get_si keeps the lowest bits of the magnitude.                      *)
BglBignumToLong(x) ==
  LET lo == IF x.size = 0 THEN 0 ELSE x.limbs[1]
      max == 2 ^ (LongBits - 1)
  IN IF x.size >= 0 THEN lo % max ELSE -1 - ((lo - 1) % max)

Fixnum(n) == [fixnum |-> TRUE, value |-> Wrap(n, FixBits)]       \* BINT
Boxed(n) == [fixnum |-> FALSE, value |-> n]                     \* make_belong, make_bllong
Bignum(x) == [fixnum |-> FALSE, value |-> BigValue(x)]

(* strtol stops at the ends of a long.                                     *)
BglStringToIntegerObj(n) ==
  IF ~ InRange(n, LongBits) THEN Bignum(MpzToBignum(n))
  ELSE IF Wrap(n, FixBits) # n THEN Bignum(BglLongToBignum(n)) ELSE Fixnum(n)

BitLength(n) == CHOOSE b \in 0 .. 40 : n < 2 ^ b /\ (b = 0 \/ n >= 2 ^ (b - 1))

(* mpz_sizeinbase of 0 is 1.                                               *)
BglSafeBignumToFixnum(x) ==
  LET bits == IF x.size = 0 THEN 1 ELSE BitLength(Absolute(BigValue(x))) IN
  IF bits < FixBits THEN Fixnum(BglBignumToLong(x)) ELSE Bignum(x)
-----------------------------------------------------------------------------
(* bignum_cmp_aux compares sizes first, then limbs.                        *)
BignumCmpAux(x, sx, y, sy) ==
  IF sx # sy THEN Sign(sx - sy) ELSE Sign(Magnitude(x, sx) - Magnitude(y, sy))

BglBignumCmp(x, y) ==
  IF x.size > 0 THEN IF y.size > 0 THEN BignumCmpAux(x.limbs, x.size, y.limbs, y.size) ELSE 1
  ELSE IF x.size < 0 THEN IF y.size < 0 THEN BignumCmpAux(y.limbs, -y.size, x.limbs, -x.size) ELSE -1
  ELSE Sign(- y.size)

BglBignumNeg(x) == IF x.size = 0 THEN x ELSE Negated(x)
BglBignumAbs(x) == IF x.size < 0 THEN Negated(x) ELSE x

(* mpn_add of the longer and the shorter, and the carry as one more limb.  *)
BignumAddPosPosAux(x, sx, y, sy) ==
  LET n == Magnitude(x, sx) + Magnitude(y, sy) IN
  Big(IF n >= Base ^ sx THEN sx + 1 ELSE sx, Limbs(n, sx + 1))

BignumAddPosPos(x, sx, y, sy) ==
  IF sx >= sy THEN BignumAddPosPosAux(x, sx, y, sy) ELSE BignumAddPosPosAux(y, sy, x, sx)

(* mpn_sub: the borrow is assumed to be 0, and would be lost.              *)
BignumAddPosNegAux(x, sx, y, sy) ==
  BignumSetSize(Limbs((Magnitude(x, sx) - Magnitude(y, sy)) % (Base ^ sx), sx), sx)

(* Mutant: two numbers of the same size are subtracted as they come.       *)
AddSameSizeUnordered(x, sx, y, sy) ==
  IF sx >= sy THEN BignumAddPosNegAux(x, sx, y, sy)
  ELSE Negated(BignumAddPosNegAux(y, sy, x, sx))

BignumAddPosNeg(x, sx, y, sy) ==
  LET test == BignumCmpAux(x, sx, y, sy) IN
  IF test > 0 THEN BignumAddPosNegAux(x, sx, y, sy)
  ELSE IF test < 0 THEN Negated(BignumAddPosNegAux(y, sy, x, sx))
  ELSE BglLongToBignum(0)

BglBignumAdd(x, y) ==
  CASE x.size = 0 -> y
    [] y.size = 0 -> x
    [] x.size > 0 /\ y.size > 0 -> BignumAddPosPos(x.limbs, x.size, y.limbs, y.size)
    [] x.size > 0 /\ y.size < 0 -> BignumAddPosNeg(x.limbs, x.size, y.limbs, -y.size)
    [] x.size < 0 /\ y.size > 0 -> BignumAddPosNeg(y.limbs, y.size, x.limbs, -x.size)
    [] OTHER -> Negated(BignumAddPosPos(x.limbs, -x.size, y.limbs, -y.size))

BglBignumSub(x, y) ==
  CASE x.size = 0 -> BglBignumNeg(y)
    [] y.size = 0 -> x
    [] x.size > 0 /\ y.size > 0 -> BignumAddPosNeg(x.limbs, x.size, y.limbs, y.size)
    [] x.size > 0 /\ y.size < 0 -> BignumAddPosPos(x.limbs, x.size, y.limbs, -y.size)
    [] x.size < 0 /\ y.size > 0 -> Negated(BignumAddPosPos(x.limbs, -x.size, y.limbs, y.size))
    [] OTHER -> BignumAddPosNeg(y.limbs, -y.size, x.limbs, -x.size)

Opposite(x, y) == (x.size > 0 /\ y.size < 0) \/ (x.size < 0 /\ y.size > 0)

(* A product has at most one zero limb at its end.                         *)
BglBignumMul(x, y) ==
  LET sx == Absolute(x.size)
      sy == Absolute(y.size)
      l  == Limbs(Magnitude(x.limbs, sx) * Magnitude(y.limbs, sy), sx + sy)
      z  == Big(IF l[sx + sy] = 0 THEN sx + sy - 1 ELSE sx + sy, l)
  IN IF sx = 0 \/ sy = 0 THEN BglLongToBignum(0)
     ELSE IF Opposite(x, y) THEN Negated(z) ELSE z

(* mpn_tdiv_qr: quotient and remainder of the magnitudes.                  *)
TdivQ(x, y) == LET s == Absolute(x.size) - Absolute(y.size) + 1 IN
  BignumSetSize(Limbs(Absolute(BigValue(x)) \div Absolute(BigValue(y)), s), s)
TdivR(x, y) == LET s == Absolute(y.size) IN
  BignumSetSize(Limbs(Absolute(BigValue(x)) % Absolute(BigValue(y)), s), s)
Shorter(x, y) == Absolute(x.size) < Absolute(y.size)

BglBignumQuotient(x, y) ==
  IF Shorter(x, y) THEN BglLongToBignum(0)
  ELSE IF Opposite(x, y) THEN Negated(TdivQ(x, y)) ELSE TdivQ(x, y)

(* The remainder has the sign of the dividend.                             *)
BglBignumRemainder(x, y) ==
  IF Shorter(x, y) THEN x ELSE IF x.size < 0 THEN Negated(TdivR(x, y)) ELSE TdivR(x, y)

BglBignumDiv(x, y) ==
  IF Shorter(x, y) THEN [q |-> BglLongToBignum(0), r |-> x]
  ELSE [q |-> IF Opposite(x, y) THEN Negated(TdivQ(x, y)) ELSE TdivQ(x, y),
        r |-> IF x.size < 0 THEN Negated(TdivR(x, y)) ELSE TdivR(x, y)]

(* mpz: the bits of two's complement numbers without end.                  *)
Bit(n, i) == (n \div 2 ^ i) % 2
Bitwise(Op(_, _), n, m) ==
  LET w == 3 * LongBits IN
  MapThenSumSet(LAMBDA i : 2 ^ i * Op(Bit(n, i), Bit(m, i)), 0 .. w - 1)
    - 2 ^ w * Op(Bit(n, w), Bit(m, w))
And(a, b) == a * b
Ior(a, b) == a + b - a * b
Xor(a, b) == (a + b) % 2

BglBignumLsh(x, n) == MpzToBignum(BigValue(x) * 2 ^ n)
BglBignumRsh(x, n) == MpzToBignum(BigValue(x) \div 2 ^ n)
BglBignumMask(x, n) == MpzToBignum(Bitwise(And, BigValue(x), 2 ^ n - 1))
BglBignumAnd(x, y) == MpzToBignum(Bitwise(And, BigValue(x), BigValue(y)))
BglBignumOr(x, y) == MpzToBignum(Bitwise(Ior, BigValue(x), BigValue(y)))
BglBignumXor(x, y) == MpzToBignum(Bitwise(Ior, BigValue(x), BigValue(y)))
BglBignumNot(x) == MpzToBignum(-1 - BigValue(x))
-----------------------------------------------------------------------------
SignBit(n, bits) == Wrap(n, bits) < 0

(* BGL_ADDFX_OV, BGL_SUBFX_OV: the builtins on the tagged words.           *)
Tagged(n) == n * 2 ^ (LongBits - FixBits)
BglAddfxOv(x, y) == IF InRange(Tagged(x) + Tagged(y), LongBits) THEN Fixnum(x + y)
                    ELSE Bignum(BglBignumAdd(BglLongToBignum(x), BglLongToBignum(y)))
BglSubfxOv(x, y) == IF InRange(Tagged(x) - Tagged(y), LongBits) THEN Fixnum(x - y)
                    ELSE Bignum(BglBignumSub(BglLongToBignum(x), BglLongToBignum(y)))
BglMulfxOv(x, y) == IF InRange(Tagged(x) * y, LongBits) THEN Fixnum(x * y)
                    ELSE Bignum(BglBignumMul(BglLongToBignum(x), BglLongToBignum(y)))

(* Without the builtins: an overflow shows in the sign bit of the type.    *)
SafePlus(x, y, bits, Make(_)) ==
  LET z == Wrap(x + y, LongBits) IN
  IF SignBit(x, bits) = SignBit(y, bits) /\ SignBit(z, bits) # SignBit(x, bits)
  THEN Bignum(BglBignumAdd(BglLongToBignum(x), BglLongToBignum(y))) ELSE Make(z)

SafeMinus(x, y, bits, Make(_)) ==
  LET z == Wrap(x - y, LongBits) IN
  IF SignBit(x, bits) # SignBit(y, bits) /\ SignBit(z, bits) # SignBit(x, bits)
  THEN Bignum(BglBignumSub(BglLongToBignum(x), BglLongToBignum(y))) ELSE Make(z)

(* With them, it is the overflow of a long; BINT then drops what has no    *)
(* place beside the tag.                                                   *)
Unless(z, b, Make(_)) == IF InRange(z, LongBits) THEN Make(z) ELSE Bignum(b)
PlusOv(x, y, Make(_)) == Unless(x + y, BglBignumAdd(BglLongToBignum(x), BglLongToBignum(y)), Make)
MinusOv(x, y, Make(_)) == Unless(x - y, BglBignumSub(BglLongToBignum(x), BglLongToBignum(y)), Make)
MulOv(x, y, Make(_)) == Unless(x * y, BglBignumMul(BglLongToBignum(x), BglLongToBignum(y)), Make)

BglSafePlusFx(x, y) == [builtin |-> PlusOv(x, y, Fixnum), plain |-> SafePlus(x, y, FixBits, Fixnum)]
BglSafeMinusFx(x, y) == [builtin |-> MinusOv(x, y, Fixnum), plain |-> SafeMinus(x, y, FixBits, Fixnum)]

(* The same on elongs, which are longs, and on long longs, which have no   *)
(* builtin.                                                                *)
BglSafePlusElong(x, y) == {PlusOv(x, y, Boxed), SafePlus(x, y, LongBits, Boxed)}
BglSafeMinusElong(x, y) == {MinusOv(x, y, Boxed), SafeMinus(x, y, LongBits, Boxed)}
BglSafePlusLlong(x, y) == SafePlus(x, y, LongBits, Boxed)
BglSafeMinusLlong(x, y) == SafeMinus(x, y, LongBits, Boxed)

(* Mutant: the product is not reduced to a fixnum before the test.         *)
MulLongTest(x, y) ==
  LET z == Wrap(x * y, LongBits) IN
  IF x = 0 \/ y = 0 THEN Fixnum(0)
  ELSE IF CDiv(z, y) = x /\ CMod(z, y) = 0 THEN Fixnum(z)
  ELSE Bignum(BglBignumMul(BglLongToBignum(x), BglLongToBignum(y)))

MulFxTest(x, y) ==
  LET z == Wrap(Wrap(x * y, LongBits), FixBits) IN
  IF x = 0 \/ y = 0 THEN Fixnum(0)
  ELSE IF CDiv(z, y) = x /\ CMod(z, y) = 0 THEN Fixnum(z)
  ELSE Bignum(BglBignumMul(BglLongToBignum(x), BglLongToBignum(y)))

BglSafeMulFx(x, y) == [builtin |-> MulOv(x, y, Fixnum), plain |-> MulFxTest(x, y)]

(* The division that tests the product overflows itself for the smallest   *)
(* number and -1, and traps.                                               *)
BglSafeMulLlong(x, y) ==
  LET z == Wrap(x * y, LongBits) IN
  IF y = 0 THEN Boxed(0)
  ELSE IF y = -1 /\ z = - (2 ^ (LongBits - 1)) THEN [trap |-> TRUE]
  ELSE IF CDiv(z, y) = x THEN Boxed(z)
  ELSE Bignum(BglBignumMul(BglLongToBignum(x), BglLongToBignum(y)))

BglSafeMulElong(x, y) == {MulOv(x, y, Boxed), BglSafeMulLlong(x, y)}

BglSafeQuotientFx(x, y) ==
  IF x = - (2 ^ (FixBits - 1)) /\ y = -1
  THEN Bignum(BglBignumDiv(BglLongToBignum(x), BglLongToBignum(y)).q) ELSE Fixnum(CDiv(x, y))

BglSafeQuotientLlong(x, y) ==
  IF x = - (2 ^ (LongBits - 1)) /\ y = -1
  THEN Bignum(BglBignumDiv(BglLongToBignum(x), BglLongToBignum(y)).q) ELSE Boxed(CDiv(x, y))
BglSafeQuotientElong(x, y) == BglSafeQuotientLlong(x, y)
-----------------------------------------------------------------------------
(* A bignum stands for n, without leading zeros.                           *)
Is(x, n) ==
  /\ BigValue(x) = n /\ Absolute(x.size) <= Len(x.limbs)
  /\ x.size # 0 => x.limbs[Absolute(x.size)] # 0

(* Bignum operations compute what their names say, on numbers and results  *)
(* without leading zeros, for every combination of signs and lengths, zero *)
(* and results shorter or longer than the operands included.  bit-xorbx is *)
(* only right on numbers without a common bit: it computes the inclusive   *)
(* or.  A bignum is made a fixnum where a number that is read would be     *)
(* one, but for the smallest fixnum.                                       *)
BignumExact ==
  LET x == MpzToBignum(numX)
      y == MpzToBignum(numY)
  IN /\ Is(x, numX) /\ BglBignumCmp(x, y) = Sign(numX - numY)
     /\ Is(BglBignumNeg(x), - numX) /\ Is(BglBignumAbs(x), Absolute(numX))
     /\ Is(BglBignumAdd(x, y), numX + numY) /\ Is(BglBignumSub(x, y), numX - numY)
     /\ Is(BglBignumMul(x, y), numX * numY)
     /\ numY # 0 => LET d == BglBignumDiv(x, y) IN
          /\ Is(d.q, CDiv(numX, numY)) /\ Is(d.r, CMod(numX, numY))
          /\ BglBignumQuotient(x, y) = d.q /\ BglBignumRemainder(x, y) = d.r
     /\ Is(BglBignumAnd(x, y), Bitwise(And, numX, numY))
     /\ Bitwise(And, numX, numY) = 0 => Is(BglBignumXor(x, y), Bitwise(Xor, numX, numY))
     /\ Is(BglBignumOr(x, y), numX + numY - Bitwise(And, numX, numY))
     /\ Is(BglBignumNot(BglBignumAnd(x, y)), BigValue(BglBignumOr(BglBignumNot(x), BglBignumNot(y))))
     /\ \A n \in 0 .. LongBits :
          /\ Is(BglBignumRsh(BglBignumLsh(x, n), n), numX)
          /\ Is(BglBignumAdd(BglBignumLsh(BglBignumRsh(x, n), n), BglBignumMask(x, n)), numX)
     /\ numX # - (2 ^ (FixBits - 1)) => BglSafeBignumToFixnum(x) = BglStringToIntegerObj(numX)
     /\ InRange(numX, LongBits) => BglBignumToLong(x) = numX

Result(r, n) == r.value = n /\ r.fixnum = InRange(n, FixBits)

(* An operation on fixnums returns the fixnum of the result when there is  *)
(* one and a bignum otherwise; but bgl_safe_plus_fx, minus and mul do so   *)
(* in a build without the builtins only: with them they are right when the *)
(* result has a fixnum, or does not fit in a long, and wrap what is        *)
(* between.  An operation on elongs and long longs never returns a wrapped *)
(* number, but the product of the smallest one and -1 traps where it is    *)
(* tested by a division.                                                   *)
NoWrap ==
  LET x == numX
      y == numY
      Smallest == - (2 ^ (LongBits - 1))
      Safe(op, n) == /\ Result(op.plain, n)
                     /\ InRange(n, FixBits) \/ ~ InRange(n, LongBits) => Result(op.builtin, n)
  IN /\ InRange(x, FixBits) /\ InRange(y, FixBits) =>
          /\ Result(BglAddfxOv(x, y), x + y) /\ Result(BglSubfxOv(x, y), x - y)
          /\ Result(BglMulfxOv(x, y), x * y)
          /\ Safe(BglSafePlusFx(x, y), x + y) /\ Safe(BglSafeMinusFx(x, y), x - y)
          /\ Safe(BglSafeMulFx(x, y), x * y)
          /\ y # 0 => Result(BglSafeQuotientFx(x, y), CDiv(x, y))
     /\ InRange(x, LongBits) /\ InRange(y, LongBits) =>
          /\ \A r \in BglSafePlusElong(x, y) \cup {BglSafePlusLlong(x, y)} : r.value = x + y
          /\ \A r \in BglSafeMinusElong(x, y) \cup {BglSafeMinusLlong(x, y)} : r.value = x - y
          /\ \A r \in BglSafeMulElong(x, y) \cup {BglSafeMulLlong(x, y)} :
               (r = [trap |-> TRUE] /\ y = -1 /\ x = Smallest) \/ r.value = x * y
          /\ y # 0 => /\ BglSafeQuotientElong(x, y).value = CDiv(x, y)
                      /\ BglSafeQuotientLlong(x, y).value = CDiv(x, y)
=============================================================================
