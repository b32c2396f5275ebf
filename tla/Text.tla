--------------------------------- MODULE Text ---------------------------------
(***************************************************************************)
(* The strings of runtime/Clib/cstring.c and cunicode.c: comparisons, the  *)
(* printing of integers, the escapes of string literals, the conversion    *)
(* between UCS-2 and UTF-8, the tokens that crgc.c reads, the hash numbers *)
(* of chash.c.  A string is the sequence of its bytes, a UCS-2 string the  *)
(* sequence of its units together with what stands behind the last one.    *)
(***************************************************************************)
EXTENDS CInteger, Sequences, SequencesExt
LOCAL INSTANCE Bitwise

VARIABLE text   \* what is compared, printed, escaped or converted

textVars == <<text>>

Minus == -1      \* the character '-' among digits
Garbage == 7       \* what may stand behind a UCS-2 string
Backslash == 92
Quote == 34
Bar == 124

LongBits == 9
SmallestLong == - (2 ^ (LongBits - 1))
Shorts(S, n) == UNION {[1 .. m -> S] : m \in 0 .. n}
InitText ==
  text \in [kind : {"compare"}, a : Shorts({0, 65, 97, 98}, 2), b : Shorts({0, 65, 97, 98}, 3)]
      \cup [kind : {"print"}, x : {SmallestLong} \cup -40 .. 40, radix : {2, 8, 10, 16},
            padding : 0 .. 12]
      \cup [kind : {"literal"}, a : Shorts({0, 7, 10, Quote, 49, Backslash, 110, 120, Bar, 200}, 3)]
      \cup [kind : {"escape"}, a : Shorts({49, 65, Backslash, 117, 120}, 6), b : {0, Quote}]
      \cup [kind : {"ucs2"}, a : Shorts({0, 65, 127, 128, 2047, 2048, 55295, 55296, 56255, 56256,
                                         56319, 56320, 57343, 57344, 65535}, 3)]
      \cup [kind : {"ucs2 compare"}, a : Shorts({65, 97, 98}, 2), b : Shorts({65, 97, 98}, 2),
            end : {0, Garbage}]
      \cup [kind : {"integer"}, sign : {43, 45, 48}, a : Shorts({48, 50, 53, 57}, 5),
            after : {<<>>, <<41>>, <<32>>, <<32, 55>>, <<32, 41>>}, llong : {9, 12}]
      \cup [kind : {"token"}, a : Shorts({65, 97, 200}, 2), colon : {"none", "first", "last"}]
      \cup [kind : {"edit"}, a : Shorts({97, 98, 0}, 3), b : Shorts({98, 99}, 2)]
      \cup [kind : {"hash"}, a : Shorts({0, 1, 200}, 3) \cup UNION {[1 .. n -> {1, 200}] : n \in 7 .. 10}]
      \cup [kind : {"ieee"}, a : [1 .. 4 -> {0, 128, 255}] \cup {[i \in 1 .. 8 |-> i * i]}]

Least(a, b) == IF a < b THEN a ELSE b
Lower(c) == IF c \in 65 .. 90 THEN c + 32 ELSE c
Same(c) == c

(* How many characters from the start, up to max, are equal.               *)
Run(a, b, max, F(_)) ==
  CHOOSE n \in 0 .. max :
    /\ \A i \in 1 .. n : F(a[i]) = F(b[i])
    /\ n < max => F(a[n + 1]) # F(b[n + 1])

From(a, d) == SubSeq(a, d + 1, Len(a))
-----------------------------------------------------------------------------
(* memcmp, and the loops that stop at the first difference.                *)
BiglooStrcmp(a, b) == Len(a) = Len(b) /\ Run(a, b, Len(a), Same) = Len(a)
BiglooStrcicmp(a, b) == Len(a) = Len(b) /\ Run(a, b, Len(a), Lower) = Len(a)

BiglooStrncmp(a, b, l) == Len(a) >= l /\ Len(b) >= l /\ Run(a, b, l, Same) = l
BiglooStrncmpCi(a, b, l) == Len(a) >= l /\ Len(b) >= l /\ Run(a, b, l, Lower) = l

BiglooStrcmpAt(a, b, d) ==
  d >= 0 /\ Len(b) + d <= Len(a) /\ Run(From(a, d), b, Len(b), Same) = Len(b)
BiglooStrcmpCiAt(a, b, d) ==
  d >= 0 /\ Len(b) + d <= Len(a) /\ Run(From(a, d), b, Len(b), Lower) = Len(b)

BiglooStrncmpAt(a, b, d, l3) ==
  LET l == Least(Len(b), l3) IN
  d >= 0 /\ l3 >= 0 /\ l + d <= Len(a) /\ Run(From(a, d), b, l, Same) = l

(* The loop runs to the end of the second string, not to l; the zero that  *)
(* ends the first one stops it.                                            *)
BiglooStrncmpCiAt(a, b, d, l3) ==
  LET l == Least(Len(b), l3) IN
  d >= 0 /\ l3 >= 0 /\ l + d <= Len(a)
         /\ Run(Append(From(a, d), 0), b, Least(Len(b), Len(a) - d + 1), Lower) = l

(* The first difference decides, or else the lengths.                      *)
Ordered(a, b, F(_), Op(_, _)) ==
  LET min == Least(Len(a), Len(b))
      i   == Run(a, b, min, F)
  IN IF i < min THEN Op(F(a[i + 1]), F(b[i + 1])) ELSE Op(Len(a), Len(b))

(* Mutant: a string is compared up to its length only.                     *)
LtByPrefix(a, b) == LET min == Least(Len(a), Len(b))
                        i   == Run(a, b, min, Same)
                    IN i < min /\ a[i + 1] < b[i + 1]

BiglooStringLt(a, b) == Ordered(a, b, Same, <)
BiglooStringLe(a, b) == Ordered(a, b, Same, <=)
BiglooStringGt(a, b) == Ordered(a, b, Same, >)
BiglooStringGe(a, b) == Ordered(a, b, Same, >=)
BiglooStringCilt(a, b) == Ordered(a, b, Lower, <)
BiglooStringCile(a, b) == Ordered(a, b, Lower, <=)
BiglooStringCigt(a, b) == Ordered(a, b, Lower, >)
BiglooStringCige(a, b) == Ordered(a, b, Lower, >=)

(* The same on UCS-2 strings; ucs2_strcicmp also compares what stands      *)
(* behind the strings, before it looks at the length.                      *)
Ucs2Strcmp(a, b) == Len(a) = Len(b) /\ Run(a, b, Len(a), Same) = Len(a)
Ucs2Strcicmp(a, enda, b, endb) ==
  Len(a) = Len(b) /\ Run(Append(a, enda), Append(b, endb), Len(a) + 1, Lower) = Len(a) + 1
Ucs2StringLt(a, b) == Ordered(a, b, Same, <)
Ucs2StringLe(a, b) == Ordered(a, b, Same, <=)
Ucs2StringGt(a, b) == Ordered(a, b, Same, >)
Ucs2StringGe(a, b) == Ordered(a, b, Same, >=)
Ucs2StringCilt(a, b) == Ordered(a, b, Lower, <)
Ucs2StringCile(a, b) == Ordered(a, b, Lower, <=)
Ucs2StringCigt(a, b) == Ordered(a, b, Lower, >)
Ucs2StringCige(a, b) == Ordered(a, b, Lower, >=)
-----------------------------------------------------------------------------
(* The number of turns of the loop that counts digits.                     *)
Digits(n, radix) == CHOOSE d \in 0 .. 12 : n < radix ^ d /\ (d = 0 \/ n >= radix ^ (d - 1))

(* Mutant: no room is left for the sign.                                   *)
NoRoomForSign(x, radix) ==
  LET bits == Digits(Absolute(x), radix) + (IF x = 0 THEN 1 ELSE 0) IN
  [i \in 1 .. bits |->
     IF i = 1 /\ x < 0 THEN Minus ELSE Absolute(CMod(CDiv(x, radix ^ (bits - i)), radix))]

(* Digits from the last to the first; the sign is written over a zero.     *)
IntegerToString(x, radix) ==
  LET bits == Digits(Absolute(x), radix) + (IF x <= 0 THEN 1 ELSE 0) IN
  [i \in 1 .. bits |->
     IF i = 1 /\ x < 0 THEN Minus ELSE Absolute(CMod(CDiv(x, radix ^ (bits - i)), radix))]

(* llong_to_string is the same code on long longs.                         *)
LlongToString(x, radix) ==
  LET bits == Digits(Absolute(x), radix) + (IF x <= 0 THEN 1 ELSE 0) IN
  [i \in 1 .. bits |->
     IF i = 1 /\ x < 0 THEN Minus ELSE Absolute(CMod(CDiv(x, radix ^ (bits - i)), radix))]

UnsignedToString(x, radix) ==
  LET bits == Digits(x, radix) + (IF x = 0 THEN 1 ELSE 0) IN
  [i \in 1 .. bits |-> (x \div radix ^ (bits - i)) % radix]

UllongToString(x, radix) ==
  LET bits == Digits(x, radix) + (IF x = 0 THEN 1 ELSE 0) IN
  [i \in 1 .. bits |-> (x \div radix ^ (bits - i)) % radix]

(* Radix 2 by hand; sprintf otherwise, with the sign in front of padding-1 *)
(* characters.  The string has the length that was computed beforehand.    *)
(* The smallest long has no absolute value: its last bit is shifted in     *)
(* once more in radix 2, and in radix 10 %ld prints a sign of its own.     *)
IntegerToStringPadding(x, padding, radix) ==
  LET bits == Digits(Absolute(x), radix) + (IF x <= 0 THEN 1 ELSE 0)
      size == IF bits > padding THEN bits ELSE padding
      digit(i, n) == IF n - i >= Digits(Absolute(x), radix) THEN 0
                     ELSE (Absolute(x) \div radix ^ (n - i)) % radix
  IN IF x = SmallestLong /\ radix = 10
     THEN LET n == IF bits >= padding THEN bits + 1 ELSE padding
          IN [i \in 1 .. n |-> IF i <= 2 THEN Minus ELSE digit(i, n)]
     ELSE [i \in 1 .. size |->
             IF i = 1 /\ x < 0 THEN Minus
             ELSE IF x = SmallestLong /\ radix = 2 /\ i = size - bits + 1 THEN 1 ELSE digit(i, size)]

(* What padding makes of the smallest long in radixes 2 and 10.            *)
PaddedWrong(x, padding, radix) ==
  x = SmallestLong /\ (radix = 10 \/ (radix = 2 /\ padding > LongBits + 1))

Printed(s) == LET n == FoldLeft(LAMBDA acc, d : IF d = Minus THEN acc ELSE acc * text.radix + d, 0, s)
              IN IF Minus \in ToSet(s) THEN -n ELSE n
-----------------------------------------------------------------------------
(* utf8_size.                                                              *)
Utf8Size(u) == IF u <= 127 THEN 1 ELSE IF u <= 2047 THEN 2
               ELSE IF u \in 55296 .. 57343 THEN 4 ELSE 3

IsHigh(u) == u \in 55296 .. 56319
IsLow(u) == u \in 56320 .. 57343

(* Mutant: the plane of a pair is not increased by one.                    *)
PairPlane(u) == Bits(u, 6, 4)

(* uuuuu of a high surrogate.                                              *)
Plane(u) == Bits(u, 6, 4) + 1

(* Two units as four bytes, a lone high surrogate behind f8, a lone low    *)
(* one behind fc.                                                          *)
Pair(u, nu) == << 240 + Plane(u) \div 4, 128 + 16 * (Plane(u) % 4) + Bits(u, 2, 4),
                  128 + 16 * (u % 4) + Bits(nu, 6, 4), 128 + (nu % 64) >>
LoneHigh(u) == << 248, 128 + 16 * (Plane(u) % 4) + Bits(u, 2, 4), 128 + 16 * (u % 4),
                  128 + Plane(u) \div 4 >>
LoneLow(u) == << 252, 128, 128 + Bits(u, 6, 4), 128 + (u % 64) >>

(* Any surrogate, a low one too, is paired with a low one behind it.       *)
RECURSIVE Ucs2ToUtf8String(_)
Ucs2ToUtf8String(s) ==
  IF s = <<>> THEN <<>>
  ELSE LET u == s[1] IN
       CASE Utf8Size(u) = 1 -> << u >> \o Ucs2ToUtf8String(Tail(s))
         [] Utf8Size(u) = 2 -> << 192 + u \div 64, 128 + (u % 64) >> \o Ucs2ToUtf8String(Tail(s))
         [] Utf8Size(u) = 3 -> << 224 + u \div 4096, 128 + Bits(u, 6, 6), 128 + (u % 64) >>
                                 \o Ucs2ToUtf8String(Tail(s))
         [] Utf8Size(u) = 4 /\ Len(s) > 1 /\ IsLow(s[2]) ->
              Pair(u, s[2]) \o Ucs2ToUtf8String(From(s, 2))
         [] OTHER -> (IF IsHigh(u) THEN LoneHigh(u) ELSE LoneLow(u)) \o Ucs2ToUtf8String(Tail(s))

(* The number of bytes that follow a first byte, and their bits put        *)
(* together; numbers from 10000 hexadecimal on become two units.           *)
Following(byte) == CASE byte \in 192 .. 223 -> 1 [] byte \in 224 .. 239 -> 2
                     [] byte \in 240 .. 247 -> 3 [] OTHER -> 4
Joined(s, n) == FoldLeft(LAMBDA acc, b : acc * 64 + (b % 64), s[1] % (2 ^ (6 - n)), SubSeq(s, 2, n + 1))
Units(c) == IF c >= 65536 THEN << (c - 65536) \div 1024 + 55296, ((c - 65536) % 1024) + 56320 >>
            ELSE << c >>

(* vvvv is -1 for the last plane, whose bit 4 is not looked at; the ones   *)
(* of -1 then cover the mark of the surrogate.                             *)
HighUnit(b1, b2, b3) ==
  LET vvvv == (4 * (b3 % 4)) + Bits(b1, 4, 2) - 1
      low  == Bits(b2, 4, 2) + 4 * (b1 % 16)
  IN IF vvvv = -1 THEN 65472 + low ELSE 55296 + 64 * vvvv + low

RECURSIVE Utf8StringToUcs2String(_)
Utf8StringToUcs2String(s) ==
  IF s = <<>> THEN <<>>
  ELSE CASE s[1] <= 127 -> << s[1] >> \o Utf8StringToUcs2String(Tail(s))
         [] s[1] = 248 -> << HighUnit(s[2], s[3], s[4]) >> \o Utf8StringToUcs2String(From(s, 4))
         [] s[1] = 252 -> << 56320 + 64 * (s[3] % 16) + (s[4] % 64) >>
                            \o Utf8StringToUcs2String(From(s, 4))
         [] OTHER -> LET n == Following(s[1]) IN
                     Units(Joined(s, n)) \o Utf8StringToUcs2String(From(s, n + 1))

(* A byte is a signed char: from 128 on it is extended with ones.          *)
BstringToUcs2String(s) == [i \in DOMAIN s |-> Wrap(s[i], 8) % 65536]
-----------------------------------------------------------------------------
(* What stands at place i of the memory of a string and behind it.         *)
At(s, i) == IF i <= Len(s) THEN s[i] ELSE 0

Isdigit(c) == c \in 48 .. 57
Isxdigit(c) == Isdigit(c) \/ c \in 65 .. 70 \/ c \in 97 .. 102
XdigitToByte(c) == IF Isdigit(c) THEN c - 48 ELSE 10 + (IF c >= 97 THEN c - 97 ELSE c - 65)

(* What follows a backslash at i: how much is read and what is written.    *)
Simple == (0 :> Backslash) @@ (110 :> 10) @@ (116 :> 9) @@ (98 :> 8) @@ (114 :> 13)
          @@ (102 :> 12) @@ (118 :> 11) @@ (Backslash :> Backslash) @@ (39 :> 39) @@ (Quote :> Quote)
Escape(s, i) ==
  LET c == At(s, i)
      x(k) == XdigitToByte(At(s, i + k))
      self == [read |-> 1, out |-> << c >>]
  IN CASE c \in DOMAIN Simple -> [read |-> 1, out |-> << Simple[c] >>]
       [] c \in {120, 88} /\ \A k \in 1 .. 2 : Isxdigit(At(s, i + k)) ->
            [read |-> 3, out |-> << (16 * x(1) + x(2)) % 256 >>]
       [] c \in {117, 85} /\ \A k \in 1 .. 4 : Isxdigit(At(s, i + k)) ->
            [read |-> 5, out |-> Ucs2ToUtf8String(<< 4096 * x(1) + 256 * x(2) + 16 * x(3) + x(4) >>)]
       [] \A k \in 0 .. 2 : Isdigit(At(s, i + k)) ->
            [read |-> 3, out |-> << (64 * x(0) + 8 * x(1) + x(2)) % 256 >>]
       [] OTHER -> self

(* From place i to end: the bytes that are written and the length that is  *)
(* stored, which is counted down from the length of the source.            *)
RECURSIVE BglEscapeCString(_, _, _, _, _)
BglEscapeCString(s, i, end, dst, len) ==
  IF i > end THEN [bytes |-> dst, length |-> len]
  ELSE IF s[i] # Backslash THEN BglEscapeCString(s, i + 1, end, Append(dst, s[i]), len)
  ELSE LET e == Escape(s, i + 1) IN
       BglEscapeCString(s, i + 1 + e.read, end, dst \o e.out, len - 1 - (e.read - Len(e.out)))

Escaped(s, end) == BglEscapeCString(s, 1, end, <<>>, end)

(* bgl_escape_scheme_string: only n is special.                            *)
RECURSIVE BglEscapeSchemeString(_, _, _, _, _)
BglEscapeSchemeString(s, i, end, dst, len) ==
  IF i > end THEN [bytes |-> dst, length |-> len]
  ELSE IF s[i] # Backslash THEN BglEscapeSchemeString(s, i + 1, end, Append(dst, s[i]), len)
  ELSE LET c == At(s, i + 1) IN
       BglEscapeSchemeString(s, i + 2, end, Append(dst, IF c = 110 THEN 10 ELSE c), len - 1)
-----------------------------------------------------------------------------
(* The tokens of the reader (crgc.c): buf holds a match of n characters    *)
(* and what follows it.  Widths of long and long long, fixnum tag of two   *)
(* bits: numbers small enough to be enumerated.                            *)
Plus == 43
Dash == 45
MaxLong(bits) == 2 ^ (bits - 1) - 1
MaxFixnum == MaxLong(LongBits) \div 4

Isspace(c) == c \in {9, 10, 11, 12, 13, 32}
Number(s) == FoldLeft(LAMBDA acc, c : acc * 10 + (c - 48), 0, s)
Signed(s) == s # <<>> /\ s[1] \in {Plus, Dash}
Literal(s) == LET digits == IF Signed(s) THEN Tail(s) ELSE s
              IN IF s # <<>> /\ s[1] = Dash THEN - Number(digits) ELSE Number(digits)

(* The value wraps around.                                                 *)
RgcBufferFixnum(buf, n) == Wrap(Literal(SubSeq(buf, 1, n)), LongBits)

(* mpz_init_set_str skips white space everywhere and reads to the end; the *)
(* number is zero when there is something else, a plus sign too.           *)
MpzInitSetStr(s) ==
  LET t == SelectSeq(s, LAMBDA c : ~ Isspace(c))
      digits == IF t # <<>> /\ t[1] = Dash THEN Tail(t) ELSE t
  IN IF digits # <<>> /\ \A i \in DOMAIN digits : Isdigit(digits[i]) THEN Literal(t) ELSE 0

(* The match is copied unless white space follows it in the buffer.        *)
RgcBufferBignum(buf, n) ==
  IF n < Len(buf) /\ Isspace(buf[n + 1]) THEN MpzInitSetStr(buf)
  ELSE MpzInitSetStr(SubSeq(buf, 1, n))

(* Mutant: the last digit is not counted in the bound.                     *)
AcceptedLoose(digits, max) ==
  CHOOSE k \in 0 .. Len(digits) :
    /\ \A j \in 0 .. k - 1 : Number(SubSeq(digits, 1, j)) <= max \div 10
    /\ k < Len(digits) => Number(SubSeq(digits, 1, k)) > max \div 10

(* How many digits are read before the value may get too large.            *)
Accepted(digits, max) ==
  CHOOSE k \in 0 .. Len(digits) :
    /\ \A j \in 0 .. k - 1 : Number(SubSeq(digits, 1, j)) <= max \div 10 - 9
    /\ k < Len(digits) => Number(SubSeq(digits, 1, k)) > max \div 10 - 9

(* Decimal literals: as many digits as a long holds for certain, then as   *)
(* many as a long long does, then a bignum.                                *)
RgcBufferInteger(buf, n, llong) ==
  LET match  == SubSeq(buf, 1, n)
      sign   == IF n > 0 /\ match[1] = Dash THEN -1 ELSE 1
      digits == IF Signed(match) THEN Tail(match) ELSE match
      res    == Number(digits)
  IN CASE Accepted(digits, MaxLong(LongBits)) = Len(digits) ->
            [type |-> IF res <= MaxFixnum THEN "fixnum" ELSE "elong",
             value |-> Wrap(res * sign, LongBits)]
       [] Accepted(digits, MaxLong(LongBits)) < Len(digits)
            /\ Accepted(digits, MaxLong(llong)) = Len(digits) ->
            [type |-> "llong", value |-> Wrap(res * sign, llong)]
       [] OTHER -> [type |-> "bignum", value |-> RgcBufferBignum(buf, n)]

Upper(c) == IF c \in 97 .. 122 THEN c - 32 ELSE c
Cased(s, i, len, F(_)) == [k \in DOMAIN s |-> IF k \in i .. i + len - 1 THEN F(s[k]) ELSE s[k]]

(* The case of the match changes in the buffer itself; a keyword leaves a  *)
(* colon out at either end.                                                *)
Subsymbol(buf, offset, end, F(_)) ==
  LET b == Cased(buf, offset + 1, end - offset, F)
  IN [name |-> SubSeq(b, offset + 1, end), buf |-> b]
Keyword(buf, F(_)) ==
  LET first == IF buf[1] = 58 THEN 2 ELSE 1
      b     == Cased(buf, first, Len(buf) - 1, F)
  IN [name |-> SubSeq(b, first, first + Len(buf) - 2), buf |-> b]

RgcBufferSubsymbol(buf, offset, end) == Subsymbol(buf, offset, end, Same)
RgcBufferUpcaseSubsymbol(buf, offset, end) == Subsymbol(buf, offset, end, Upper)
RgcBufferDowncaseSubsymbol(buf, offset, end) == Subsymbol(buf, offset, end, Lower)
RgcBufferKeyword(buf) == Keyword(buf, Same)
RgcBufferDowncaseKeyword(buf) == Keyword(buf, Lower)
RgcBufferUpcaseKeyword(buf) == Keyword(buf, Upper)
-----------------------------------------------------------------------------
(* A string in memory: its length, and its bytes with the zero behind.     *)
StringToBstringLen(s, len) == [length |-> len, memory |-> Append(SubSeq(s, 1, len), 0)]
MakeString(len, c) == [length |-> len, memory |-> Append([i \in 1 .. len |-> c], 0)]
StringAppend(s, t) ==
  [length |-> s.length + t.length,
   memory |-> SubSeq(s.memory, 1, s.length) \o SubSeq(t.memory, 1, t.length + 1)]
StringAppend3(s, t, u) ==
  [length |-> s.length + t.length + u.length,
   memory |-> SubSeq(s.memory, 1, s.length) \o SubSeq(t.memory, 1, t.length)
                \o SubSeq(u.memory, 1, u.length + 1)]
CSubstring(s, min, max) ==
  [length |-> max - min, memory |-> Append(SubSeq(s.memory, min + 1, max), 0)]
BglStringShrink(s, len) ==
  IF len >= s.length THEN s ELSE [length |-> len, memory |-> [s.memory EXCEPT ![len + 1] = 0]]

(* The same for UCS-2 strings; ucs2cpy copies downwards.                   *)
MakeUcs2String(len, c) == [length |-> len, memory |-> Append([i \in 1 .. len |-> c], 0)]
Ucs2cpy(m, at, from, min, len) ==
  FoldRight(LAMBDA k, acc : [acc EXCEPT ![at + k] = from[min + k]], [k \in 1 .. len |-> k], m)
Ucs2StringAppend(s, t) ==
  LET fresh == MakeUcs2String(s.length + t.length, Garbage)
      first == Ucs2cpy(fresh.memory, 0, s.memory, 0, s.length)
  IN [fresh EXCEPT !.memory = Ucs2cpy(first, s.length, t.memory, 0, t.length)]
CSubucs2String(s, min, max) ==
  LET fresh == MakeUcs2String(max - min, Garbage)
  IN [fresh EXCEPT !.memory = Ucs2cpy(@, 0, s.memory, min, max - min)]
CUcs2StringCopy(s) == [length |-> s.length, memory |-> Append(SubSeq(s.memory, 1, s.length), 0)]

(* memcpy may copy upwards, memmove copies as if there were no overlap.    *)
Memmove(m, src, dest, len) ==
  [i \in DOMAIN m |-> IF i \in dest + 1 .. dest + len THEN m[src + i - dest] ELSE m[i]]
Memcpy(m, src, dest, len) ==
  FoldLeft(LAMBDA acc, k : [acc EXCEPT ![dest + k] = acc[src + k]], m, [k \in 1 .. len |-> k])

(* Mutant: memcpy for areas that start at different places.                *)
BlitUpwards(m, src, dest, len) == Memcpy(m, src, dest, len)

(* blit-string! within one string.                                         *)
BlitString(m, src, dest, len) ==
  IF src + len <= dest \/ dest + len <= src THEN Memcpy(m, src, dest, len)
  ELSE Memmove(m, src, dest, len)

(* The bytes of a double or of a float, most significant first whatever    *)
(* the machine.                                                            *)
Ordered8(bytes, bigEndian) == IF bigEndian THEN bytes ELSE Reverse(bytes)
BglDoubleToIeeeString(o, bigEndian) == Ordered8(o, bigEndian)
BglIeeeStringToDouble(s, bigEndian) == Ordered8(s, bigEndian)
BglFloatToIeeeString(o, bigEndian) == Ordered8(o, bigEndian)
BglIeeeStringToFloat(s, bigEndian) == Ordered8(s, bigEndian)

(* Mutant: a control character is printed with as many digits as it needs. *)
OctalShort(c) == << Backslash >> \o (IF c < 8 THEN << 48 + c >> ELSE << 48 + c \div 8, 48 + (c % 8) >>)

Octal(c) == << Backslash, 48 + c \div 64, 48 + Bits(c, 3, 3), 48 + (c % 8) >>

Letters == (10 :> 110) @@ (9 :> 116) @@ (8 :> 98) @@ (13 :> 114) @@ (12 :> 102) @@ (11 :> 118)
           @@ (Quote :> Quote) @@ (Backslash :> Backslash)
CreateStringForRead(s, symbolp) ==
  FlattenSeq([i \in DOMAIN s |->
    CASE s[i] \in DOMAIN Letters -> << Backslash, Letters[s[i]] >>
      [] s[i] = Bar /\ symbolp -> << Backslash, Bar >>
      [] s[i] \notin DOMAIN Letters /\ s[i] < 32 -> Octal(s[i])
      [] OTHER -> << s[i] >>])
-----------------------------------------------------------------------------
(* The order of the dictionary, on the characters that F makes of them.    *)
Before(a, b, F(_)) ==
  \/ Len(a) < Len(b) /\ \A i \in DOMAIN a : F(a[i]) = F(b[i])
  \/ \E i \in DOMAIN a \cap DOMAIN b :
       F(a[i]) < F(b[i]) /\ \A j \in 1 .. i - 1 : F(a[j]) = F(b[j])
Equal(a, b, F(_)) == Len(a) = Len(b) /\ \A i \in DOMAIN a : F(a[i]) = F(b[i])

(* The comparisons of strings, zero characters included, are those of one  *)
(* order and its equality; a comparison at an offset and of a length is    *)
(* that of the substrings; but for substring-ci-at?, which says no when    *)
(* the strings go on to agree behind the length, and but for               *)
(* ucs2-string-ci=? when no zero ends one of the strings (a string made    *)
(* from UTF-8 has none, cunicode.c:697): it compares what stands behind    *)
(* them (246), and may find equal strings different, never different ones  *)
(* equal.                                                                  *)
ComparisonsAgree ==
  text.kind \in {"compare", "ucs2 compare"} =>
    LET a == text.a
        b == text.b
    IN /\ text.kind = "compare" =>
            /\ BiglooStringLt(a, b) = Before(a, b, Same) /\ BiglooStringGt(a, b) = Before(b, a, Same)
            /\ BiglooStringLe(a, b) = ~ Before(b, a, Same) /\ BiglooStringGe(a, b) = ~ Before(a, b, Same)
            /\ BiglooStringCilt(a, b) = Before(a, b, Lower) /\ BiglooStringCigt(a, b) = Before(b, a, Lower)
            /\ BiglooStringCile(a, b) = ~ Before(b, a, Lower) /\ BiglooStringCige(a, b) = ~ Before(a, b, Lower)
            /\ BiglooStrcmp(a, b) = (a = b) /\ BiglooStrcicmp(a, b) = Equal(a, b, Lower)
            /\ \A l \in 0 .. 3 :
                 /\ BiglooStrncmp(a, b, l) = (Len(a) >= l /\ Len(b) >= l /\ SubSeq(a, 1, l) = SubSeq(b, 1, l))
                 /\ BiglooStrncmpCi(a, b, l) = (/\ Len(a) >= l /\ Len(b) >= l
                                                /\ Equal(SubSeq(a, 1, l), SubSeq(b, 1, l), Lower))
            /\ \A d \in 0 .. Len(b) :
                 LET rest == From(b, d) IN
                 /\ BiglooStrcmpAt(b, a, d) = IsPrefix(a, rest)
                 /\ BiglooStrcmpCiAt(b, a, d) = (Len(a) <= Len(rest) /\ Equal(a, SubSeq(rest, 1, Len(a)), Lower))
                 /\ \A l \in 0 .. 3 :
                      LET m == Least(Len(a), l) IN
                      /\ BiglooStrncmpAt(b, a, d, l) = IsPrefix(SubSeq(a, 1, m), rest)
                      /\ BiglooStrncmpCiAt(b, a, d, l) =>
                           Equal(SubSeq(a, 1, m), SubSeq(rest, 1, m), Lower)
                      /\ l >= Len(a) /\ BiglooStrcmpCiAt(b, a, d) => BiglooStrncmpCiAt(b, a, d, l)
       /\ text.kind = "ucs2 compare" =>
            /\ Ucs2StringLt(a, b) = Before(a, b, Same) /\ Ucs2StringGt(a, b) = Before(b, a, Same)
            /\ Ucs2StringLe(a, b) = ~ Before(b, a, Same) /\ Ucs2StringGe(a, b) = ~ Before(a, b, Same)
            /\ Ucs2StringCilt(a, b) = Before(a, b, Lower) /\ Ucs2StringCigt(a, b) = Before(b, a, Lower)
            /\ Ucs2StringCile(a, b) = ~ Before(b, a, Lower) /\ Ucs2StringCige(a, b) = ~ Before(a, b, Lower)
            /\ Ucs2Strcmp(a, b) = (a = b)
            /\ Ucs2Strcicmp(a, 0, b, text.end) => Equal(a, b, Lower)
            /\ text.end = 0 => Ucs2Strcicmp(a, 0, b, text.end) = Equal(a, b, Lower)

-----------------------------------------------------------------------------
(* Hash numbers.  The widths are scaled: words of 2 bytes, ints of 8 bits, *)
(* hash numbers of 6; a string is long from 9 bytes on.                    *)
WordBytes == 2      \* of a long
IntBits   == 8      \* of int32_t
HashBits  == 6      \* 29
HalfSize  == 2      \* LONG_HALF_SIZE

Char(c) == Wrap(c, 8)                        \* char is signed
RandomTable(x) == ((x * 5) + 1) % 256        \* hash_random_table: a permutation
Mixed(bytes) == FoldLeft(LAMBDA h, c : RandomTable(h ^^ c), 0, bytes)
Nines(bytes) == FoldLeft(LAMBDA r, c : (r * 9 + c) % (2 ^ (8 * WordBytes)), 0, bytes)
UntilZero(s) == IF 0 \in ToSet(s) THEN SubSeq(s, 1, SelectInSeq(s, LAMBDA c : c = 0) - 1) ELSE s
BytesOf(i) == [k \in 1 .. (CHOOSE n \in 0 .. WordBytes : i < 256 ^ n /\ (n = 0 \/ i >= 256 ^ (n - 1)))
                 |-> Bits(i, 8 * (k - 1), 8)]

GetHashNumber(s) == Mixed(UntilZero(s))
BglGetHashNumberLen(s, start, len) == Mixed(SubSeq(s, 1, len - start))    \* from the first byte
GetHashPowerNumber(s, power) ==
  Nines([i \in 1 .. Len(UntilZero(s)) |-> Char(s[i])]) % (2 ^ power)
GetHashPowerNumberLen(s, power, len) == Nines([i \in 1 .. len |-> Char(s[i])]) % (2 ^ power)
GetHashNumberFromInt(i) == Mixed(BytesOf(i))
GetHashPowerNumberFromInt(i, power) == Nines(BytesOf(i)) % (2 ^ power)

Times33(r, xs, bits) == FoldLeft(LAMBDA acc, x : Wrap(acc * 33 + x, bits), r, xs)
Chars(s, start, end) == [i \in 1 .. end - start |-> Char(s[start + i])]
Longs(s, from, to) ==   \* the words of s from word from to word to - 1
  [k \in 1 .. (IF to > from THEN to - from ELSE 0) |->
     LET at == WordBytes * (from + k - 1) IN Wrap(s[at + 1] + 256 * s[at + 2], 8 * WordBytes)]

(* Half of the bytes at both ends, and the words from HalfSize on, which   *)
(* are not counted from start.                                             *)
BglStringHash(s, start, end) ==
  LET long == 8 * WordBytes
      head == Times33(5381, Chars(s, start, start + HalfSize), long)
      mid  == Times33(head, Longs(s, HalfSize \div WordBytes, (end - HalfSize) \div WordBytes), long)
      tail == Times33(mid, Chars(s, end - HalfSize, end), long)
  IN IF end - start > 4 * HalfSize THEN (tail + (end - start)) % (2 ^ HashBits)
     ELSE Times33(5381, Chars(s, start, end), long) % (2 ^ HashBits)
BglStringHashPersistent(s, start, end) ==
  Times33(Wrap(5381, IntBits), Chars(s, start, end), IntBits) % (2 ^ HashBits)
BglSymbolHashNumber(s)  == 1 + BglStringHash(s, 0, Len(s))
BglKeywordHashNumber(s) == 2 + BglStringHash(s, 0, Len(s))
BglSymbolHashNumberPersistent(s)  == Wrap(1 + BglStringHashPersistent(s, 0, Len(s)), IntBits)
BglKeywordHashNumberPersistent(s) == Wrap(2 + BglStringHashPersistent(s, 0, Len(s)), IntBits)
-----------------------------------------------------------------------------
(* The surrogates of a string that its UTF-8 form loses: a high one of the *)
(* last plane that stands alone, and a low one in front of a low one.      *)
RECURSIVE Lossy(_)
Lossy(s) ==
  /\ s # <<>>
  /\ LET paired == Utf8Size(s[1]) = 4 /\ Len(s) > 1 /\ IsLow(s[2]) IN
     \/ s[1] \in 56256 .. 56319 /\ ~ paired
     \/ IsLow(s[1]) /\ paired
     \/ Lossy(IF paired THEN From(s, 2) ELSE Tail(s))

(* A printed integer reads as the same integer, padded or not; but the     *)
(* smallest long, padded, has two signs in radix 10 (and a byte more than  *)
(* its string holds), and a bit too many in radix 2 if the padding is wide *)
(* enough to show it (cstring.c:271, 293, 318).  A string or symbol        *)
(* written for the reader is read back as it was, whatever follows its     *)
(* control characters; an escaped literal has the length that was stored,  *)
(* unless a backslash ends it.  UCS-2 strings survive the way through      *)
(* UTF-8, lone surrogates included, but for the lossy ones.                *)
TextSurvives ==
  /\ text.kind = "print" =>
       /\ Printed(IntegerToString(text.x, text.radix)) = text.x
       /\ Printed(LlongToString(text.x, text.radix)) = text.x
       /\ LET s == IntegerToStringPadding(text.x, text.padding, text.radix) IN
          PaddedWrong(text.x, text.padding, text.radix)
            \/ (Printed(s) = text.x /\ Minus \notin ToSet(Tail(s)))
       /\ text.x >= 0 => /\ UnsignedToString(text.x, text.radix) = IntegerToString(text.x, text.radix)
                         /\ UllongToString(text.x, text.radix) = IntegerToString(text.x, text.radix)
  /\ text.kind = "literal" => \A symbolp \in BOOLEAN :
       LET w == CreateStringForRead(text.a, symbolp) IN
       Escaped(Append(w, IF symbolp THEN Bar ELSE Quote), Len(w)) = [bytes |-> text.a, length |-> Len(text.a)]
  /\ text.kind = "escape" =>
       LET e == Escaped(Append(text.a, text.b), Len(text.a)) IN
       /\ e.length = Len(e.bytes) \/ Last(text.a) = Backslash
       /\ LET e5 == BglEscapeSchemeString(Append(text.a, text.b), 1, Len(text.a), <<>>, Len(text.a))
          IN e5.length = Len(e5.bytes) \/ Last(text.a) = Backslash
  /\ text.kind = "ucs2" =>
       (Utf8StringToUcs2String(Ucs2ToUtf8String(text.a)) = text.a) = ~ Lossy(text.a)

(* A decimal literal of the reader has its value, in the smallest type of  *)
(* those that surely hold it, and no digit count makes it wrap around;     *)
(* but for a bignum with a plus sign, which GMP refuses, or that is        *)
(* followed by white space, which GMP reads past.                          *)
(* A keyword loses its colon at either end, symbols keep what is not       *)
(* letters, and only the match changes in the buffer.  The strings made of *)
(* others are what they should be, with a zero behind them, and a blit     *)
(* inside one string copies what was there before.  The hash number of a   *)
(* string is that of its copies, in both widths and with or without its    *)
(* length, and that of a number the one of its bytes; but the part of a    *)
(* string that does not start it, when it is long, has a number that its   *)
(* copy does not have.                                                     *)
TokensExact ==
  /\ text.kind = "integer" =>
       LET match == << text.sign >> \o text.a
           buf   == match \o text.after
           read  == RgcBufferInteger(buf, Len(match), text.llong)
           value == Literal(match)
       IN /\ \/ read.value = value
             \/ read.type = "bignum" /\ text.after # <<>> /\ Isspace(text.after[1]) /\ Len(text.after) > 1
             \/ read.type = "bignum" /\ text.sign = Plus
          /\ read.type = "fixnum" <=> Absolute(value) <= MaxFixnum
          /\ read.type = "fixnum" => RgcBufferFixnum(buf, Len(match)) = value
  /\ text.kind = "token" =>
       LET buf == CASE text.colon = "first" -> << 58 >> \o text.a
                    [] text.colon = "last" -> Append(text.a, 58)
                    [] OTHER -> text.a
           up  == [i \in DOMAIN text.a |-> Upper(text.a[i])]
           low == [i \in DOMAIN text.a |-> Lower(text.a[i])]
           end == Len(buf) - (IF text.colon = "last" THEN 1 ELSE 0)
           off == IF text.colon = "first" THEN 1 ELSE 0
       IN /\ RgcBufferSubsymbol(buf, off, end).name = text.a
          /\ RgcBufferUpcaseSubsymbol(buf, off, end).name = up
          /\ RgcBufferDowncaseSubsymbol(buf, off, end).name = low
          /\ text.colon # "none" => /\ RgcBufferKeyword(buf) = [name |-> text.a, buf |-> buf]
                                    /\ RgcBufferUpcaseKeyword(buf).name = up
                                    /\ RgcBufferDowncaseKeyword(buf).name = low
                                    /\ 58 \in ToSet(RgcBufferDowncaseKeyword(buf).buf)
  /\ text.kind = "edit" =>
       LET a == StringToBstringLen(text.a, Len(text.a))
           b == StringToBstringLen(text.b, Len(text.b))
           Is(s, bytes) == s = [length |-> Len(bytes), memory |-> Append(bytes, 0)]
       IN /\ Is(StringAppend(a, b), text.a \o text.b)
          /\ Is(StringAppend3(a, b, a), text.a \o text.b \o text.a)
          /\ \A max \in 0 .. Len(text.a) :
               /\ \A min \in 0 .. max : Is(CSubstring(a, min, max), SubSeq(text.a, min + 1, max))
               /\ Is(StringAppend(b, BglStringShrink(a, max)), text.b \o SubSeq(text.a, 1, max))
               /\ Is(StringAppend(a, MakeString(max, 97)), text.a \o [i \in 1 .. max |-> 97])
          /\ \A src, dest \in 0 .. Len(text.a), len \in 0 .. Len(text.a) :
               src + len <= Len(text.a) /\ dest + len <= Len(text.a) =>
                 BlitString(text.a, src, dest, len) = Memmove(text.a, src, dest, len)
          /\ LET u == CUcs2StringCopy(a)
                 v == CUcs2StringCopy(b)
             IN /\ Is(Ucs2StringAppend(u, v), text.a \o text.b)
                /\ \A max \in 0 .. Len(text.a), min \in 0 .. Len(text.a) :
                     min <= max => Is(CSubucs2String(Ucs2StringAppend(u, v), min, max),
                                      SubSeq(text.a, min + 1, max))
  /\ text.kind = "hash" =>
       LET a == text.a
           n == Len(a)
           number == FoldRight(LAMBDA c, acc : acc * 256 + c, SubSeq(a, 1, Least(n, WordBytes)), 0)
           bytes == BytesOf(number)
       IN /\ 0 \notin ToSet(a) =>
               /\ GetHashNumber(a) = BglGetHashNumberLen(a, 0, n)
               /\ \A power \in {4, 12} : GetHashPowerNumber(a, power) = GetHashPowerNumberLen(a, power, n)
          /\ GetHashNumberFromInt(number) = BglGetHashNumberLen(bytes, 0, Len(bytes))
          /\ \A power \in {4, 8} :
               GetHashPowerNumberFromInt(number, power) = GetHashPowerNumberLen(bytes, power, Len(bytes))
          /\ \A start, end \in 0 .. n : start <= end =>
               LET copy == SubSeq(a, start + 1, end)
                   long == end - start > 4 * HalfSize
                   hash == BglStringHash(a, start, end)
               IN /\ start = 0 \/ ~ long => hash = BglStringHash(copy, 0, Len(copy))
                  /\ ~ long => hash = BglStringHashPersistent(a, start, end)
          /\ n <= 4 * HalfSize => /\ BglSymbolHashNumber(a) = BglSymbolHashNumberPersistent(a)
                                  /\ BglKeywordHashNumber(a) = BglKeywordHashNumberPersistent(a)
  /\ text.kind = "ieee" => \A bigEndian \in BOOLEAN :
       LET o == Ordered8(text.a, bigEndian) IN
       /\ BglDoubleToIeeeString(o, bigEndian) = text.a /\ BglIeeeStringToDouble(text.a, bigEndian) = o
       /\ BglFloatToIeeeString(o, bigEndian) = text.a /\ BglIeeeStringToFloat(text.a, bigEndian) = o
=============================================================================
