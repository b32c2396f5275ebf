------------------------------- MODULE CInteger -------------------------------
(***************************************************************************)
(* The arithmetic of C integers: two's complement numbers of a width, and  *)
(* division that rounds towards zero.                                      *)
(***************************************************************************)
EXTENDS Integers

Absolute(n) == IF n < 0 THEN -n ELSE n
Sign(n)     == IF n < 0 THEN -1 ELSE IF n = 0 THEN 0 ELSE 1

InRange(n, bits) == - (2 ^ (bits - 1)) <= n /\ n < 2 ^ (bits - 1)

(* n as a signed number of that many bits.                                 *)
Wrap(n, bits) == LET m == n % (2 ^ bits) IN IF m < 2 ^ (bits - 1) THEN m ELSE m - 2 ^ bits

(* The operators / and %.                                                  *)
CDiv(a, b) == Sign(a) * Sign(b) * (Absolute(a) \div Absolute(b))
CMod(a, b) == a - b * CDiv(a, b)

(* The bits of n from bit lo upwards, that many of them: (n >> lo) & mask. *)
Bits(n, lo, many) == (n \div 2 ^ lo) % (2 ^ many)
=============================================================================
