---------------------------- MODULE DoubleWords ----------------------------
(***************************************************************************)
(* A double as lib/libc/src/math.c sees it: two words, of which the high   *)
(* one holds the sign, the exponent and the first bits of the fraction.    *)
(* The widths are parameters, and the literals of the source are what they *)
(* are in terms of them.  A word is a number below 2 ^ W, and an int is    *)
(* read off it by Signed.  The kernel is built without optimisation: the   *)
(* arithmetic of ints wraps around.                                        *)
(***************************************************************************)
EXTENDS Integers, FiniteSetsExt

CONSTANTS
  E,             (* bits of the exponent: 11                              *)
  H              (* bits of the fraction in the high word: 20             *)

ASSUME WidthAssumption == E \in Nat \ {0, 1} /\ H \in Nat \ {0}

W      == 1 + E + H              (* 32 *)
P      == H + W                  (* 52: bits of the fraction *)
Word   == 2 ^ W
Bias   == 2 ^ (E - 1) - 1        (* 1023 *)
MaxExp == 2 ^ E - 1              (* 0x7ff: infinity and NaN *)

(* two54 is a double, and makes every subnormal number a normal one.       *)
ASSUME RangeAssumption == P + 2 < MaxExp

Wrap(n)   == n % Word
Signed(w) == IF w >= Word \div 2 THEN w - Word ELSE w
Shl(w, n) == Wrap(w * 2 ^ n)
Shr(w, n) == w \div 2 ^ n
Sar(w, n) == Wrap(Signed(w) \div 2 ^ n)

TopBit(w) == Shr(w, W - 1)

(* The or of two words, bit by bit. *)
BitOr(v, w) ==
  LET or[i \in 0 .. W] ==
        IF i = 0 THEN 0
        ELSE or[i - 1] + 2 ^ (i - 1) * Max({Shr(v, i - 1) % 2, Shr(w, i - 1) % 2})
  IN  or[W]

Double(hi, lo) == [hi |-> hi, lo |-> lo]
Doubles == [hi : 0 .. Word - 1, lo : 0 .. Word - 1]

SignBit(d)   == d.hi - (d.hi % (Word \div 2))
Magnitude(d) == d.hi % (Word \div 2)
Exponent(d)  == Magnitude(d) \div 2 ^ H
Negative(d)  == SignBit(d) # 0
IsZero(d)    == Magnitude(d) = 0 /\ d.lo = 0
IsNaN(d)     == Exponent(d) = MaxExp /\ (d.hi % 2 ^ H # 0 \/ d.lo # 0)
finite(d)    == Magnitude(d) < MaxExp * 2 ^ H

Zero(sign)     == Double(sign, 0)
Infinity(sign) == Double(sign + MaxExp * 2 ^ H, 0)
NaN            == Double(MaxExp * 2 ^ H + 2 ^ (H - 1), 0)
-----------------------------------------------------------------------------
(***************************************************************************)
(* The processor's arithmetic.  A finite magnitude is counted in units of  *)
(* the smallest one above zero.                                            *)
(***************************************************************************)
Bits(d)  == Magnitude(d) * Word + d.lo
Units(d) == IF Exponent(d) = 0 THEN Bits(d)
            ELSE (2 ^ P + (Bits(d) % 2 ^ P)) * 2 ^ (Exponent(d) - 1)

(* The number of that many units, when there is one. *)
Encode(sign, units) ==
  LET k    == Max({0} \cup {j \in 1 .. MaxExp : 2 ^ (P + j) <= units})
      bits == units \div 2 ^ k + k * 2 ^ P
  IN  IF bits >= MaxExp * 2 ^ P THEN Infinity(sign)
      ELSE Double(sign + bits \div Word, Wrap(bits))

Nearest(units, k) ==
  LET down == units \div 2 ^ k
      rest == units % 2 ^ k
  IN  IF 2 * rest > 2 ^ k \/ (2 * rest = 2 ^ k /\ down % 2 = 1) THEN down + 1 ELSE down

TimesTwo54(d)  == Encode(SignBit(d), Units(d) * 2 ^ (P + 2))
TimesTwom54(d) == Encode(SignBit(d), Nearest(Units(d), P + 2))
=============================================================================
