-------------------------- MODULE DoubleFunctions --------------------------
(***************************************************************************)
(* The functions of lib/libc/src/math.c that take one double apart: the    *)
(* integral parts, the exponents and the square root.                      *)
(***************************************************************************)
EXTENDS DoubleWords

CONSTANTS
  IntBits,       (* the width of the exponents that ldexp is given: 32    *)
  Far            (* scalbn: an exponent out of reach, 50000               *)

(* Only a sum of exponents that wraps around has an exponent above Far.    *)
ASSUME FarAssumption ==
  /\ IntBits \in Nat \ {0} /\ Far \in Nat
  /\ P < Far /\ Far + MaxExp <= 2 ^ (IntBits - 1) /\ P + 2 + MaxExp <= 2 ^ (IntBits - 1)

(***************************************************************************)
(* Integral parts.  ceil and floor go outward, away from zero, on the      *)
(* numbers of one sign, and modf never does.                               *)
(***************************************************************************)
Integral(d, outward) ==
  LET j0   == Exponent(d) - Bias
      high == 2 ^ (H - j0)
      low  == 2 ^ (P - j0)
      i0   == IF outward THEN Wrap(d.hi + high) ELSE d.hi
      i1   == IF outward THEN d.lo + low ELSE d.lo
  IN  CASE j0 < 0 /\ outward -> IF IsZero(d) THEN d ELSE Double(SignBit(d) + Bias * 2 ^ H, 0)
        [] j0 < 0 /\ ~ outward -> Zero(SignBit(d))
        [] j0 \in 0 .. H - 1 -> IF d.hi % high = 0 /\ d.lo = 0 THEN d ELSE Double(i0 - (i0 % high), 0)
        [] j0 \in H .. P - 1 -> IF d.lo % low = 0 THEN d
                                ELSE Double(Wrap(d.hi + i1 \div Word), Wrap(i1) - (Wrap(i1) % low))
        [] j0 >= P -> d

floor(d) == Integral(d, Negative(d))
ceil(d)  == Integral(d, ~ Negative(d))
fabs(d)  == Double(Magnitude(d), d.lo)

modf(d) ==
  LET iptr == Integral(d, FALSE)
  IN  [integral |-> iptr,
       fraction |-> IF iptr = d THEN Zero(SignBit(d))
                    ELSE Encode(SignBit(d), Units(d) - Units(iptr))]
-----------------------------------------------------------------------------
(***************************************************************************)
(* Exponents.                                                              *)
(***************************************************************************)
(* Mutant: the exponent that the number had is not cleared. *)
WithExponent_Added(d, k) == Double(d.hi + k * 2 ^ H, d.lo)

WithExponent(d, k) == Double(SignBit(d) + k * 2 ^ H + (d.hi % 2 ^ H), d.lo)

(* Mutant: the scale of a subnormal number stays in the exponent. *)
frexp_Scaled(d) ==
  LET normal == IF Exponent(d) = 0 THEN TimesTwo54(d) ELSE d
  IN  IF ~ finite(d) \/ IsZero(d) THEN [fraction |-> d, exp |-> 0]
      ELSE [fraction |-> WithExponent(normal, Bias - 1), exp |-> Exponent(normal) - (Bias - 1)]

frexp(d) ==
  LET scaled == Exponent(d) = 0
      normal == IF scaled THEN TimesTwo54(d) ELSE d
  IN  IF ~ finite(d) \/ IsZero(d) THEN [fraction |-> d, exp |-> 0]
      ELSE [fraction |-> WithExponent(normal, Bias - 1),
            exp |-> Exponent(normal) - (Bias - 1) - IF scaled THEN P + 2 ELSE 0]

WrapInt(n) == ((n + 2 ^ (IntBits - 1)) % 2 ^ IntBits) - 2 ^ (IntBits - 1)

(* Mutant: an exponent that wrapped around is taken for a small one. *)
OutOfReach_Unsure(n, sign) == Zero(sign)

(* k is far below zero: the sum of the exponents is, or it wrapped around. *)
OutOfReach(n, sign) == IF n > Far THEN Infinity(sign) ELSE Zero(sign)

scalbn(d, n) ==
  LET scaled == Exponent(d) = 0
      normal == IF scaled THEN TimesTwo54(d) ELSE d
      k      == WrapInt(Exponent(normal) - (IF scaled THEN P + 2 ELSE 0) + n)
  IN  CASE IsZero(d) \/ ~ finite(d)  -> d
        [] scaled /\ n < -Far        -> Zero(SignBit(d))
        [] OTHER ->
             CASE k >= MaxExp        -> Infinity(SignBit(d))
               [] k \in 1 .. MaxExp - 1 -> WithExponent(normal, k)
               [] k <= -(P + 2)      -> OutOfReach(n, SignBit(d))
               [] OTHER              -> TimesTwom54(WithExponent(normal, k + P + 2))
-----------------------------------------------------------------------------
(***************************************************************************)
(* sqrt: one bit of the root at a time, first those of the high word.      *)
(***************************************************************************)
Doubled(s) == [s EXCEPT !.ix0 = 2 * @ + TopBit(s.ix1), !.ix1 = Shl(@, 1)]

HighStep(s, r) ==
  LET t == s.s0 + r
  IN  Doubled(IF t > s.ix0 THEN s
              ELSE [s EXCEPT !.s0 = t + r, !.ix0 = @ - t, !.q = @ + r])

LowStep(s, r) ==
  LET t1 == Wrap(s.s1 + r)
      s1 == Wrap(t1 + r)
      borrow == IF s.ix1 < t1 THEN 1 ELSE 0
  IN  Doubled(IF s.s0 > s.ix0 \/ (s.s0 = s.ix0 /\ t1 > s.ix1) THEN s
              ELSE [s EXCEPT !.s1 = s1,
                             !.s0 = @ + IF TopBit(t1) = 1 /\ TopBit(s1) = 0 THEN 1 ELSE 0,
                             !.ix0 = @ - s.s0 - borrow,
                             !.ix1 = Wrap(@ - t1),
                             !.q1 = @ + r])

Roots(s) ==
  LET high[j \in 0 .. H + 2] ==
        IF j = 0 THEN s ELSE HighStep(high[j - 1], 2 ^ (H + 2 - j))
      low[j \in 0 .. W] ==
        IF j = 0 THEN high[H + 2] ELSE LowStep(low[j - 1], 2 ^ (W - j))
  IN  low[W]

(* A subnormal number is shifted until its first bit is where that of a    *)
(* normal one is.  When the first loop has got it there already, the       *)
(* second asks for a shift by a whole word, for which a processor answers  *)
(* with nothing or with the word itself.                                   *)
ShiftOut(ix1, i, whole) ==
  IF i > 0 THEN Shr(ix1, W - i) ELSE IF whole THEN ix1 ELSE 0

LiftWord(s) ==
  IF s.ix0 # 0 THEN s
  ELSE [ix0 |-> Shr(s.ix1, E), ix1 |-> Shl(s.ix1, H + 1), m |-> s.m - (H + 1)]

LiftedHigh(s) ==
  LET lifted[j \in 0 .. W] == IF j = 0 THEN s ELSE LiftWord(lifted[j - 1])
  IN  lifted[W]

Lifted(d, whole) ==
  LET s == LiftedHigh([ix0 |-> d.hi, ix1 |-> d.lo, m |-> 0])
      i == Min({j \in 0 .. H : s.ix0 * 2 ^ j >= 2 ^ H})
  IN  IF d.hi >= 2 ^ H THEN [ix0 |-> d.hi, ix1 |-> d.lo, m |-> Shr(d.hi, H)]
      ELSE [ix0 |-> BitOr(Shl(s.ix0, i), ShiftOut(s.ix1, i, whole)),
            ix1 |-> Shl(s.ix1, i), m |-> s.m - (i - 1)]

RoundedRoot(s) ==
  IF s.ix0 = 0 /\ s.ix1 = 0 THEN s
  ELSE IF s.q1 = Word - 1 THEN [s EXCEPT !.q1 = 0, !.q = @ + 1]
  ELSE [s EXCEPT !.q1 = @ + (@ % 2)]

PositiveRoot(d, whole) ==
  LET lifted == Lifted(d, whole)
      m    == lifted.m - Bias
      ix0  == 2 ^ H + (lifted.ix0 % 2 ^ H)
      s    == [ix0 |-> ix0, ix1 |-> lifted.ix1, s0 |-> 0, s1 |-> 0, q |-> 0, q1 |-> 0]
      root == RoundedRoot(Roots(Doubled(IF m % 2 = 1 THEN Doubled(s) ELSE s)))
  IN  Double(Wrap((root.q \div 2) + (Bias - 1) * 2 ^ H + (m \div 2) * 2 ^ H),
             (root.q1 \div 2) + (root.q % 2) * (Word \div 2))

sqrt(d, whole) ==
  CASE IsZero(d) -> d
    [] IsNaN(d) \/ (Negative(d) /\ ~ IsZero(d)) -> NaN
    [] d = Infinity(0) -> d
    [] OTHER -> PositiveRoot(d, whole)

RangeError(d) == ~ finite(d) \/ IsZero(d)
-----------------------------------------------------------------------------
(***************************************************************************)
(* fmod.  The low words are ints here, so that they compare, and shift to  *)
(* the right, with a sign.                                                 *)
(***************************************************************************)
AsInt(i) == Signed(Wrap(i))

Invalid(dx, dy) ==
  \/ IsZero(dy) \/ ~ finite(dx)
  \/ dy.lo = 0 /\ Magnitude(dy) > MaxExp * 2 ^ H

Less(lx, ly) == Signed(lx) < Signed(ly)

LeadingZeros(w) ==
  IF Signed(w) <= 0 THEN 0 ELSE Min({c \in 0 .. W - 1 : w * 2 ^ c >= Word \div 2})

(* The exponent of a number whose high word, without its sign, is hx. *)
LogB(hx, lx) ==
  IF hx >= 2 ^ H THEN (hx \div 2 ^ H) - Bias
  ELSE IF hx = 0 THEN -(Bias + H) - LeadingZeros(lx)
  ELSE -(Bias - 1) - LeadingZeros(Shl(hx, E))

Normalized(hx, lx) ==
  LET shift == -(Bias - 1) - LogB(hx, lx)
  IN  IF shift <= 0 THEN Double(2 ^ H + (hx % 2 ^ H), lx)
      ELSE IF shift < W THEN Double(BitOr(Shl(hx, shift), Sar(lx, W - shift)), Shl(lx, shift))
      ELSE Double(Shl(lx, shift - W), 0)

Minus(u, v) ==
  Double(Wrap(u.hi - v.hi - IF Less(u.lo, v.lo) THEN 1 ELSE 0), Wrap(u.lo - v.lo))

(* Mutant: nothing left is no reason to stop. *)
Exhausted_Never(u) == FALSE

Exhausted(u) == u = Zero(0)

Twice(u, carry) == Double(Wrap(2 * u.hi + carry), Shl(u.lo, 1))

Packed(sx, u, exp) ==
  LET shift == -(Bias - 1) - exp
  IN  IF shift <= 0 THEN Double(BitOr(BitOr(Wrap(u.hi - 2 ^ H), Wrap((exp + Bias) * 2 ^ H)), sx), u.lo)
      ELSE IF shift <= H THEN
        Double(BitOr(Shr(u.hi, shift), sx), BitOr(Sar(u.lo, shift), Shl(u.hi, W - shift)))
      ELSE IF shift < W THEN Double(sx, BitOr(Shl(u.hi, W - shift), Sar(u.lo, shift)))
      ELSE Double(sx, Shr(u.hi, (shift - W) % W))
=============================================================================
