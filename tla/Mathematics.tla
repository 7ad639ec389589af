---------------------------- MODULE Mathematics ----------------------------
(***************************************************************************)
(* A program that applies the functions of lib/libc/src/math.c to what     *)
(* they return.  fmod, which loops for as long as the numbers make it,     *)
(* runs one turn of a loop at a time.                                      *)
(***************************************************************************)
EXTENDS DoubleFunctions

CONSTANTS
  Dividends,     (* the numbers that fmod is called for ...               *)
  Divisors       (* ... and those it divides them by                      *)

ASSUME ArgumentAssumption == Dividends \cup Divisors \subseteq Doubles

VARIABLES
  x,             (* the number at hand                                    *)
  errno,
  pc,            (* of fmod: "idle", "start", "reduce" or "renormalize"   *)
  y,             (* the divisor                                           *)
  a, b,          (* the words left of x, and those of y, both normalized  *)
  iy, n          (* the exponent of y, and the turns left                 *)

fmodVars == <<pc, y, a, b, iy, n>>
vars     == <<x, errno, fmodVars>>

Exponents == -(2 ^ (IntBits - 1)) .. 2 ^ (IntBits - 1) - 1

Init ==
  /\ x \in Doubles /\ errno = -1
  /\ pc = "idle" /\ y = Zero(0) /\ a = Zero(0) /\ b = Zero(0) /\ iy = 0 /\ n = 0

Return(d) == x' = d /\ UNCHANGED errno

ldexp(value, exp) ==
  IF ~ finite(value) \/ IsZero(value) THEN Return(value)
  ELSE /\ x' = scalbn(value, exp)
       /\ errno' = IF RangeError(x') THEN -1 ELSE errno

(* Nothing in the library clears errno, which begins as -1. *)
ClearErrno == errno' = 0 /\ UNCHANGED x

CallOne ==
  /\ pc = "idle"
  /\ \/ ClearErrno
     \/ Return(floor(x)) \/ Return(ceil(x)) \/ Return(fabs(x))
     \/ Return(modf(x).integral) \/ Return(modf(x).fraction)
     \/ Return(frexp(x).fraction)
     \/ \E whole \in BOOLEAN : Return(sqrt(x, whole))
     \/ \E exp \in Exponents : ldexp(x, exp)
  /\ UNCHANGED fmodVars
-----------------------------------------------------------------------------
(***************************************************************************)
(* fmod.                                                                   *)
(***************************************************************************)
CallFmod ==
  /\ pc = "idle" /\ x \in Dividends
  /\ y' \in Divisors
  /\ pc' = "start"
  /\ UNCHANGED <<x, errno, a, b, iy, n>>

Answer(d) ==
  /\ x' = d /\ pc' = "idle"
  /\ y' = Zero(0) /\ a' = Zero(0) /\ b' = Zero(0) /\ iy' = 0 /\ n' = 0

Start ==
  LET hx == Magnitude(x)
      hy == Magnitude(y)
  IN  /\ pc = "start" /\ UNCHANGED errno
      /\ CASE Invalid(x, y) -> Answer(NaN)
           [] ~ Invalid(x, y) /\ (hx < hy \/ (hx = hy /\ Less(x.lo, y.lo))) -> Answer(x)
           [] ~ Invalid(x, y) /\ hx = hy /\ x.lo = y.lo -> Answer(Zero(SignBit(x)))
           [] OTHER -> /\ a' = Normalized(hx, x.lo)
                       /\ b' = Normalized(hy, y.lo)
                       /\ iy' = LogB(hy, y.lo)
                       /\ n' = LogB(hx, x.lo) - LogB(hy, y.lo)
                       /\ pc' = "reduce"
                       /\ UNCHANGED <<x, y>>

(* A turn of while (n--), which counts through all ints when n is below 0. *)
Reduce ==
  LET z == Minus(a, b)
  IN  /\ pc = "reduce" /\ n # 0 /\ UNCHANGED errno
      /\ IF Signed(z.hi) >= 0 /\ Exhausted(z) THEN Answer(Zero(SignBit(x)))
         ELSE /\ a' = IF Signed(z.hi) < 0 THEN Twice(a, Sar(a.lo, W - 1))
                      ELSE Twice(z, TopBit(z.lo))
              /\ n' = AsInt(n - 1)
              /\ UNCHANGED <<x, pc, y, b, iy>>

(* Mutant: the last subtraction is left out. *)
LastSubtraction_None == a

LastSubtraction == LET z == Minus(a, b) IN IF Signed(z.hi) >= 0 THEN z ELSE a

EndReduction ==
  /\ pc = "reduce" /\ n = 0 /\ UNCHANGED errno
  /\ IF Exhausted(LastSubtraction) THEN Answer(Zero(SignBit(x)))
     ELSE /\ a' = LastSubtraction
          /\ pc' = "renormalize"
          /\ UNCHANGED <<x, y, b, iy, n>>

Renormalize ==
  /\ pc = "renormalize" /\ Signed(a.hi) < 2 ^ H
  /\ a' = Twice(a, Sar(a.lo, W - 1))
  /\ iy' = AsInt(iy - 1)
  /\ UNCHANGED <<x, errno, pc, y, b, n>>

Pack ==
  /\ pc = "renormalize" /\ Signed(a.hi) >= 2 ^ H
  /\ Answer(Packed(SignBit(x), a, iy))
  /\ UNCHANGED errno

fmod == Start \/ Reduce \/ EndReduction \/ Renormalize \/ Pack

Next == CallOne \/ CallFmod \/ fmod

Spec == Init /\ [][Next]_vars

(* The processor goes on with a function that it has begun. *)
FairSpec == Spec /\ WF_vars(fmod)
-----------------------------------------------------------------------------
TypeOK ==
  /\ {x, y, a, b} \subseteq Doubles /\ errno \in {-1, 0}
  /\ pc \in {"idle", "start", "reduce", "renormalize"}
  /\ {iy, n} \subseteq -(Word \div 2) .. Word \div 2 - 1

One      == Units(Double(Bias * 2 ^ H, 0))
Value(d) == IF Negative(d) THEN -Units(d) ELSE Units(d)

(* floor and ceil are the nearest integral numbers on their sides, and     *)
(* modf splits a number exactly into two parts of its sign.                *)
IntegralPartsAreExact ==
  LET parts == modf(x)
  IN  /\ Value(floor(x)) % One = 0 /\ Value(x) - Value(floor(x)) \in 0 .. One - 1
      /\ Value(ceil(x)) % One = 0 /\ Value(ceil(x)) - Value(x) \in 0 .. One - 1
      /\ Units(parts.integral) % One = 0 /\ Units(parts.fraction) < One
      /\ Value(parts.integral) + Value(parts.fraction) = Value(x)
      /\ SignBit(parts.integral) = SignBit(x) /\ SignBit(parts.fraction) = SignBit(x)

(* frexp splits a number, normal or not, exactly into a power of two and a *)
(* fraction between a half and one.                                        *)
ExponentsAreExact ==
  LET parts == frexp(x)
      units == Units(parts.fraction)
  IN  IsZero(x) \/ /\ 2 * units >= One /\ units < One
                   /\ IF parts.exp >= 0 THEN units * 2 ^ parts.exp = Units(x)
                                        ELSE units = Units(x) * 2 ^ (-parts.exp)

(* The functions that take a number apart lose nothing of it.              *)
PartsAreExact == pc = "idle" /\ finite(x) => IntegralPartsAreExact /\ ExponentsAreExact

(* No number of that many units times a power of two is finite, or is as   *)
(* large as half of the smallest.                                          *)
Overflows(units, exp) ==
  exp >= 0 /\ (exp >= P + MaxExp - 1 \/ units >= 2 ^ (P + MaxExp - 1 - exp))

Underflows(units, exp) == exp < 0 /\ 2 * units <= 2 ^ Min({-exp, P + MaxExp + 1})

Scaled(units, exp) ==
  IF exp >= 0 THEN units * 2 ^ exp ELSE Nearest(units, Min({-exp, P + MaxExp + 1}))

(* Scaling by a power of two, whatever int the exponent is, gives the      *)
(* number nearest to the product, rounded once, or infinity; and what is   *)
(* reported as out of range is that.                                       *)
ScalingRoundsOnce ==
  \A exp \in Exponents :
    LET d == scalbn(x, exp)
    IN  /\ SignBit(d) = SignBit(x)
        /\ IF Overflows(Units(x), exp) THEN d = Infinity(SignBit(x))
           ELSE finite(d) /\ Units(d) = Scaled(Units(x), exp)
        /\ RangeError(d) <=> Overflows(Units(x), exp) \/ Underflows(Units(x), exp)

(* A number is a whole significand times a power of two. *)
Significand(d) == IF Exponent(d) = 0 THEN Bits(d) ELSE 2 ^ P + (Bits(d) % 2 ^ P)
Power(d)       == Max({Exponent(d), 1})

(* As every root is at full width. *)
RootIsNormal == Exponent(x) > 0 \/ Bits(x) >= 2 ^ Max({0, P + 1 - Bias})

(* The root is the number nearest to the square root, whatever the         *)
(* processor makes of a shift by a whole word.                             *)
RootIsNearest ==
  ~ Negative(x) /\ RootIsNormal =>
    \A whole \in BOOLEAN :
      LET root  == sqrt(x, whole)
          twice == 2 * Significand(root)
          k     == Power(x) + P + Bias - 2 * Power(root)
      IN  /\ finite(root) /\ ~ Negative(root)
          /\ k \in 0 .. 2 * P + 2
          /\ (twice - 1) * (twice - 1) <= 4 * Significand(x) * 2 ^ k
          /\ 4 * Significand(x) * 2 ^ k <= (twice + 1) * (twice + 1)

(* The functions whose results may have to be rounded round them once.     *)
ResultsAreNearest ==
  pc = "idle" /\ finite(x) /\ ~ IsZero(x) => ScalingRoundsOnce /\ RootIsNearest

ShiftUnits(units, k) == IF k >= 0 THEN units * 2 ^ k ELSE units \div 2 ^ (-k)

(* Through the turns of the loop, the words left of x and those of y have  *)
(* the remainder that x and y have, and the words left never reach twice   *)
(* those of y; afterwards, they and the exponent are the remainder.        *)
RemainderIsKept ==
  LET left    == Bits(a)
      divisor == Bits(b)
  IN  /\ pc = "reduce" =>
           /\ n >= 0 /\ left < 2 * divisor
           /\ ShiftUnits(Units(x), -(Bias - 1) - iy) % divisor = (left * 2 ^ n) % divisor
      /\ pc = "renormalize" =>
           left = ShiftUnits(Units(x) % Units(y), -(Bias - 1) - iy)

Answered == pc # "idle" /\ pc' = "idle"

(* fmod keeps the remainder from turn to turn, and answers the remainder   *)
(* of the magnitudes with the sign of x.                                   *)
RemainderIsExact ==
  [][/\ RemainderIsKept
     /\ Answered /\ finite(x) /\ finite(y) /\ ~ IsZero(y) =>
          finite(x') /\ SignBit(x') = SignBit(x) /\ Units(x') = Units(x) % Units(y)]_vars

(* fmod returns, whatever it is called for.                                *)
FmodReturns == (pc = "start") ~> (pc = "idle")
=============================================================================
