------------------------ MODULE Mathematics_proofs ------------------------
(***************************************************************************)
(* Proofs about Mathematics, for words and exponents of any width: types,  *)
(* the functions that take a number apart, and the remainder of fmod.      *)
(*                                                                         *)
(* A double is taken for its sign and its Bits, the number that its other  *)
(* bits are; Units turns those into the value.                             *)
(***************************************************************************)
EXTENDS Mathematics, NaturalFacts

LEMMA Widths ==
  /\ E \in Nat /\ H \in Nat /\ E >= 3 /\ H >= 1
  /\ W \in Nat /\ W = 1 + E + H /\ P \in Nat /\ P = H + W
  /\ Bias \in Nat /\ Bias >= 4 /\ MaxExp = 2 * Bias + 1 /\ MaxExp \in Nat /\ P + 2 < MaxExp
  /\ 2 ^ E = MaxExp + 1 /\ 2 ^ E \in Nat
<1>1. E \in Nat /\ E >= 2 /\ H \in Nat /\ H >= 1
  BY WidthAssumption
<1>2. W \in Nat /\ W = 1 + E + H /\ P \in Nat /\ P = H + W
  BY <1>1 DEF W, P
<1>3. E - 1 \in Nat /\ (E - 1) + 1 = E
  BY <1>1
<1>4. PICK q \in Nat : q = 2 ^ (E - 1)
  BY <1>3, PowerType
<1>5. 2 ^ E = 2 * q
  BY <1>3, <1>4, PowerDoubles
<1>6. MaxExp = 2 * q - 1 /\ Bias = q - 1
  BY <1>4, <1>5 DEF MaxExp, Bias
<1>7. P + 2 < 2 * q - 1
  BY <1>6, RangeAssumption
<1>8. q >= 5
  BY <1>1, <1>2, <1>7
<1>9. E # 2
  <2>1. 2 ^ 1 = 2
    <3>1. 2 ^ (0 + 1) = 2 * 2 ^ 0
      BY PowerDoubles
    <3>2. 0 + 1 = 1 /\ 2 * 1 = 2
      OBVIOUS
    <3> QED BY <3>1, <3>2, PowerOfZero
  <2> SUFFICES ASSUME E = 2 PROVE FALSE
    OBVIOUS
  <2>2. E - 1 = 1
    OBVIOUS
  <2> QED BY <1>4, <1>8, <2>1, <2>2
<1> QED BY <1>1, <1>2, <1>5, <1>6, <1>7, <1>8, <1>9

(* Half a word, the bits of a fraction and those of its high part.         *)
LEMMA Halfs ==
  \E h \in Nat, g \in Nat :
    /\ g = 2 ^ H /\ g > 0 /\ h = Word \div 2 /\ h > 0 /\ Word = 2 * h /\ Word \in Nat
    /\ h = 2 ^ (W - 1) /\ h = (MaxExp + 1) * g /\ Word = 2 ^ W
    /\ 2 ^ P = g * Word /\ 2 ^ P \in Nat /\ 2 ^ P > 0
    /\ h * Word = (MaxExp + 1) * 2 ^ P
<1>1. PICK g \in Nat : g = 2 ^ H /\ g > 0
  BY Widths, PowerType
<1>2. W - 1 = E + H /\ W - 1 \in Nat /\ (W - 1) + 1 = W
  BY Widths
<1>3. PICK h \in Nat : h = 2 ^ (W - 1) /\ h > 0
  BY <1>2, PowerType
<1>4. PICK w \in Nat : w = Word /\ w = 2 ^ W /\ w = 2 * h
  <2>1. 2 ^ W = 2 * h
    BY <1>2, <1>3, PowerDoubles
  <2>2. 2 * h \in Nat
    OBVIOUS
  <2> QED BY <2>1, <2>2 DEF Word
<1>5. h = (MaxExp + 1) * g
  <2>1. 2 ^ (E + H) = 2 ^ E * 2 ^ H
    BY Widths, PowerOfSum
  <2> QED BY <1>1, <1>2, <1>3, <2>1, Widths
<1>6. 2 ^ P = g * w
  <2>1. 2 ^ (H + W) = 2 ^ H * 2 ^ W
    BY Widths, PowerOfSum
  <2> QED BY <1>1, <1>4, <2>1, Widths
<1>7. 2 ^ P \in Nat /\ 2 ^ P > 0
  BY Widths, PowerType
<1>8. h = w \div 2
  BY <1>4
<1>9. h * w = (MaxExp + 1) * (g * w)
  <2>1. PICK m \in Nat : m = MaxExp + 1
    BY Widths
  <2>2. (m * g) * w = m * (g * w)
    OBVIOUS
  <2> QED BY <1>5, <2>1, <2>2
<1>10. h * w = (MaxExp + 1) * 2 ^ P
  BY <1>6, <1>9
<1> QED BY <1>1, <1>3, <1>4, <1>5, <1>6, <1>7, <1>8, <1>10

LEMMA WordIs == Word \in Nat /\ Word > 0 /\ Word = 2 ^ W
<1>1. W \in Nat
  BY Widths
<1> QED BY <1>1, PowerType DEF Word

Fraction(d) == (d.hi % 2 ^ H) * Word + d.lo

(* What a double consists of. *)
LEMMA DoubleIs ==
  ASSUME NEW d \in Doubles
  PROVE  /\ d.hi \in Nat /\ d.lo \in Nat /\ d.lo < Word /\ d.hi < Word
         /\ SignBit(d) \in {0, Word \div 2} /\ d.hi = SignBit(d) + Magnitude(d)
         /\ Magnitude(d) \in Nat /\ Magnitude(d) < Word \div 2
         /\ Exponent(d) \in 0 .. MaxExp
         /\ d.hi % 2 ^ H \in Nat /\ d.hi % 2 ^ H < 2 ^ H
         /\ Magnitude(d) = Exponent(d) * 2 ^ H + (d.hi % 2 ^ H)
         /\ Fraction(d) \in Nat /\ Fraction(d) < 2 ^ P
         /\ Bits(d) \in Nat /\ Bits(d) = Exponent(d) * 2 ^ P + Fraction(d)
         /\ Bits(d) < (MaxExp + 1) * 2 ^ P
         /\ Bits(d) = Magnitude(d) * Word + d.lo
         /\ Bits(d) \div 2 ^ P = Exponent(d) /\ Bits(d) % 2 ^ P = Fraction(d)
         /\ (finite(d) <=> Exponent(d) < MaxExp)
         /\ (IsZero(d) <=> Bits(d) = 0)
         /\ d = Double(SignBit(d) + (Bits(d) \div Word), Bits(d) % Word)
<1>1. PICK h \in Nat, g \in Nat :
        /\ g = 2 ^ H /\ g > 0 /\ h = Word \div 2 /\ h > 0 /\ Word = 2 * h /\ Word \in Nat
        /\ h = (MaxExp + 1) * g
        /\ 2 ^ P = g * Word /\ 2 ^ P \in Nat /\ 2 ^ P > 0
        /\ h * Word = (MaxExp + 1) * 2 ^ P
  BY Halfs
<1>p. h > 0 /\ g > 0 /\ Word = 2 * h /\ h = Word \div 2 /\ g = 2 ^ H
  BY <1>1
<1>k. PICK k \in Nat : k = MaxExp + 1 /\ h = k * g
  BY <1>1, Widths
<1>10. PICK w \in Nat : w = Word /\ w > 0 /\ w = 2 * h
  BY <1>1
<1>11. PICK p \in Nat : p = 2 ^ P /\ p = g * w /\ p > 0 /\ h * w = k * p
  BY <1>1, <1>10, <1>k
<1>2. PICK hi \in Nat, lo \in Nat : hi = d.hi /\ lo = d.lo /\ hi < w /\ lo < w
                                     /\ d = [hi |-> hi, lo |-> lo]
  BY <1>10 DEF Doubles
<1>3. PICK m \in Nat, t \in Nat : m = hi % h /\ t = hi \div h /\ hi = t * h + m /\ m < h
  BY <1>p, Divided
<1>4. t = 0 \/ t = 1
  <2>1. hi < 2 * h
    BY <1>2, <1>10
  <2>2. hi \div h < 2
    BY <1>p, <2>1, QuotientBelow
  <2> QED BY <1>3, <2>2
<1>5. SignBit(d) = t * h /\ Magnitude(d) = m
  <2>1. d.hi % (Word \div 2) = m
    BY <1>p, <1>2, <1>3
  <2>2. hi - m = t * h
    BY <1>3
  <2> QED BY <1>2, <2>1, <2>2 DEF SignBit, Magnitude
<1>6. PICK e \in Nat, f \in Nat : e = m \div g /\ f = m % g /\ m = e * g + f /\ f < g
  BY <1>p, Divided
<1>7. e < k
  <2>1. m < k * g
    BY <1>3, <1>k
  <2>2. g > 0
    BY <1>p
  <2>3. m \div g < k
    BY <2>1, <2>2, QuotientBelow
  <2> QED BY <1>6, <2>3
<1>8. hi % g = f
  <2>1. PICK q \in Nat : q = t * k + e
    OBVIOUS
  <2>2. hi = q * g + f
    <3>1. t * (k * g) + (e * g + f) = (t * k + e) * g + f
      OBVIOUS
    <3> QED BY <3>1, <1>3, <1>6, <1>k, <2>1
  <2>3. f \in 0 .. (g - 1) /\ g > 0
    BY <1>6
  <2> QED BY <2>2, <2>3, DividedOnce
<1>9. Exponent(d) = e /\ Fraction(d) = f * Word + lo /\ Bits(d) = m * Word + lo
  BY <1>p, <1>2, <1>5, <1>6, <1>8 DEF Exponent, Fraction, Bits
<1>12. PICK r \in Nat : r = f * w + lo /\ r < p
  <2>1. f * w + w =< g * w
    BY <1>6, FactorsOrdered
  <2>2. f * w \in Nat
    OBVIOUS
  <2> QED BY <1>2, <1>10, <1>11, <2>1, <2>2
<1>13. PICK bits \in Nat : bits = m * w + lo
  OBVIOUS
<1>14. bits = e * p + r
  <2>1. (e * g + f) * w = e * (g * w) + f * w
    OBVIOUS
  <2>2. m * w = e * p + f * w
    BY <1>6, <1>11, <2>1
  <2> QED BY <1>12, <1>13, <2>2
<1>15. bits < h * w
  <2>1. m * w + w =< h * w
    BY <1>3, FactorsOrdered
  <2>2. m * w \in Nat /\ h * w \in Nat
    OBVIOUS
  <2> QED BY <1>2, <1>10, <1>13, <2>1, <2>2
<1>16. bits \div p = e /\ bits % p = r
  <2>1. r \in 0 .. (p - 1) /\ p > 0
    BY <1>11, <1>12
  <2> QED BY <2>1, <1>14, DividedOnce
<1>17. bits \div w = m /\ bits % w = lo
  <2>1. lo \in 0 .. (w - 1) /\ w > 0
    BY <1>2, <1>10
  <2> QED BY <2>1, <1>13, DividedOnce
<1>18. finite(d) <=> e < MaxExp
  <2>1. m < MaxExp * g <=> m \div g < MaxExp
    BY <1>p, Widths, QuotientBelow
  <2> QED BY <1>p, <1>5, <1>6, <2>1 DEF finite
<1>19. IsZero(d) <=> bits = 0
  <2>1. m * w \in Nat /\ (m > 0 => m * w > 0)
    <3>1. 1 * w =< m * w \/ m = 0
      BY ProductGrows
    <3> QED BY <3>1, <1>10
  <2> QED BY <1>2, <1>5, <1>13, <2>1 DEF IsZero
<1>21. SignBit(d) \in {0, h} /\ hi = SignBit(d) + m
  BY <1>3, <1>4, <1>5
<1>22. Exponent(d) = e /\ Fraction(d) = r /\ Bits(d) = bits /\ Magnitude(d) = m /\ d.hi % 2 ^ H = f
  BY <1>p, <1>2, <1>5, <1>8, <1>9, <1>10, <1>12, <1>13
<1>20. d = Double(SignBit(d) + (Bits(d) \div Word), Bits(d) % Word)
  BY <1>2, <1>10, <1>17, <1>21, <1>22 DEF Double
<1>23. bits < (MaxExp + 1) * p
  BY <1>k, <1>11, <1>15
<1>a. d.hi \in Nat /\ d.lo \in Nat /\ d.lo < Word /\ d.hi < Word
  BY <1>2, <1>10
<1>b. SignBit(d) \in {0, Word \div 2} /\ d.hi = SignBit(d) + Magnitude(d)
  BY <1>p, <1>2, <1>21, <1>22
<1>c. Magnitude(d) \in Nat /\ Magnitude(d) < Word \div 2 /\ Exponent(d) \in 0 .. MaxExp
  BY <1>p, <1>k, <1>3, <1>7, <1>22, Widths
<1>e. /\ d.hi % 2 ^ H \in Nat /\ d.hi % 2 ^ H < 2 ^ H
      /\ Magnitude(d) = Exponent(d) * 2 ^ H + (d.hi % 2 ^ H)
  BY <1>p, <1>6, <1>22
<1>f. Fraction(d) \in Nat /\ Fraction(d) < 2 ^ P
  BY <1>11, <1>12, <1>22
<1>g. Bits(d) \in Nat /\ Bits(d) = Exponent(d) * 2 ^ P + Fraction(d) /\ Bits(d) < (MaxExp + 1) * 2 ^ P
  BY <1>11, <1>13, <1>14, <1>22, <1>23
<1>h. Bits(d) = Magnitude(d) * Word + d.lo /\ Bits(d) \div 2 ^ P = Exponent(d) /\ Bits(d) % 2 ^ P = Fraction(d)
  BY <1>2, <1>10, <1>11, <1>13, <1>16, <1>22
<1>i. (finite(d) <=> Exponent(d) < MaxExp) /\ (IsZero(d) <=> Bits(d) = 0)
  BY <1>18, <1>19, <1>22
<1> QED BY <1>a, <1>b, <1>c, <1>e, <1>f, <1>g, <1>h, <1>i, <1>20
(* A double with any sign and any bits can be put together. *)
LEMMA Assembled ==
  ASSUME NEW sign \in {0, Word \div 2}, NEW bits \in Nat, bits < (MaxExp + 1) * 2 ^ P
  PROVE  LET d == Double(sign + (bits \div Word), bits % Word)
         IN  /\ d \in Doubles /\ SignBit(d) = sign /\ Bits(d) = bits
             /\ Magnitude(d) = bits \div Word
<1> DEFINE d == Double(sign + (bits \div Word), bits % Word)
<1>1. PICK h \in Nat : h > 0 /\ Word = 2 * h /\ h = Word \div 2 /\ h * Word = (MaxExp + 1) * 2 ^ P
  BY Halfs
<1>2. PICK w \in Nat : w = Word /\ w > 0 /\ w = 2 * h
  BY <1>1
<1>3. PICK q \in Nat, r \in Nat : q = bits \div w /\ r = bits % w /\ bits = q * w + r /\ r < w
  BY <1>2, Divided
<1>4. q < h
  <2>1. bits < h * w /\ w > 0
    BY <1>1, <1>2
  <2>2. bits \div w < h
    BY <2>1, QuotientBelow
  <2> QED BY <1>3, <2>2
<1>5. d = [hi |-> sign + q, lo |-> r] /\ d.hi = sign + q /\ d.lo = r
  BY <1>2, <1>3 DEF Double
<1>6. sign = 0 \/ sign = h
  BY <1>1
<1>7. sign + q \in 0 .. w - 1 /\ r \in 0 .. w - 1
  BY <1>2, <1>3, <1>4, <1>6
<1>8. d \in Doubles
  BY <1>5, <1>7, <1>2 DEF Doubles
<1>9. (sign + q) % h = q
  <2>1. q \in 0 .. (h - 1) /\ h > 0
    BY <1>4
  <2>2. sign + q = 0 * h + q \/ sign + q = 1 * h + q
    BY <1>6
  <2> QED BY <2>1, <2>2, DividedOnce
<1>10. Magnitude(d) = q /\ SignBit(d) = sign
  <2>1. d.hi % (Word \div 2) = q
    BY <1>1, <1>5, <1>9
  <2>2. (sign + q) - q = sign
    BY <1>6
  <2> QED BY <1>5, <2>1, <2>2 DEF SignBit, Magnitude
<1>11. Bits(d) = bits
  BY <1>2, <1>3, <1>5, <1>10 DEF Bits
<1> QED BY <1>8, <1>10, <1>11, <1>2, <1>3

(* The value of a number is told by its bits. *)
UnitsOf(bits) ==
  IF bits \div 2 ^ P = 0 THEN bits ELSE (2 ^ P + (bits % 2 ^ P)) * 2 ^ ((bits \div 2 ^ P) - 1)

LEMMA UnitsNormal ==
  ASSUME NEW e \in Nat, e >= 1, NEW f \in 0 .. 2 ^ P
  PROVE  /\ UnitsOf(e * 2 ^ P + f) = (2 ^ P + f) * 2 ^ (e - 1)
         /\ 2 ^ (e - 1) \in Nat /\ 2 ^ (e - 1) > 0 /\ (2 ^ P + f) * 2 ^ (e - 1) \in Nat
         /\ 2 ^ P \in Nat /\ 2 ^ P > 0
<1>1. PICK p \in Nat : p = 2 ^ P /\ p > 0
  BY Widths, PowerType
<1>2. PICK u \in Nat : u = 2 ^ (e - 1) /\ u > 0
  <2>1. e - 1 \in Nat
    OBVIOUS
  <2> QED BY <2>1, PowerType
<1>3. (p + f) * u \in Nat
  <2>1. PICK m \in Nat : m = p + f
    BY <1>1
  <2> QED BY <2>1
<1>4. PICK bits \in Nat : bits = e * p + f
  BY <1>1
<1>5. CASE f < p
  <2>1. f \in 0 .. (p - 1) /\ p > 0 /\ bits = e * p + f
    BY <1>1, <1>4, <1>5
  <2>2. bits \div p = e /\ bits % p = f
    BY <2>1, DividedOnce
  <2>3. UnitsOf(bits) = (p + f) * u
    BY <1>1, <1>2, <2>2 DEF UnitsOf
  <2> QED BY <1>1, <1>2, <1>3, <1>4, <2>3
<1>6. CASE f = p
  <2>1. 0 \in 0 .. (p - 1) /\ p > 0 /\ bits = (e + 1) * p + 0
    BY <1>1, <1>4, <1>6
  <2>2. bits \div p = e + 1 /\ bits % p = 0
    BY <2>1, DividedOnce
  <2>3. 2 ^ ((e + 1) - 1) = 2 * u
    <3>1. e - 1 \in Nat /\ (e - 1) + 1 = (e + 1) - 1
      OBVIOUS
    <3> QED BY <3>1, <1>2, PowerDoubles
  <2>4. UnitsOf(bits) = (p + 0) * (2 * u)
    <3>1. bits \div 2 ^ P # 0 /\ bits % 2 ^ P = 0 /\ bits \div 2 ^ P = e + 1
      BY <1>1, <2>2
    <3> QED BY <1>1, <2>3, <3>1 DEF UnitsOf
  <2>5. (p + 0) * (2 * u) = (p + f) * u
    BY <1>6
  <2> QED BY <1>1, <1>2, <1>3, <1>4, <2>4, <2>5
<1>7. f < p \/ f = p
  BY <1>1
<1> QED BY <1>5, <1>6, <1>7

LEMMA UnitsSmall ==
  ASSUME NEW f \in Nat, f < 2 * 2 ^ P
  PROVE  UnitsOf(f) = f
<1>1. PICK p \in Nat : p = 2 ^ P /\ p > 0
  BY Widths, PowerType
<1>2. CASE f < p
  <2>1. f \in 0 .. (p - 1) /\ p > 0
    BY <1>1, <1>2
  <2>2. f \div p = 0
    BY <2>1, DividedSmall
  <2> QED BY <1>1, <2>2 DEF UnitsOf
<1>3. CASE f >= p
  <2>1. PICK r \in 0 .. 2 ^ P : r = f - p
    <3>1. f - p \in 0 .. p
      BY <1>1, <1>3
    <3> QED BY <1>1, <3>1
  <2>5. f = 1 * 2 ^ P + r
    BY <1>1, <1>3, <2>1
  <2>2. UnitsOf(f) = (2 ^ P + r) * 2 ^ (1 - 1)
    <3>1. PICK e \in Nat : e = 1
      OBVIOUS
    <3>2. e >= 1
      BY <3>1
    <3>3. UnitsOf(e * 2 ^ P + r) = (2 ^ P + r) * 2 ^ (e - 1)
      BY <3>2, UnitsNormal
    <3> QED BY <2>5, <3>1, <3>3
  <2>3. 2 ^ (1 - 1) = 1
    BY PowerOfZero
  <2>4. (p + r) * 1 = f
    BY <1>1, <2>1
  <2> QED BY <1>1, <2>2, <2>3, <2>4
<1> QED BY <1>1, <1>2, <1>3

LEMMA UnitsAre ==
  ASSUME NEW d \in Doubles
  PROVE  /\ Units(d) = UnitsOf(Bits(d)) /\ Units(d) \in Nat
         /\ Exponent(d) = 0 => Units(d) = Bits(d)
         /\ Exponent(d) > 0 =>
              /\ Units(d) = (2 ^ P + Fraction(d)) * 2 ^ (Exponent(d) - 1)
              /\ 2 ^ (Exponent(d) - 1) \in Nat /\ 2 ^ (Exponent(d) - 1) > 0
<1>1. PICK p \in Nat : p = 2 ^ P /\ p > 0
  BY Widths, PowerType
<1>2. PICK e \in Nat, f \in Nat, bits \in Nat :
        /\ e = Exponent(d) /\ f = Fraction(d) /\ bits = Bits(d) /\ f < p
        /\ bits \div p = e /\ bits % p = f
  BY <1>1, DoubleIs
<1>3. Units(d) = UnitsOf(bits)
  BY <1>1, <1>2 DEF Units, UnitsOf
<1>4. CASE e = 0
  BY <1>2, <1>3, <1>4, <1>1 DEF UnitsOf
<1>5. CASE e >= 1
  <2>1. PICK u \in Nat : u = 2 ^ (e - 1) /\ u > 0
    <3>1. e - 1 \in Nat
      BY <1>5
    <3> QED BY <3>1, PowerType
  <2>2. UnitsOf(bits) = (p + f) * u
    BY <1>1, <1>2, <1>5, <2>1 DEF UnitsOf
  <2>3. (p + f) * u \in Nat
    <3>1. PICK m \in Nat : m = p + f
      OBVIOUS
    <3> QED BY <3>1
  <2> QED BY <1>1, <1>2, <1>3, <1>5, <2>1, <2>2, <2>3
<1> QED BY <1>4, <1>5

LEMMA MaxOf ==
  ASSUME NEW S, S \subseteq Nat, S # {}, IsFiniteSet(S)
  PROVE  Max(S) \in S /\ \A j \in S : j <= Max(S)
<1>1. PICK m \in S : \A j \in S : j =< m
  BY GreatestElement
<1>2. \E k \in S : \A j \in S : k >= j
  BY <1>1
<1>3. Max(S) \in S /\ \A j \in S : Max(S) >= j
  BY <1>2 DEF Max
<1> QED BY <1>3

LEMMA MinOf ==
  ASSUME NEW S, S \subseteq Nat, S # {}
  PROVE  Min(S) \in S /\ \A j \in S : Min(S) <= j
<1>1. PICK m \in S : \A j \in S : m =< j
  BY LeastElement
<1> QED BY <1>1 DEF Min

(* The sign and the bits tell everything about a number. *)
LEMMA SameBits ==
  ASSUME NEW c \in Doubles, NEW d \in Doubles, SignBit(c) = SignBit(d), Bits(c) = Bits(d)
  PROVE  c = d
<1>1. c = Double(SignBit(c) + (Bits(c) \div Word), Bits(c) % Word)
  BY DoubleIs
<1>2. d = Double(SignBit(d) + (Bits(d) \div Word), Bits(d) % Word)
  BY DoubleIs
<1> QED BY <1>1, <1>2

LEMMA FiniteIs ==
  ASSUME NEW d \in Doubles
  PROVE  finite(d) <=> Bits(d) < MaxExp * 2 ^ P
<1>1. PICK p \in Nat : p = 2 ^ P /\ p > 0
  BY Widths, PowerType
<1>2. PICK e \in Nat, bits \in Nat : e = Exponent(d) /\ bits = Bits(d) /\ bits \div p = e
  BY <1>1, DoubleIs
<1>3. PICK m \in Nat : m = MaxExp
  BY Widths
<1>4. p > 0
  BY <1>1
<1>5. bits < m * p <=> bits \div p < m
  BY <1>4, QuotientBelow
<1>6. finite(d) <=> e < m
  BY <1>2, <1>3, DoubleIs
<1> QED BY <1>1, <1>2, <1>3, <1>5, <1>6

LEMMA ZeroIs ==
  ASSUME NEW sign \in {0, Word \div 2}
  PROVE  /\ Zero(sign) \in Doubles /\ SignBit(Zero(sign)) = sign /\ Bits(Zero(sign)) = 0
         /\ Units(Zero(sign)) = 0 /\ finite(Zero(sign)) /\ IsZero(Zero(sign))
<1>1. PICK w \in Nat : w = Word /\ w > 0
  BY Halfs
<1>2. 0 \div w = 0 /\ 0 % w = 0
  BY <1>1, DividedSmall
<1>3. PICK h \in Nat : h = Word \div 2
  BY Halfs
<1>4. sign + 0 = sign
  BY <1>3
<1>5. Zero(sign) = Double(sign + (0 \div Word), 0 % Word)
  BY <1>1, <1>2, <1>4 DEF Zero
<1>6. PICK p \in Nat, m \in Nat : p = 2 ^ P /\ p > 0 /\ m = MaxExp /\ m > 0
  BY Widths, PowerType
<1>7. m * p > 0 /\ (m + 1) * p > 0
  <2>1. 1 * p =< m * p /\ 1 * p =< (m + 1) * p
    BY <1>6, ProductGrows
  <2> QED BY <1>6, <2>1
<1>8. Zero(sign) \in Doubles /\ SignBit(Zero(sign)) = sign /\ Bits(Zero(sign)) = 0
  <2>1. 0 < (MaxExp + 1) * 2 ^ P
    BY <1>6, <1>7
  <2> QED BY <1>5, <2>1, Assembled
<1>9. UnitsOf(0) = 0
  BY <1>6, UnitsSmall
<1> QED BY <1>6, <1>7, <1>8, <1>9, FiniteIs, DoubleIs, UnitsAre

LEMMA InfinityIs ==
  ASSUME NEW sign \in {0, Word \div 2}
  PROVE  /\ Infinity(sign) \in Doubles /\ SignBit(Infinity(sign)) = sign
         /\ Bits(Infinity(sign)) = MaxExp * 2 ^ P /\ ~ finite(Infinity(sign))
<1>1. PICK w \in Nat, g \in Nat : w = Word /\ w > 0 /\ g = 2 ^ H /\ 2 ^ P = g * w
  BY Halfs
<1>2. PICK m \in Nat : m = MaxExp
  BY Widths
<1>3. PICK q \in Nat, p \in Nat : q = m * g /\ p = g * w /\ p = 2 ^ P /\ p > 0
  BY <1>1, Widths, PowerType
<1>4. PICK bits \in Nat : bits = m * p
  OBVIOUS
<1>5. bits = q * w + 0
  <2>1. m * (g * w) = (m * g) * w
    OBVIOUS
  <2> QED BY <1>3, <1>4, <2>1
<1>6. bits \div w = q /\ bits % w = 0
  <2>1. 0 \in 0 .. (w - 1) /\ w > 0
    BY <1>1
  <2> QED BY <1>5, <2>1, DividedOnce
<1>7. Infinity(sign) = Double(sign + (bits \div Word), bits % Word)
  BY <1>1, <1>2, <1>3, <1>6 DEF Infinity
<1>8. bits < (m + 1) * p
  BY <1>3, <1>4
<1>9. bits = MaxExp * 2 ^ P /\ bits < (MaxExp + 1) * 2 ^ P
  BY <1>2, <1>3, <1>4, <1>8
<1>10. Infinity(sign) \in Doubles /\ SignBit(Infinity(sign)) = sign /\ Bits(Infinity(sign)) = bits
  BY <1>7, <1>9, Assembled
<1> QED BY <1>9, <1>10, FiniteIs

(* A number of units is encoded with as many of its first bits as there is *)
(* room for.                                                               *)
LEMMA EncodeIs ==
  ASSUME NEW sign \in {0, Word \div 2}, NEW u \in Nat
  PROVE  /\ Encode(sign, u) \in Doubles /\ SignBit(Encode(sign, u)) = sign
         /\ u >= 2 ^ (P + (MaxExp - 1)) => Encode(sign, u) = Infinity(sign)
         /\ u < 2 ^ (P + (MaxExp - 1)) =>
              \E k \in Nat :
                /\ k > 0 => 2 ^ (P + k) <= u
                /\ finite(Encode(sign, u)) /\ Units(Encode(sign, u)) = (u \div 2 ^ k) * 2 ^ k
<1> DEFINE S == {0} \cup {j \in 1 .. MaxExp : 2 ^ (P + j) <= u}
           d == Encode(sign, u)
<1>1. PICK m \in Nat : m = MaxExp /\ m >= 3 /\ MaxExp - 1 = m - 1
  BY Widths
<1>2. PICK p \in Nat : p = 2 ^ P /\ p > 0
  BY Widths, PowerType
<1>3. PICK k \in Nat : k = Max(S) /\ k \in S /\ \A j \in S : j <= k
  <2>1. S \subseteq 0 .. m /\ S # {} /\ S \subseteq Nat
    BY <1>1
  <2>2. IsFiniteSet(S)
    <3>1. IsFiniteSet(0 .. m)
      BY FS_Interval
    <3> HIDE DEF S
    <3> QED BY <2>1, <3>1, FS_Subset
  <2> HIDE DEF S
  <2> QED BY <2>1, <2>2, MaxOf
<1>4. k <= m /\ (k > 0 => 2 ^ (P + k) <= u)
  BY <1>1, <1>3
<1>5. \A j \in Nat : j > k /\ j <= m => ~ 2 ^ (P + j) <= u
  BY <1>1, <1>3
<1>6. PICK c \in Nat : c = 2 ^ k /\ c > 0 /\ 2 ^ (P + k) = p * c
  BY <1>2, PowerType, PowerOfSum, Widths
<1>7. PICK q \in Nat : q = u \div c /\ (u >= p * c <=> q >= p)
  <2>1. c > 0
    BY <1>6
  <2>2. u \div c \in Nat
    BY <2>1, Divided
  <2>3. u >= p * c <=> u \div c >= p
    BY <2>1, QuotientBelow
  <2> QED BY <2>2, <2>3
<1>8. PICK bits \in Nat : bits = q + k * p
  OBVIOUS
<1>9. Encode(sign, u) = IF bits >= m * p THEN Infinity(sign)
                        ELSE Double(sign + (bits \div Word), bits % Word)
  <2>1. Encode(sign, u) = IF q + k * 2 ^ P >= MaxExp * 2 ^ P THEN Infinity(sign)
                          ELSE Double(sign + ((q + k * 2 ^ P) \div Word), Wrap(q + k * 2 ^ P))
    BY <1>3, <1>6, <1>7 DEF Encode
  <2> QED BY <2>1, <1>1, <1>2, <1>8 DEF Wrap
<1>10. CASE u >= 2 ^ (P + (MaxExp - 1))
  <2>1. k >= m - 1
    <3>1. m - 1 \in S
      BY <1>1, <1>10
    <3> QED BY <3>1, <1>3
  <2>2. q >= p
    BY <2>1, <1>1, <1>4, <1>6, <1>7
  <2>3. (m - 1) * p =< k * p
    <3>1. m - 1 \in Nat
      BY <1>1
    <3> QED BY <2>1, <3>1, ProductGrows
  <2>4. (m - 1) * p + p = m * p
    BY <1>1
  <2>5. (m - 1) * p \in Int /\ k * p \in Nat /\ m * p \in Nat
    BY <1>1
  <2>6. bits >= m * p
    BY <2>2, <2>3, <2>4, <2>5, <1>8
  <2>7. d = Infinity(sign)
    BY <1>9, <2>6
  <2>8. ~ u < 2 ^ (P + (MaxExp - 1))
    <3>1. P + (MaxExp - 1) \in Nat
      BY Widths
    <3>2. 2 ^ (P + (MaxExp - 1)) \in Nat
      BY <3>1, PowerType
    <3> QED BY <1>10, <3>2
  <2> QED BY <2>7, <2>8, InfinityIs
<1>11. CASE u < 2 ^ (P + (MaxExp - 1))
  <2>1. k < m - 1
    <3> SUFFICES ASSUME k >= m - 1 PROVE FALSE
      BY <1>1
    <3>1. 2 ^ (P + k) <= u
      BY <1>1, <1>4
    <3>2. P + (m - 1) \in 0 .. P + k /\ P + k \in Nat
      BY <1>1, Widths
    <3>3. 2 ^ (P + (m - 1)) <= 2 ^ (P + k)
      BY <3>2, PowerSplits
    <3>4. 2 ^ (P + (m - 1)) \in Nat /\ 2 ^ (P + k) \in Nat
      BY <3>2, PowerType
    <3> QED BY <3>1, <3>3, <3>4, <1>1, <1>11
  <2>2. q < 2 * p
    <3>1. ~ 2 ^ (P + (k + 1)) <= u
      BY <2>1, <1>5
    <3>2. 2 ^ (P + (k + 1)) = 2 * (p * c)
      <4>1. P + k \in Nat /\ (P + k) + 1 = P + (k + 1)
        BY Widths
      <4> QED BY <4>1, <1>6, PowerDoubles
    <3>3. u < (2 * p) * c
      BY <3>1, <3>2
    <3>4. c > 0 /\ 2 * p \in Int
      BY <1>6
    <3>5. u \div c < 2 * p
      BY <3>3, <3>4, QuotientBelow
    <3> QED BY <3>5, <1>7
  <2>3. bits < m * p
    <3>1. (k + 2) * p =< m * p
      <4>1. k + 2 \in Nat /\ k + 2 =< m
        BY <1>1, <2>1
      <4> QED BY <4>1, ProductGrows
    <3>2. (k + 2) * p = k * p + 2 * p
      OBVIOUS
    <3>3. k * p \in Nat /\ m * p \in Nat
      OBVIOUS
    <3> QED BY <3>1, <3>2, <3>3, <2>2, <1>8
  <2>4. d = Double(sign + (bits \div Word), bits % Word)
    BY <1>9, <2>3
  <2>5. d \in Doubles /\ SignBit(d) = sign /\ Bits(d) = bits
    <3>1. m * p \in Nat /\ (m + 1) * p = m * p + p
      OBVIOUS
    <3>2. bits < (m + 1) * p
      BY <3>1, <2>3
    <3>3. bits < (MaxExp + 1) * 2 ^ P
      BY <3>2, <1>1, <1>2
    <3> QED BY <2>4, <3>3, Assembled
  <2>6. finite(d)
    BY <2>3, <2>5, <1>1, <1>2, FiniteIs
  <2>7. Units(d) = q * c
    <3>1. CASE k = 0
      <4>1. bits = q /\ c = 1
        BY <3>1, <1>6, <1>8, PowerOfZero
      <4>2. UnitsOf(q) = q
        BY <2>2, <1>2, UnitsSmall
      <4> QED BY <4>1, <4>2, <2>5, UnitsAre
    <3>2. CASE k > 0
      <4>1. q >= p
        BY <3>2, <1>4, <1>6, <1>7
      <4>2. PICK f \in 0 .. 2 ^ P : f = q - p
        <5>1. q - p \in 0 .. p
          BY <2>2, <4>1
        <5> QED BY <5>1, <1>2
      <4>3. k + 1 \in Nat /\ k + 1 >= 1
        OBVIOUS
      <4>4. UnitsOf((k + 1) * 2 ^ P + f) = (2 ^ P + f) * 2 ^ ((k + 1) - 1)
        BY <4>3, UnitsNormal
      <4>5. bits = (k + 1) * 2 ^ P + f
        BY <4>1, <4>2, <1>2, <1>8
      <4>6. 2 ^ P + f = q /\ 2 ^ ((k + 1) - 1) = c
        BY <4>1, <4>2, <1>2, <1>6
      <4> QED BY <4>4, <4>5, <4>6, <2>5, UnitsAre
    <3> QED BY <3>1, <3>2
  <2>8. ~ u >= 2 ^ (P + (MaxExp - 1))
    <3>1. P + (MaxExp - 1) \in Nat
      BY Widths
    <3>2. 2 ^ (P + (MaxExp - 1)) \in Nat
      BY <3>1, PowerType
    <3> QED BY <1>11, <3>2
  <2> QED BY <2>5, <2>6, <2>7, <2>8, <1>4, <1>6, <1>7
<1>12. u >= 2 ^ (P + (MaxExp - 1)) \/ u < 2 ^ (P + (MaxExp - 1))
  <2>1. P + (MaxExp - 1) \in Nat
    BY Widths
  <2>2. 2 ^ (P + (MaxExp - 1)) \in Nat
    BY <2>1, PowerType
  <2> QED BY <2>2
<1> QED BY <1>10, <1>11, <1>12

(* What has no more bits than there is room for is encoded exactly. *)
LEMMA EncodedExactly ==
  ASSUME NEW sign \in {0, Word \div 2}, NEW g \in Nat, g < 2 * 2 ^ P, NEW s \in Nat,
         g * 2 ^ s < 2 ^ (P + (MaxExp - 1))
  PROVE  /\ Encode(sign, g * 2 ^ s) \in Doubles /\ SignBit(Encode(sign, g * 2 ^ s)) = sign
         /\ finite(Encode(sign, g * 2 ^ s)) /\ Units(Encode(sign, g * 2 ^ s)) = g * 2 ^ s
<1>1. PICK p \in Nat : p = 2 ^ P /\ p > 0
  BY Widths, PowerType
<1>2. PICK t \in Nat : t = 2 ^ s /\ t > 0
  BY PowerType
<1>3. PICK u \in Nat : u = g * t
  BY <1>2
<1>4. PICK k \in Nat :
        /\ k > 0 => 2 ^ (P + k) <= u
        /\ finite(Encode(sign, u)) /\ Units(Encode(sign, u)) = (u \div 2 ^ k) * 2 ^ k
  BY <1>2, <1>3, EncodeIs
<1>5. k <= s
  <2> SUFFICES ASSUME k > s PROVE FALSE
    OBVIOUS
  <2>1. P + (s + 1) \in 0 .. P + k /\ P + k \in Nat
    BY Widths
  <2>2. 2 ^ (P + (s + 1)) <= 2 ^ (P + k)
    BY <2>1, PowerSplits
  <2>3. 2 ^ (P + (s + 1)) \in Nat /\ 2 ^ (P + k) \in Nat
    BY <2>1, PowerType
  <2>4. 2 ^ (P + (s + 1)) = (2 * p) * t
    <3>1. 2 ^ (P + s) = p * t
      BY <1>1, <1>2, Widths, PowerOfSum
    <3>2. P + s \in Nat /\ (P + s) + 1 = P + (s + 1)
      BY Widths
    <3>3. 2 ^ ((P + s) + 1) = 2 * (p * t)
      BY <3>1, <3>2, PowerDoubles
    <3> QED BY <3>2, <3>3
  <2>5. g * t + t =< (2 * p) * t
    BY <1>1, FactorsOrdered
  <2>6. g * t \in Nat /\ (2 * p) * t \in Nat
    OBVIOUS
  <2> QED BY <1>2, <1>3, <1>4, <2>2, <2>3, <2>4, <2>5, <2>6
<1>6. PICK c \in Nat, r \in Nat : c = 2 ^ k /\ c > 0 /\ r = 2 ^ (s - k) /\ t = c * r
  BY <1>2, <1>5, PowerSplits, PowerType
<1>7. u = (g * r) * c
  BY <1>3, <1>6
<1>8. u \div c = g * r
  <2>1. g * r \in Int /\ c > 0
    BY <1>6
  <2> QED BY <2>1, <1>7, Multiple
<1>9. Units(Encode(sign, u)) = u
  BY <1>4, <1>6, <1>7, <1>8
<1> QED BY <1>2, <1>3, <1>4, <1>9, EncodeIs

LEMMA FromWords ==
  ASSUME NEW sign \in {0, Word \div 2}, NEW m \in Nat, m < Word \div 2, NEW lo \in 0 .. Word - 1
  PROVE  LET d == Double(sign + m, lo)
         IN  /\ d \in Doubles /\ SignBit(d) = sign /\ Bits(d) = m * Word + lo /\ Magnitude(d) = m
<1>1. PICK h \in Nat : h > 0 /\ Word = 2 * h /\ h = Word \div 2 /\ h * Word = (MaxExp + 1) * 2 ^ P
  BY Halfs
<1>2. PICK w \in Nat : w = Word /\ w > 0
  BY <1>1
<1>3. PICK bits \in Nat : bits = m * w + lo
  BY <1>2
<1>4. bits < (MaxExp + 1) * 2 ^ P
  <2>1. m * w + w =< h * w
    BY <1>1, FactorsOrdered
  <2>2. m * w \in Nat /\ h * w \in Nat /\ lo < w
    BY <1>2
  <2> QED BY <1>1, <1>2, <1>3, <2>1, <2>2
<1>5. bits \div w = m /\ bits % w = lo
  <2>1. lo \in 0 .. (w - 1) /\ w > 0
    BY <1>2
  <2> QED BY <1>3, <2>1, DividedOnce
<1> QED BY <1>2, <1>3, <1>4, <1>5, Assembled

LEMMA WithExponentIs ==
  ASSUME NEW d \in Doubles, NEW k \in 0 .. MaxExp
  PROVE  /\ WithExponent(d, k) \in Doubles /\ SignBit(WithExponent(d, k)) = SignBit(d)
         /\ Bits(WithExponent(d, k)) = k * 2 ^ P + Fraction(d)
<1>1. PICK h \in Nat, g \in Nat : g = 2 ^ H /\ h = Word \div 2 /\ h = (MaxExp + 1) * g /\ 2 ^ P = g * Word
  BY Halfs
<1>2. PICK w \in Nat, m \in Nat : w = Word /\ m = MaxExp
  BY Halfs, Widths
<1>3. PICK f \in Nat, lo \in Nat, sign \in {0, Word \div 2} :
        f = d.hi % g /\ f < g /\ lo = d.lo /\ lo < w /\ sign = SignBit(d)
  BY <1>1, <1>2, DoubleIs
<1>4. PICK j \in Nat : j = k * g + f
  BY <1>2
<1>5. j < h
  <2>1. k * g + g =< (m + 1) * g
    BY <1>2, FactorsOrdered
  <2>2. k * g \in Nat /\ h = (m + 1) * g
    BY <1>1, <1>2
  <2> QED BY <1>3, <1>4, <2>1, <2>2
<1>6. WithExponent(d, k) = Double(sign + j, lo)
  <2>1. (sign + k * g) + f = sign + j
    BY <1>1, <1>2, <1>4
  <2> QED BY <1>1, <1>3, <2>1 DEF WithExponent
<1>7. lo \in 0 .. Word - 1 /\ j < Word \div 2
  BY <1>1, <1>2, <1>3, <1>5
<1>8. j * w + lo = k * (g * w) + (f * w + lo)
  <2>1. (k * g + f) * w = k * (g * w) + f * w
    BY <1>2
  <2>2. k * (g * w) \in Nat /\ f * w \in Nat
    BY <1>2
  <2> QED BY <1>4, <2>1, <2>2
<1>9. Fraction(d) = f * w + lo
  BY <1>1, <1>2, <1>3 DEF Fraction
<1>10. Double(sign + j, lo) \in Doubles /\ SignBit(Double(sign + j, lo)) = sign
       /\ Bits(Double(sign + j, lo)) = j * Word + lo
  BY <1>7, FromWords
<1> QED BY <1>1, <1>2, <1>3, <1>6, <1>8, <1>9, <1>10

LEMMA OneIs ==
  /\ One = 2 ^ P * 2 ^ (Bias - 1) /\ One \in Nat /\ One > 0
  /\ Double(Bias * 2 ^ H, 0) \in Doubles
  /\ \A sign \in {0, Word \div 2} :
       LET d == Double(sign + Bias * 2 ^ H, 0)
       IN  d \in Doubles /\ SignBit(d) = sign /\ Units(d) = One
<1>1. PICK h \in Nat, g \in Nat : g = 2 ^ H /\ g > 0 /\ h = Word \div 2 /\ h = (MaxExp + 1) * g /\ 2 ^ P = g * Word
  BY Halfs
<1>2. PICK w \in Nat, b0 \in Nat, c0 \in Nat : w = Word /\ w > 0 /\ b0 = Bias /\ b0 >= 4 /\ MaxExp + 1 = c0 /\ c0 = 2 * b0 + 2
  BY Halfs, Widths
<1>3. PICK m \in Nat : m = b0 * g
  OBVIOUS
<1>4. m < h
  <2>1. b0 * g + g =< c0 * g
    BY <1>2, FactorsOrdered
  <2>2. h = c0 * g
    BY <1>1, <1>2
  <2> QED BY <1>1, <1>3, <2>1, <2>2
<1>5. 0 \in 0 .. Word - 1 /\ m < Word \div 2
  BY <1>1, <1>2, <1>4
<1>6. PICK p \in Nat : p = 2 ^ P /\ p > 0 /\ p = g * w
  BY <1>1, <1>2, Widths, PowerType
<1>7. m * w = b0 * p
  BY <1>3, <1>6
<1>8. UnitsOf(b0 * p) = p * 2 ^ (b0 - 1) /\ 2 ^ (b0 - 1) \in Nat /\ 2 ^ (b0 - 1) > 0
  <2>1. 0 \in 0 .. 2 ^ P
    BY <1>6
  <2>2. b0 >= 1
    BY <1>2
  <2>3. UnitsOf(b0 * 2 ^ P + 0) = (2 ^ P + 0) * 2 ^ (b0 - 1) /\ 2 ^ (b0 - 1) \in Nat /\ 2 ^ (b0 - 1) > 0
    BY <2>1, <2>2, UnitsNormal
  <2>4. b0 * p + 0 = b0 * p /\ p + 0 = p
    OBVIOUS
  <2> QED BY <1>6, <2>3, <2>4
<1>9. ASSUME NEW sign \in {0, Word \div 2}
      PROVE  LET d == Double(sign + m, 0)
             IN  d \in Doubles /\ SignBit(d) = sign /\ Units(d) = p * 2 ^ (b0 - 1)
  <2> DEFINE d == Double(sign + m, 0)
  <2>1. d \in Doubles /\ SignBit(d) = sign /\ Bits(d) = m * Word + 0
    BY <1>5, FromWords
  <2>2. Bits(d) = b0 * p
    BY <2>1, <1>2, <1>7
  <2> QED BY <2>1, <2>2, <1>8, UnitsAre
<1>10. 0 \in {0, Word \div 2} /\ 0 + m = m
  OBVIOUS
<1>11. LET d == Double(m, 0) IN d \in Doubles /\ Units(d) = p * 2 ^ (b0 - 1)
  BY <1>9, <1>10
<1>12. One = p * 2 ^ (b0 - 1) /\ Double(Bias * 2 ^ H, 0) \in Doubles
  BY <1>11, <1>1, <1>2, <1>3 DEF One
<1>13. One \in Nat /\ One > 0
  <2>1. PICK c \in Nat : c = 2 ^ (b0 - 1) /\ c > 0
    BY <1>8
  <2>2. 1 * c =< p * c
    BY <1>6, ProductGrows
  <2> QED BY <1>12, <2>1, <2>2
<1> QED BY <1>1, <1>2, <1>3, <1>6, <1>9, <1>12, <1>13

(* The words of the integral part: the bits below those of one are cut     *)
(* off, or filled up.                                                      *)
LEMMA IntegralBits ==
  ASSUME NEW d \in Doubles, NEW outward \in BOOLEAN, outward => finite(d),
         NEW j0 \in 0 .. P - 1, j0 = Exponent(d) - Bias
  PROVE  LET r   == Integral(d, outward)
             low == 2 ^ (P - j0)
             cut == Bits(d) % low
         IN  /\ r \in Doubles /\ SignBit(r) = SignBit(d)
             /\ Bits(r) = IF outward /\ cut # 0 THEN Bits(d) - cut + low ELSE Bits(d) - cut
<1> DEFINE r == Integral(d, outward)
<1>1. PICK h \in Nat, g \in Nat :
        /\ g = 2 ^ H /\ g > 0 /\ h = Word \div 2 /\ h > 0 /\ Word = 2 * h /\ h = (MaxExp + 1) * g /\ h = 2 ^ (W - 1)
  BY Halfs
<1>2. PICK w \in Nat : w = Word /\ w > 0 /\ w = 2 * h /\ w = 2 ^ W
  BY <1>1 DEF Word
<1>3. PICK hi \in Nat, lo \in 0 .. w - 1, m \in Nat, sign \in {0, Word \div 2}, B \in Nat :
        /\ hi = d.hi /\ lo = d.lo /\ m = Magnitude(d) /\ sign = SignBit(d) /\ B = Bits(d)
        /\ m < h /\ hi = sign + m /\ B = m * w + lo
  <2>1. d.hi \in Nat /\ d.lo \in 0 .. w - 1 /\ Magnitude(d) \in Nat /\ SignBit(d) \in {0, Word \div 2}
        /\ Bits(d) \in Nat
    BY <1>2, DoubleIs
  <2>2. Magnitude(d) < h /\ d.hi = SignBit(d) + Magnitude(d)
    BY <1>1, DoubleIs
  <2>3. Bits(d) = Magnitude(d) * w + d.lo
    BY <1>2, DoubleIs
  <2> QED BY <2>1, <2>2, <2>3
<1>4. sign = 0 \/ sign = h
  BY <1>1
<1>5. outward => m + g < h
  <2> SUFFICES ASSUME outward PROVE m + g < h
    OBVIOUS
  <2>1. m < MaxExp * g
    BY <1>1, <1>3 DEF finite
  <2>2. PICK k \in Nat : k = MaxExp
    BY Widths
  <2>3. h = k * g + g /\ m < k * g /\ k * g \in Nat
    BY <1>1, <2>1, <2>2
  <2> QED BY <2>3
<1>6. PICK low \in Nat : low = 2 ^ (P - j0) /\ low > 0
  <2>1. P - j0 \in Nat
    BY Widths
  <2> QED BY <2>1, PowerType
<1>w. w > 0 /\ low > 0 /\ h > 0
  BY <1>1, <1>2, <1>6
<1>b. B = m * w + lo
  BY <1>3
<1> DEFINE Goal == /\ r \in Doubles /\ SignBit(r) = sign
                   /\ Bits(r) = IF outward /\ B % low # 0 THEN B - (B % low) + low ELSE B - (B % low)
<1>7. ASSUME j0 \in 0 .. H - 1 PROVE Goal
  <2>1. H - j0 \in Nat /\ H - j0 <= H /\ H - j0 \in 0 .. W - 1 /\ W - 1 \in Nat /\ (H - j0) + W = P - j0
        /\ H - j0 \in 0 .. H /\ H \in Nat /\ W \in Nat
    BY <1>7, Widths
  <2>2. PICK high \in Nat : high = 2 ^ (H - j0) /\ high > 0 /\ high <= g /\ low = high * w
    <3>1. 2 ^ (H - j0) \in Nat /\ 2 ^ (H - j0) > 0
      BY <2>1, PowerType
    <3>2. 2 ^ (H - j0) <= g
      BY <2>1, <1>1, PowerSplits
    <3>3. 2 ^ ((H - j0) + W) = 2 ^ (H - j0) * 2 ^ W
      BY <2>1, PowerOfSum
    <3> QED BY <3>1, <3>2, <3>3, <2>1, <1>2, <1>6
  <2>3. PICK c \in Nat : h = c * high
    <3>1. 2 ^ (W - 1) = 2 ^ (H - j0) * 2 ^ ((W - 1) - (H - j0)) /\ (W - 1) - (H - j0) \in Nat
      BY <2>1, PowerSplits
    <3>2. PICK c \in Nat : c = 2 ^ ((W - 1) - (H - j0))
      BY <3>1, PowerType
    <3> QED BY <3>1, <3>2, <1>1, <2>2
  <2>4. PICK cut \in 0 .. high - 1 : cut = m % high /\ hi % high = cut /\ (outward => (hi + high) % high = cut)
    <3>1. high > 0
      BY <2>2
    <3>2. m % high \in 0 .. high - 1
      BY <3>1, Divided
    <3>3. PICK q \in Nat : sign = q * high /\ hi = q * high + m
      <4>1. CASE sign = 0
        <5>1. 0 = 0 * high /\ hi = 0 * high + m
          BY <4>1, <1>3
        <5> QED BY <5>1, <4>1
      <4>2. CASE sign = h
        BY <4>2, <2>3, <1>3
      <4> QED BY <1>4, <4>1, <4>2
    <3>4. (q * high + m) % high = m % high
      BY <3>1, DividedMore
    <3>5. ((q + 1) * high + m) % high = m % high
      BY <3>1, DividedMore
    <3>6. hi + high = (q + 1) * high + m
      BY <3>3
    <3> QED BY <3>2, <3>3, <3>4, <3>5, <3>6
  <2>5. B \div w = m /\ B % w = lo
    BY <1>w, <1>b, DividedOnce
  <2>6. B % low = cut * w + lo
    <3>1. w > 0 /\ high > 0 /\ w * high = low
      BY <1>2, <2>2
    <3>2. B % (w * high) = ((B \div w) % high) * w + (B % w)
      BY <3>1, DividedTwice
    <3> QED BY <3>1, <3>2, <2>4, <2>5
  <2>7. B % low = 0 <=> cut = 0 /\ lo = 0
    <3>1. cut > 0 => 1 * w =< cut * w
      BY ProductGrows
    <3>2. cut * w \in Nat /\ (cut = 0 => cut * w = 0)
      OBVIOUS
    <3> QED BY <3>1, <3>2, <2>6, <1>2
  <2>8. r = IF cut = 0 /\ lo = 0 THEN d
            ELSE IF outward THEN Double(Wrap(hi + high) - (Wrap(hi + high) % high), 0)
            ELSE Double(hi - (hi % high), 0)
    <3>1. j0 < H /\ ~ j0 < 0 /\ ~ j0 \in H .. P - 1 /\ ~ j0 >= P
      BY <1>7, Widths
    <3> QED BY <3>1, <1>3, <1>7, <2>2, <2>4 DEF Integral
  <2>9. CASE B % low = 0
    <3>1. r = d
      BY <2>7, <2>8, <2>9
    <3>2. B - 0 = B
      OBVIOUS
    <3> HIDE DEF r
    <3> QED BY <3>1, <3>2, <2>9, <1>3
  <2>10. CASE B % low # 0 /\ ~ outward
    <3>1. r = Double(hi - cut, 0)
      BY <2>4, <2>7, <2>8, <2>10
    <3>2. m - cut \in Nat /\ m - cut < h
      <4>1. high > 0
        BY <2>2
      <4>2. PICK q \in Nat : m = q * high + cut
        <5>1. m = (m \div high) * high + (m % high) /\ m \div high \in Nat
          BY <4>1, Divided
        <5> QED BY <5>1, <2>4
      <4>3. q * high \in Nat
        OBVIOUS
      <4> QED BY <4>2, <4>3, <1>3
    <3>3. hi - cut = sign + (m - cut)
      BY <1>3, <1>4
    <3>4. r \in Doubles /\ SignBit(r) = sign /\ Bits(r) = (m - cut) * Word + 0
      <4>1. 0 \in 0 .. Word - 1 /\ m - cut < Word \div 2
        BY <1>1, <1>2, <3>2
      <4> HIDE DEF r
      <4> QED BY <3>1, <3>2, <3>3, <4>1, FromWords
    <3>5. (m - cut) * w + 0 = B - (B % low)
      BY <2>6, <1>b
    <3> HIDE DEF r
    <3> QED BY <3>4, <3>5, <2>10, <1>2
  <2>11. CASE B % low # 0 /\ outward
    <3>1. hi + high < w /\ hi + high \in Nat
      BY <1>2, <1>3, <1>4, <1>5, <2>2, <2>11
    <3>2. Wrap(hi + high) = hi + high
      <4>1. hi + high \in 0 .. (w - 1) /\ w > 0
        BY <3>1
      <4>2. (hi + high) % w = hi + high
        BY <4>1, DividedSmall
      <4> QED BY <4>2, <1>2 DEF Wrap
    <3>3. r = Double((hi + high) - cut, 0)
      BY <2>4, <2>7, <2>8, <2>11, <3>2
    <3>4. m + high - cut \in Nat /\ m + high - cut < h
      BY <1>3, <1>5, <2>2, <2>11
    <3>5. (hi + high) - cut = sign + (m + high - cut)
      BY <1>3, <1>4
    <3>6. r \in Doubles /\ SignBit(r) = sign /\ Bits(r) = (m + high - cut) * Word + 0
      <4>1. 0 \in 0 .. Word - 1 /\ m + high - cut < Word \div 2
        BY <1>1, <1>2, <3>4
      <4> HIDE DEF r
      <4> QED BY <3>3, <3>4, <3>5, <4>1, FromWords
    <3>7. (m + high - cut) * w + 0 = (B - (B % low)) + low
      BY <2>2, <2>6, <1>b
    <3> HIDE DEF r
    <3> QED BY <3>6, <3>7, <2>11, <1>2
  <2> HIDE DEF r
  <2> QED BY <2>9, <2>10, <2>11
<1>8. ASSUME j0 \in H .. P - 1 PROVE Goal
  <2>1. PICK c \in Nat : w = c * low /\ c > 0
    <3>1. P - j0 \in 0 .. W /\ W \in Nat
      BY <1>8, Widths
    <3>2. 2 ^ W = 2 ^ (P - j0) * 2 ^ (W - (P - j0)) /\ W - (P - j0) \in Nat
      BY <3>1, PowerSplits
    <3>3. PICK c \in Nat : c = 2 ^ (W - (P - j0)) /\ c > 0
      BY <3>2, PowerType
    <3> QED BY <3>2, <3>3, <1>2, <1>6
  <2>2. low > 0
    BY <1>6
  <2>3. PICK cut \in 0 .. low - 1 : cut = lo % low /\ B % low = cut /\ lo - cut \in Nat
                                    /\ (lo - cut) + low <= w
    <3>1. B = (m * c) * low + lo
      BY <1>3, <2>1
    <3>2. m * c \in Int /\ lo \in Nat /\ lo < c * low
      BY <1>2, <2>1
    <3>3. ((m * c) * low + lo) % low = lo % low
      <4>1. PICK mc \in Int : mc = m * c
        BY <3>2
      <4>2. (mc * low + lo) % low = lo % low
        <5>1. lo \in Int /\ low \in Nat /\ low > 0
          BY <2>2, <3>2
        <5> QED BY <5>1, DividedMore
      <4> QED BY <4>1, <4>2
    <3>4. lo % low \in 0 .. (low - 1) /\ lo - (lo % low) \in Nat /\ (lo - (lo % low)) + low <= c * low
      BY <2>2, <3>2, CutOff
    <3> QED BY <3>1, <3>3, <3>4, <2>1
  <2>4. r = IF cut = 0 THEN d
            ELSE IF outward
              THEN Double(Wrap(hi + ((lo + low) \div w)), Wrap(lo + low) - (Wrap(lo + low) % low))
            ELSE Double(Wrap(hi + (lo \div w)), Wrap(lo) - (Wrap(lo) % low))
    <3>1. ~ j0 < H /\ ~ j0 < 0 /\ ~ j0 \in 0 .. H - 1 /\ ~ j0 >= P
      BY <1>8, Widths
    <3> QED BY <3>1, <1>2, <1>3, <1>6, <1>8, <2>3 DEF Integral
  <2>5. CASE cut = 0
    <3>1. r = d
      BY <2>4, <2>5
    <3>2. B - 0 = B
      OBVIOUS
    <3> HIDE DEF r
    <3> QED BY <3>1, <3>2, <2>3, <2>5, <1>3
  <2>6. CASE cut # 0 /\ ~ outward
    <3>1. lo \div w = 0 /\ lo % w = lo
      BY <1>2, DividedSmall
    <3>2. hi % w = hi
      <4>1. hi \in 0 .. (w - 1) /\ w > 0
        BY <1>2, <1>3, <1>4
      <4> QED BY <4>1, DividedSmall
    <3>3. r = Double(sign + m, lo - cut)
      BY <2>3, <2>4, <2>6, <3>1, <3>2, <1>2, <1>3 DEF Wrap
    <3>4. r \in Doubles /\ SignBit(r) = sign /\ Bits(r) = m * Word + (lo - cut)
      <4>1. lo - cut \in 0 .. Word - 1 /\ m < Word \div 2
        BY <1>1, <1>2, <1>3, <2>3
      <4> HIDE DEF r
      <4> QED BY <3>3, <4>1, FromWords
    <3>5. m * w + (lo - cut) = B - cut
      BY <1>b
    <3> HIDE DEF r
    <3> QED BY <3>4, <3>5, <2>3, <2>6, <1>2
  <2>7. CASE cut # 0 /\ outward
    <3>1. PICK o \in {0, 1}, l \in 0 .. w - 1 :
            o = (lo + low) \div w /\ l = (lo + low) % w /\ lo + low = o * w + l
      <4>1. w > 0 /\ lo + low \in Nat /\ lo + low < 2 * w
        BY <1>2, <1>3, <2>3
      <4>2. (lo + low) \div w < 2 /\ (lo + low) \div w \in Nat /\ (lo + low) % w \in 0 .. (w - 1)
            /\ lo + low = ((lo + low) \div w) * w + ((lo + low) % w)
        BY <4>1, QuotientBelow, Divided
      <4>3. (lo + low) \div w \in {0, 1}
        BY <4>2
      <4> QED BY <4>2, <4>3
    <3>2. l % low = cut
      <4>1. (lo + low) % low = cut
        <5>1. (1 * low + lo) % low = lo % low
          BY <2>2, DividedMore
        <5>2. 1 * low + lo = lo + low
          OBVIOUS
        <5> QED BY <5>1, <5>2, <2>3
      <4>2. PICK k \in Int : k = o * c
        OBVIOUS
      <4>3. lo + low = k * low + l
        <5>1. o * (c * low) = (o * c) * low
          OBVIOUS
        <5> QED BY <5>1, <3>1, <2>1, <4>2
      <4>4. (k * low + l) % low = l % low
        BY <2>2, DividedMore
      <4> QED BY <4>1, <4>3, <4>4
    <3>3. l - cut \in 0 .. w - 1
      <4>1. l - (l % low) \in Nat
        <5>1. l < c * low
          BY <2>1
        <5> QED BY <5>1, <2>2, CutOff
      <4> QED BY <4>1, <3>2
    <3>4. m + o < h /\ hi + o < w /\ hi + o = sign + (m + o)
      BY <1>1, <1>2, <1>3, <1>4, <1>5, <2>7
    <3>5. (hi + o) % w = hi + o
      <4>1. hi + o \in 0 .. (w - 1) /\ w > 0
        BY <3>4
      <4> QED BY <4>1, DividedSmall
    <3>6. r = Double(sign + (m + o), l - cut)
      BY <2>4, <2>7, <3>1, <3>2, <3>4, <3>5, <1>2 DEF Wrap
    <3>7. r \in Doubles /\ SignBit(r) = sign /\ Bits(r) = (m + o) * Word + (l - cut)
      <4>1. l - cut \in 0 .. Word - 1 /\ m + o < Word \div 2 /\ m + o \in Nat
        BY <1>1, <1>2, <1>3, <3>3, <3>4
      <4> HIDE DEF r
      <4> QED BY <3>6, <4>1, FromWords
    <3>8. (m + o) * w + (l - cut) = (B - cut) + low
      <4>1. (m + o) * w = m * w + o * w
        OBVIOUS
      <4>2. m * w \in Nat /\ o * w \in Nat
        OBVIOUS
      <4>3. lo + low = o * w + l
        BY <3>1
      <4> QED BY <4>1, <4>2, <4>3, <1>b
    <3> HIDE DEF r
    <3> QED BY <3>7, <3>8, <2>3, <2>7, <1>2
  <2> HIDE DEF r
  <2> QED BY <2>5, <2>6, <2>7
<1>9. j0 \in 0 .. H - 1 \/ j0 \in H .. P - 1
  BY Widths
<1>10. Goal
  <2> HIDE DEF Goal
  <2> QED BY <1>7, <1>8, <1>9
<1> QED BY <1>3, <1>6, <1>10

(* The integral part and the rest, in units: no rest has more bits than    *)
(* there is room for.                                                      *)
LEMMA IntegralIs ==
  ASSUME NEW d \in Doubles, NEW outward \in BOOLEAN, outward => finite(d)
  PROVE  LET r    == Integral(d, outward)
             rest == Units(d) % One
         IN  /\ r \in Doubles /\ SignBit(r) = SignBit(d)
             /\ Units(r) = IF outward /\ rest # 0 THEN Units(d) - rest + One ELSE Units(d) - rest
             /\ \E g \in Nat, s \in Nat : g < 2 * 2 ^ P /\ rest = g * 2 ^ s
<1> DEFINE r == Integral(d, outward)
<1>1. PICK p \in Nat, one \in Nat : p = 2 ^ P /\ p > 0 /\ one = One /\ one > 0
  BY Widths, PowerType, OneIs
<1>2. PICK e \in Nat, f \in 0 .. p - 1, u \in Nat, B \in Nat, sign \in {0, Word \div 2} :
        /\ e = Exponent(d) /\ f = Fraction(d) /\ u = Units(d) /\ B = Bits(d) /\ sign = SignBit(d)
        /\ B = e * p + f
  <2>1. Exponent(d) \in Nat /\ Fraction(d) \in 0 .. p - 1 /\ Bits(d) \in Nat
    BY <1>1, DoubleIs, Widths
  <2>2. Units(d) \in Nat /\ SignBit(d) \in {0, Word \div 2} /\ Bits(d) = Exponent(d) * p + Fraction(d)
    BY <1>1, UnitsAre, DoubleIs
  <2> QED BY <2>1, <2>2
<1>3. ASSUME e >= 1 PROVE 2 ^ (e - 1) \in Nat /\ 2 ^ (e - 1) > 0 /\ u = (p + f) * 2 ^ (e - 1)
  BY <1>1, <1>2, <1>3, UnitsAre
<1>4. ASSUME e = 0 PROVE u = B /\ u = f
  <2>1. u = B
    BY <1>2, <1>4, UnitsAre
  <2>2. 0 * p + f = f
    OBVIOUS
  <2> QED BY <2>1, <2>2, <1>2, <1>4
<1>o. PICK t \in Nat : t = 2 ^ (Bias - 1) /\ t > 0 /\ one = p * t
  <2>1. Bias - 1 \in Nat
    BY Widths
  <2> QED BY <1>1, <2>1, OneIs, PowerType
<1>5. \E g \in Nat, s \in Nat : g < 2 * p /\ u = g * 2 ^ s
  <2>1. CASE e >= 1
    <3>1. p + f \in Nat /\ p + f < 2 * p /\ e - 1 \in Nat
      BY <1>2, <2>1
    <3> QED BY <3>1, <2>1, <1>3
  <2>2. CASE e = 0
    <3>1. f \in Nat /\ f < 2 * p /\ 0 \in Nat /\ u = f * 2 ^ 0
      BY <2>2, <1>2, <1>4, PowerOfZero
    <3> QED BY <3>1
  <2> QED BY <2>1, <2>2
<1> DEFINE Goal(rest) == /\ r \in Doubles /\ SignBit(r) = sign
                         /\ Units(r) = IF outward /\ rest # 0 THEN u - rest + one ELSE u - rest
                         /\ \E g \in Nat, s \in Nat : g < 2 * p /\ rest = g * 2 ^ s
<1>6. ASSUME e - Bias < 0 PROVE Goal(u % one)
  <2>1. u < one
    <3>1. CASE e = 0
      <4>1. p * 1 =< p * t
        BY <1>o
      <4> QED BY <4>1, <3>1, <1>1, <1>2, <1>4, <1>o
    <3>2. CASE e >= 1
      <4>1. e - 1 \in Nat /\ (e - 1) + 1 = e /\ e \in 0 .. Bias - 1 /\ Bias - 1 \in Nat
        BY <3>2, <1>6, Widths
      <4>2. PICK c \in Nat : c = 2 ^ (e - 1) /\ c > 0 /\ 2 * c <= t
        <5>1. 2 ^ e = 2 * 2 ^ (e - 1)
          BY <4>1, PowerDoubles
        <5>2. 2 ^ e <= 2 ^ (Bias - 1)
          BY <4>1, PowerSplits
        <5> QED BY <5>1, <5>2, <3>2, <1>3, <1>o
      <4>3. u = (p + f) * c
        BY <3>2, <4>2, <1>3
      <4>4. (p + f) * c + c =< (2 * p) * c
        <5>1. p + f \in Int /\ 2 * p \in Int /\ p + f < 2 * p
          OBVIOUS
        <5> QED BY <5>1, FactorsOrdered
      <4>5. (2 * c) * p =< t * p
        BY <4>2, ProductGrows
      <4>6. (2 * p) * c = (2 * c) * p /\ p * t = t * p /\ (2 * c) * p \in Nat /\ t * p \in Nat
            /\ (p + f) * c \in Nat
        <5>1. PICK k \in Nat : k = p + f
          OBVIOUS
        <5>2. k * c \in Nat
          OBVIOUS
        <5> QED BY <5>1, <5>2
      <4>7. (2 * p) * c =< one
        BY <4>5, <4>6, <1>o
      <4>8. (2 * p) * c \in Nat
        BY <4>6
      <4> QED BY <4>2, <4>3, <4>4, <4>6, <4>7, <4>8
    <3> QED BY <3>1, <3>2
  <2>2. u % one = u
    <3>1. u \in 0 .. (one - 1) /\ one > 0
      BY <2>1, <1>1
    <3> QED BY <3>1, DividedSmall
  <2>3. ~ e - Bias \in 0 .. H - 1 /\ ~ e - Bias \in H .. P - 1 /\ ~ e - Bias >= P
    BY <1>6, Widths
  <2>4. CASE outward /\ IsZero(d)
    <3>1. r = d
      BY <2>3, <2>4, <1>2, <1>6 DEF Integral
    <3>2. u = 0
      <4>1. B = 0 /\ 0 < 2 * p
        BY <2>4, <1>1, <1>2, DoubleIs
      <4>2. UnitsOf(0) = 0
        BY <4>1, <1>1, UnitsSmall
      <4> QED BY <4>1, <4>2, <1>2, UnitsAre
    <3>3. u - 0 = u
      OBVIOUS
    <3> HIDE DEF r
    <3> QED BY <2>2, <3>1, <3>2, <3>3, <1>2, <1>5
  <2>5. CASE outward /\ ~ IsZero(d)
    <3>1. r = Double(sign + Bias * 2 ^ H, 0)
      BY <2>3, <2>5, <1>2, <1>6 DEF Integral
    <3>2. r \in Doubles /\ SignBit(r) = sign /\ Units(r) = one
      <4> HIDE DEF r
      <4> QED BY <3>1, <1>1, OneIs
    <3>3. u # 0
      <4>1. CASE e = 0
        BY <4>1, <2>5, <1>2, <1>4, DoubleIs
      <4>2. CASE e >= 1
        <5>1. PICK c \in Nat : c = 2 ^ (e - 1) /\ c > 0 /\ u = (p + f) * c
          BY <4>2, <1>3
        <5>2. 1 * c =< (p + f) * c
          <6>1. p + f \in Nat /\ 1 =< p + f
            BY <1>1
          <6> QED BY <6>1, ProductGrows
        <5> QED BY <5>1, <5>2
      <4> QED BY <4>1, <4>2
    <3>4. u - u + one = one
      OBVIOUS
    <3> HIDE DEF r
    <3> QED BY <2>2, <2>5, <3>2, <3>3, <3>4, <1>5
  <2>6. CASE ~ outward
    <3>1. r = Zero(sign)
      BY <2>3, <2>6, <1>2, <1>6 DEF Integral
    <3>2. r \in Doubles /\ SignBit(r) = sign /\ Units(r) = 0
      <4> HIDE DEF r
      <4> QED BY <3>1, ZeroIs
    <3>3. u - u = 0
      OBVIOUS
    <3> HIDE DEF r
    <3> QED BY <2>2, <2>6, <3>2, <3>3, <1>5
  <2> HIDE DEF Goal
  <2> QED BY <2>4, <2>5, <2>6
<1>7. ASSUME e - Bias >= P PROVE Goal(u % one)
  <2>1. r = d
    <3>1. ~ e - Bias < 0 /\ ~ e - Bias \in 0 .. H - 1 /\ ~ e - Bias \in H .. P - 1
      BY <1>7, Widths
    <3> QED BY <3>1, <1>2, <1>7 DEF Integral
  <2>2. u % one = 0
    <3>1. e - 1 \in Nat /\ e >= 1 /\ P + (Bias - 1) \in 0 .. (e - 1) /\ Bias - 1 \in Nat
      BY <1>7, Widths
    <3>2. 2 ^ (P + (Bias - 1)) = one
      BY <3>1, <1>1, <1>o, Widths, PowerOfSum
    <3>3. 2 ^ (e - 1) = 2 ^ (P + (Bias - 1)) * 2 ^ ((e - 1) - (P + (Bias - 1)))
          /\ (e - 1) - (P + (Bias - 1)) \in Nat
      BY <3>1, PowerSplits
    <3>4. PICK c \in Nat : c = 2 ^ ((e - 1) - (P + (Bias - 1)))
      BY <3>3, PowerType
    <3>5. u = (p + f) * (one * c)
      BY <3>1, <3>2, <3>3, <3>4, <1>3
    <3>6. PICK k \in Nat : k = p + f
      OBVIOUS
    <3>7. PICK q \in Nat : q = k * c
      OBVIOUS
    <3>8. u = q * one
      BY <3>5, <3>6, <3>7
    <3> QED BY <3>8, <1>1, Multiple
  <2>3. u - 0 = u
    OBVIOUS
  <2>4. \E g \in Nat, s \in Nat : g < 2 * p /\ 0 = g * 2 ^ s
    <3>1. 0 \in Nat /\ 0 < 2 * p /\ 0 = 0 * 2 ^ 0
      BY <1>1, PowerOfZero
    <3> QED BY <3>1
  <2> HIDE DEF r
  <2> QED BY <2>1, <2>2, <2>3, <2>4, <1>2
<1>8. ASSUME e - Bias \in 0 .. P - 1 PROVE Goal(u % one)
  <2>1. PICK j0 \in 0 .. P - 1 : j0 = e - Bias
    BY <1>8
  <2>2. e >= 1 /\ e - 1 \in Nat /\ P - j0 \in 0 .. P /\ P \in Nat /\ j0 \in Nat /\ P - (P - j0) = j0
        /\ (P - j0) + (e - 1) = P + (Bias - 1) /\ P - j0 \in Nat /\ Bias - 1 \in Nat
    BY <2>1, Widths
  <2>3. PICK low \in Nat, k \in Nat : low = 2 ^ (P - j0) /\ low > 0 /\ p = k * low /\ low <= p
    <3>1. 2 ^ P = 2 ^ (P - j0) * 2 ^ j0
      <4>1. 2 ^ P = 2 ^ (P - j0) * 2 ^ (P - (P - j0))
        BY <2>2, PowerSplits
      <4> QED BY <4>1, <2>2
    <3>2. 2 ^ (P - j0) \in Nat /\ 2 ^ (P - j0) > 0 /\ 2 ^ j0 \in Nat /\ 2 ^ (P - j0) <= 2 ^ P
      BY <2>2, PowerType, PowerSplits
    <3>3. 2 ^ (P - j0) * 2 ^ j0 = 2 ^ j0 * 2 ^ (P - j0)
      BY <3>2
    <3> QED BY <3>1, <3>2, <3>3, <1>1
  <2>4. PICK c \in Nat : c = 2 ^ (e - 1) /\ c > 0 /\ u = (p + f) * c
    BY <2>2, <1>3
  <2>5. one = low * c
    <3>1. 2 ^ ((P - j0) + (e - 1)) = 2 ^ (P - j0) * 2 ^ (e - 1)
      BY <2>2, PowerOfSum
    <3>2. 2 ^ (P + (Bias - 1)) = one
      BY <2>2, <1>1, <1>o, PowerOfSum
    <3> QED BY <3>1, <3>2, <2>2, <2>3, <2>4
  <2>6. low > 0
    BY <2>3
  <2>7. PICK cut \in 0 .. low - 1 : cut = f % low /\ f - cut \in Nat /\ (f - cut) + low <= p
    <3>1. f \in Nat /\ f < k * low
      BY <2>3
    <3>2. f % low \in 0 .. (low - 1) /\ f - (f % low) \in Nat /\ (f - (f % low)) + low <= k * low
      BY <2>6, <3>1, CutOff
    <3> QED BY <3>2, <2>3
  <2>8. B % low = cut
    <3>1. PICK q \in Int : q = e * k
      OBVIOUS
    <3>2. B = q * low + f
      BY <1>2, <2>3, <3>1
    <3>3. (q * low + f) % low = f % low
      BY <2>6, DividedMore
    <3> QED BY <3>2, <3>3, <2>7
  <2>9. u % one = cut * c
    <3>1. (p + f) % low = cut
      <4>1. (k * low + f) % low = f % low
        BY <2>6, DividedMore
      <4> QED BY <4>1, <2>3, <2>7
    <3>2. PICK v \in Nat : v = p + f
      OBVIOUS
    <3>3. c > 0
      BY <2>4
    <3>4. (v * c) % (low * c) = (v % low) * c
      BY <2>6, <3>3, DividedScaled
    <3> QED BY <3>1, <3>2, <3>4, <2>4, <2>5
  <2>10. u % one = 0 <=> cut = 0
    <3>1. cut > 0 => 1 * c =< cut * c
      BY ProductGrows
    <3>2. cut * c \in Nat /\ (cut = 0 => cut * c = 0)
      OBVIOUS
    <3> QED BY <3>1, <3>2, <2>4, <2>9
  <2>11. r \in Doubles /\ SignBit(r) = sign
         /\ Bits(r) = IF outward /\ cut # 0 THEN (B - cut) + low ELSE B - cut
    <3>1. j0 = Exponent(d) - Bias
      BY <2>1, <1>2
    <3>2. LET low_1 == 2 ^ (P - j0)
              cut_1 == Bits(d) % low_1
          IN  /\ Integral(d, outward) \in Doubles /\ SignBit(Integral(d, outward)) = SignBit(d)
              /\ Bits(Integral(d, outward)) =
                   IF outward /\ cut_1 # 0 THEN Bits(d) - cut_1 + low_1 ELSE Bits(d) - cut_1
      BY <3>1, IntegralBits
    <3> QED BY <3>2, <1>2, <2>3, <2>8
  <2>12. PICK v \in 0 .. 2 ^ P : v = IF outward /\ cut # 0 THEN (f - cut) + low ELSE f - cut
    BY <2>7, <1>1
  <2>13. Bits(r) = e * 2 ^ P + v
    <3> HIDE DEF r
    <3>1. B = e * p + f
      BY <1>2
    <3>2. e * p \in Nat
      OBVIOUS
    <3> QED BY <2>11, <2>12, <3>1, <3>2, <1>1
  <2>14. Units(r) = (p + v) * c
    <3>1. UnitsOf(e * 2 ^ P + v) = (2 ^ P + v) * 2 ^ (e - 1)
      BY <2>2, UnitsNormal
    <3> HIDE DEF r
    <3> QED BY <3>1, <2>4, <2>11, <2>13, <1>1, UnitsAre
  <2>15. (p + v) * c = IF outward /\ cut # 0 THEN (u - cut * c) + one ELSE u - cut * c
    <3>1. CASE outward /\ cut # 0
      <4>1. (p + ((f - cut) + low)) * c = ((p + f) * c - cut * c) + low * c
        OBVIOUS
      <4> QED BY <4>1, <3>1, <2>4, <2>5, <2>12
    <3>2. CASE ~ (outward /\ cut # 0)
      <4>1. (p + (f - cut)) * c = (p + f) * c - cut * c
        OBVIOUS
      <4> QED BY <4>1, <3>2, <2>4, <2>12
    <3> QED BY <3>1, <3>2
  <2>16. \E g \in Nat, s \in Nat : g < 2 * p /\ cut * c = g * 2 ^ s
    <3>1. cut \in Nat /\ cut < 2 * p /\ e - 1 \in Nat /\ cut * c = cut * 2 ^ (e - 1)
      BY <2>2, <2>3, <2>4
    <3> QED BY <3>1
  <2> HIDE DEF r
  <2> QED BY <2>9, <2>10, <2>11, <2>14, <2>15, <2>16
<1>9. Goal(u % one)
  <2>1. e - Bias < 0 \/ e - Bias >= P \/ e - Bias \in 0 .. P - 1
    BY Widths
  <2> HIDE DEF Goal
  <2> QED BY <1>6, <1>7, <1>8, <2>1
<1> QED BY <1>1, <1>2, <1>9

LEMMA OneIsSmall == One < 2 ^ (P + (MaxExp - 1))
<1>1. P + (Bias - 1) \in Nat /\ P + (MaxExp - 1) \in Nat /\ P + (Bias - 1) \in 0 .. P + (MaxExp - 1)
      /\ P + (Bias - 1) < P + (MaxExp - 1) /\ Bias - 1 \in Nat
  BY Widths
<1>2. One = 2 ^ (P + (Bias - 1))
  BY <1>1, OneIs, Widths, PowerOfSum
<1>3. 2 * 2 ^ (P + (Bias - 1)) <= 2 ^ (P + (MaxExp - 1))
  BY <1>1, PowerSplits
<1>4. 2 ^ (P + (Bias - 1)) > 0 /\ 2 ^ (P + (Bias - 1)) \in Nat /\ 2 ^ (P + (MaxExp - 1)) \in Nat
  BY <1>1, PowerType
<1> QED BY <1>2, <1>3, <1>4

(* modf splits a number exactly. *)
LEMMA ModfIs ==
  ASSUME NEW d \in Doubles
  PROVE  LET parts == modf(d)
             rest  == Units(d) % One
         IN  /\ parts.integral \in Doubles /\ SignBit(parts.integral) = SignBit(d)
             /\ Units(parts.integral) = Units(d) - rest
             /\ parts.fraction \in Doubles /\ SignBit(parts.fraction) = SignBit(d)
             /\ Units(parts.fraction) = rest
<1>1. PICK u \in Nat, one \in Nat, sign \in {0, Word \div 2} :
        u = Units(d) /\ one = One /\ one > 0 /\ sign = SignBit(d)
  BY UnitsAre, OneIs, DoubleIs
<1>2. PICK rest \in Nat : rest = u % one /\ rest < one
  BY <1>1, Divided
<1>3. PICK i \in Doubles : i = Integral(d, FALSE) /\ SignBit(i) = sign /\ Units(i) = u - rest
  <2>1. FALSE \in BOOLEAN
    OBVIOUS
  <2>2. LET r    == Integral(d, FALSE)
            rest_1 == Units(d) % One
        IN  /\ r \in Doubles /\ SignBit(r) = SignBit(d)
            /\ Units(r) = IF FALSE /\ rest_1 # 0 THEN Units(d) - rest_1 + One ELSE Units(d) - rest_1
    BY <2>1, IntegralIs
  <2> QED BY <2>2, <1>1, <1>2
<1>4. PICK g \in Nat, s \in Nat : g < 2 * 2 ^ P /\ rest = g * 2 ^ s
  BY <1>1, <1>2, IntegralIs
<1>5. modf(d) = [integral |-> i, fraction |-> IF i = d THEN Zero(sign) ELSE Encode(sign, u - (u - rest))]
  BY <1>1, <1>3 DEF modf
<1>6. u - (u - rest) = rest
  OBVIOUS
<1>7. ASSUME i = d
      PROVE  /\ modf(d).fraction \in Doubles /\ SignBit(modf(d).fraction) = sign
             /\ Units(modf(d).fraction) = rest
  <2>2. Units(d) = u /\ Units(d) = u - rest
    BY <1>1, <1>3, <1>7
  <2>3. u = u - rest
    BY <2>2
  <2>1. rest = 0
    BY <2>3
  <2> QED BY <2>1, <1>5, <1>7, ZeroIs
<1>8. ASSUME i # d
      PROVE  /\ modf(d).fraction \in Doubles /\ SignBit(modf(d).fraction) = sign
             /\ Units(modf(d).fraction) = rest
  <2>1. g * 2 ^ s < 2 ^ (P + (MaxExp - 1))
    <3>1. P + (MaxExp - 1) \in Nat
      BY Widths
    <3>2. 2 ^ (P + (MaxExp - 1)) \in Nat
      BY <3>1, PowerType
    <3> QED BY <3>2, <1>1, <1>2, <1>4, OneIsSmall
  <2>2. /\ Encode(sign, g * 2 ^ s) \in Doubles /\ SignBit(Encode(sign, g * 2 ^ s)) = sign
        /\ Units(Encode(sign, g * 2 ^ s)) = g * 2 ^ s
    BY <2>1, <1>4, EncodedExactly
  <2>3. modf(d).fraction = Encode(sign, rest)
    BY <1>5, <1>6, <1>8
  <2> QED BY <2>2, <2>3, <1>4
<1>9. modf(d).integral = i
  BY <1>5
<1> QED BY <1>1, <1>2, <1>3, <1>7, <1>8, <1>9

LEMMA WithExponentUnits ==
  ASSUME NEW d \in Doubles, NEW k \in 1 .. MaxExp
  PROVE  LET r == WithExponent(d, k)
         IN  /\ r \in Doubles /\ SignBit(r) = SignBit(d)
             /\ Units(r) = (2 ^ P + Fraction(d)) * 2 ^ (k - 1)
             /\ finite(r) <=> k < MaxExp
<1> DEFINE r == WithExponent(d, k)
<1>1. PICK p \in Nat : p = 2 ^ P /\ p > 0
  BY Widths, PowerType
<1>2. PICK f \in Nat : f = Fraction(d) /\ f < p
  BY <1>1, DoubleIs
<1>3. r \in Doubles /\ SignBit(r) = SignBit(d) /\ Bits(r) = k * 2 ^ P + f
  <2>1. k \in 0 .. MaxExp
    OBVIOUS
  <2> QED BY <2>1, <1>2, WithExponentIs
<1>4. f \in 0 .. 2 ^ P /\ k \in Nat /\ k >= 1
  BY <1>1, <1>2, Widths
<1>5. UnitsOf(k * 2 ^ P + f) = (2 ^ P + f) * 2 ^ (k - 1)
  BY <1>4, UnitsNormal
<1>6. finite(r) <=> k < MaxExp
  <2>1. PICK m \in Nat : m = MaxExp
    BY Widths
  <2>2. p > 0 /\ k * p + f \in Int /\ f \in 0 .. (p - 1)
    BY <1>1, <1>2, <1>4
  <2>3. k * p + f < m * p <=> (k * p + f) \div p < m
    BY <2>2, QuotientBelow
  <2>4. (k * p + f) \div p = k
    BY <2>2, <1>4, DividedOnce
  <2> HIDE DEF r
  <2> QED BY <1>1, <1>3, <2>1, <2>3, <2>4, FiniteIs
<1> HIDE DEF r
<1> QED BY <1>2, <1>3, <1>5, <1>6, UnitsAre DEF r

LEMMA NearestType ==
  ASSUME NEW u \in Nat, NEW k \in Nat
  PROVE  /\ Nearest(u, k) \in Nat /\ u \div 2 ^ k \in Nat
         /\ Nearest(u, k) \in {u \div 2 ^ k, (u \div 2 ^ k) + 1}
<1>1. PICK c \in Nat : c = 2 ^ k /\ c > 0
  BY PowerType
<1>2. u \div c \in Nat
  BY <1>1, Divided
<1> QED BY <1>1, <1>2 DEF Nearest

(* A number that is not zero is made normal: a subnormal one is scaled.    *)
LEMMA NormalIs ==
  ASSUME NEW d \in Doubles, finite(d), ~ IsZero(d)
  PROVE  LET scaled == Exponent(d) = 0
             normal == IF scaled THEN TimesTwo54(d) ELSE d
             shift  == IF scaled THEN P + 2 ELSE 0
         IN  /\ normal \in Doubles /\ SignBit(normal) = SignBit(d)
             /\ Exponent(normal) \in 1 .. MaxExp - 1
             /\ scaled => Exponent(normal) <= P + 2
             /\ Units(normal) = Units(d) * 2 ^ shift
             /\ Units(d) \in Nat /\ Units(d) > 0
<1>1. PICK p \in Nat, m \in Nat : p = 2 ^ P /\ p > 0 /\ m = MaxExp /\ P + 2 < m
  BY Widths, PowerType
<1>2. PICK u \in Nat, sign \in {0, Word \div 2}, e \in Nat, B \in Nat :
        u = Units(d) /\ sign = SignBit(d) /\ e = Exponent(d) /\ B = Bits(d) /\ B > 0 /\ e <= m - 1
  <2>1. Bits(d) # 0 /\ Exponent(d) < MaxExp /\ Exponent(d) \in 0 .. MaxExp /\ Bits(d) \in Nat
        /\ SignBit(d) \in {0, Word \div 2}
    BY DoubleIs
  <2> QED BY <2>1, <1>1, UnitsAre
<1>3. CASE e >= 1
  <2>1. u * 2 ^ 0 = u
    BY PowerOfZero
  <2>2. u > 0
    <3>1. PICK f \in Nat, c \in Nat : u = (p + f) * c /\ c > 0
      <4>1. 2 ^ (e - 1) \in Nat /\ 2 ^ (e - 1) > 0 /\ u = (p + Fraction(d)) * 2 ^ (e - 1)
        BY <1>1, <1>2, <1>3, UnitsAre
      <4>2. Fraction(d) \in Nat
        BY DoubleIs
      <4> QED BY <4>1, <4>2
    <3>2. 1 * c =< (p + f) * c
      <4>1. p + f \in Nat /\ 1 =< p + f
        BY <1>1
      <4> QED BY <4>1, ProductGrows
    <3> QED BY <3>1, <3>2
  <2> QED BY <2>1, <2>2, <1>1, <1>2, <1>3
<1>4. CASE e = 0
  <2>1. u = B /\ u < p
    <3>1. u = B
      BY <1>2, <1>4, UnitsAre
    <3>2. B = 0 * p + Fraction(d) /\ Fraction(d) \in Nat /\ Fraction(d) < p
      BY <1>1, <1>2, <1>4, DoubleIs
    <3>3. 0 * p + Fraction(d) = Fraction(d)
      BY <3>2
    <3> QED BY <3>1, <3>2, <3>3
  <2>2. P \in Nat /\ P + 2 \in Nat /\ P + (MaxExp - 1) \in Nat /\ P + (P + 2) \in 0 .. P + (MaxExp - 1)
    BY Widths
  <2>3. PICK t \in Nat : t = 2 ^ (P + 2) /\ t > 0 /\ 2 ^ (P + (P + 2)) = p * t
    BY <2>2, <1>1, PowerType, PowerOfSum
  <2>4. u * t + t =< p * t /\ u * t \in Nat /\ p * t \in Nat
    BY <2>1, FactorsOrdered
  <2>5. u * 2 ^ (P + 2) < 2 ^ (P + (MaxExp - 1))
    <3>1. 2 ^ (P + (P + 2)) <= 2 ^ (P + (MaxExp - 1)) /\ 2 ^ (P + (MaxExp - 1)) \in Nat
      BY <2>2, PowerSplits, PowerType
    <3> QED BY <3>1, <2>3, <2>4
  <2>6. PICK r \in Doubles : /\ r = TimesTwo54(d) /\ SignBit(r) = sign /\ finite(r)
                             /\ Units(r) = u * t
    <3>1. u < 2 * 2 ^ P
      BY <1>1, <2>1
    <3>2. /\ Encode(sign, u * 2 ^ (P + 2)) \in Doubles /\ SignBit(Encode(sign, u * 2 ^ (P + 2))) = sign
          /\ finite(Encode(sign, u * 2 ^ (P + 2)))
          /\ Units(Encode(sign, u * 2 ^ (P + 2))) = u * 2 ^ (P + 2)
      BY <3>1, <2>2, <2>5, EncodedExactly
    <3> QED BY <3>2, <1>2, <2>3 DEF TimesTwo54
  <2>7. PICK er \in Nat, fr \in Nat : er = Exponent(r) /\ fr = Fraction(r) /\ fr < p /\ er <= m - 1
    <3>1. Exponent(r) \in 0 .. MaxExp /\ Exponent(r) < MaxExp /\ Fraction(r) \in Nat /\ Fraction(r) < 2 ^ P
      BY <2>6, DoubleIs
    <3> QED BY <3>1, <1>1
  <2>8. er # 0
    <3> SUFFICES ASSUME er = 0 PROVE FALSE
      OBVIOUS
    <3>1. Units(r) = Bits(r) /\ Bits(r) = 0 * p + fr
      BY <2>7, <1>1, DoubleIs, UnitsAre
    <3>2. u * t < p
      BY <3>1, <2>6, <2>7
    <3>3. 1 * t =< u * t
      BY <1>2, <2>1, ProductGrows
    <3>4. p <= t
      <4>1. P \in 0 .. P + 2
        BY <2>2
      <4> QED BY <4>1, <2>2, <2>3, <1>1, PowerSplits
    <3> QED BY <3>2, <3>3, <3>4, <2>4
  <2>9. er <= P + 2
    <3> SUFFICES ASSUME er > P + 2 PROVE FALSE
      BY <2>2
    <3>1. er - 1 \in Nat /\ P + 2 \in 0 .. er - 1
      BY <2>2
    <3>2. PICK c \in Nat : c = 2 ^ (er - 1) /\ t <= c /\ c > 0
      BY <3>1, <2>3, PowerSplits, PowerType
    <3>3. Units(r) = (p + fr) * c
      BY <2>7, <2>8, <3>2, <1>1, UnitsAre
    <3>4. t * p =< c * p /\ t * p \in Nat /\ c * p \in Nat
      BY <3>2, ProductGrows
    <3>5. p * c =< (p + fr) * c /\ (p + fr) * c \in Nat
      <4>1. p + fr \in Nat /\ p =< p + fr
        OBVIOUS
      <4> QED BY <4>1, ProductGrows
    <3>6. p * c = c * p /\ p * t = t * p
      OBVIOUS
    <3> QED BY <3>3, <3>4, <3>5, <3>6, <2>3, <2>4, <2>6
  <2> QED BY <2>1, <2>3, <2>6, <2>7, <2>8, <2>9, <1>1, <1>2, <1>4
<1> QED BY <1>3, <1>4

(* A number that was made normal, in its significand. *)
LEMMA NormalUnits ==
  ASSUME NEW d \in Doubles, Exponent(d) >= 1
  PROVE  /\ Units(d) = (2 ^ P + Fraction(d)) * 2 ^ (Exponent(d) - 1)
         /\ Fraction(d) \in Nat /\ Fraction(d) < 2 ^ P
<1>1. Exponent(d) > 0
  BY DoubleIs, Widths
<1> QED BY <1>1, DoubleIs, UnitsAre

(* frexp splits a number exactly. *)
LEMMA FrexpIs ==
  ASSUME NEW d \in Doubles, finite(d), ~ IsZero(d)
  PROVE  LET parts == frexp(d)
             units == Units(parts.fraction)
         IN  /\ parts.fraction \in Doubles
             /\ 2 * units >= One /\ units < One
             /\ IF parts.exp >= 0 THEN units * 2 ^ parts.exp = Units(d)
                                  ELSE units = Units(d) * 2 ^ (-parts.exp)
<1>1. PICK p \in Nat, m \in Nat, bi \in Nat :
        p = 2 ^ P /\ p > 0 /\ m = MaxExp /\ bi = Bias /\ bi >= 4 /\ m = 2 * bi + 1
  BY Widths, PowerType
<1>2. PICK shift \in Nat : shift = IF Exponent(d) = 0 THEN P + 2 ELSE 0
  BY Widths
<1>3. PICK N \in Doubles : /\ N = IF Exponent(d) = 0 THEN TimesTwo54(d) ELSE d
                           /\ Exponent(N) \in 1 .. m - 1
                           /\ Units(N) = Units(d) * 2 ^ shift
  BY <1>1, <1>2, NormalIs
<1>4. PICK e \in Nat, f \in Nat, u \in Nat, g \in Nat :
        /\ e = Exponent(N) /\ e >= 1 /\ f = Fraction(N) /\ f < p /\ u = Units(d)
        /\ g = p + f /\ u * 2 ^ shift = g * 2 ^ (e - 1)
  <2>1. Exponent(N) \in Nat /\ Exponent(N) >= 1 /\ Units(d) \in Nat
    BY <1>1, <1>3, UnitsAre
  <2>2. Units(N) = (p + Fraction(N)) * 2 ^ (Exponent(N) - 1) /\ Fraction(N) \in Nat /\ Fraction(N) < p
    BY <2>1, <1>1, NormalUnits
  <2> QED BY <2>1, <2>2, <1>3
<1>5. PICK r \in Doubles : /\ r = WithExponent(N, bi - 1) /\ Units(r) = g * 2 ^ ((bi - 1) - 1)
  <2>1. bi - 1 \in 1 .. MaxExp
    BY <1>1
  <2> QED BY <2>1, <1>1, <1>4, WithExponentUnits
<1>6. PICK x0 \in Int : x0 = e - (bi - 1) - shift
  BY <1>1
<1>7. frexp(d).fraction = r /\ frexp(d).exp = x0
  BY <1>1, <1>2, <1>3, <1>4, <1>5, <1>6 DEF frexp
<1>8. PICK t \in Nat, v \in Nat : t = 2 ^ ((bi - 1) - 1) /\ t > 0 /\ v = Units(r) /\ v = g * t /\ One = p * (2 * t)
  <2>1. (bi - 1) - 1 \in Nat /\ ((bi - 1) - 1) + 1 = bi - 1
    BY <1>1
  <2>2. PICK t \in Nat : t = 2 ^ ((bi - 1) - 1) /\ t > 0 /\ 2 ^ (bi - 1) = 2 * t
    BY <2>1, PowerType, PowerDoubles
  <2>3. g * t \in Nat
    OBVIOUS
  <2> QED BY <2>2, <2>3, <1>1, <1>5, OneIs
<1>9. 2 * v >= One /\ v < One
  <2>1. p * t =< g * t /\ p * t \in Nat /\ g * t \in Nat
    BY <1>4, ProductGrows
  <2>2. g * t + t =< (2 * p) * t
    <3>1. g < 2 * p /\ 2 * p \in Int
      BY <1>4
    <3> QED BY <3>1, FactorsOrdered
  <2>3. (2 * p) * t = 2 * (p * t) /\ p * (2 * t) = 2 * (p * t)
    OBVIOUS
  <2> QED BY <2>1, <2>2, <2>3, <1>8
<1>10. PICK s \in Nat : s = 2 ^ shift /\ s > 0
  BY PowerType
<1>11. ASSUME x0 >= 0 PROVE v * 2 ^ x0 = u
  <2>1. x0 \in Nat /\ (bi - 1) - 1 \in Nat /\ e - 1 = ((bi - 1) - 1) + (x0 + shift) /\ x0 + shift \in Nat
    BY <1>1, <1>6, <1>11
  <2>2. PICK q \in Nat : q = 2 ^ x0
    BY <2>1, PowerType
  <2>3. 2 ^ (e - 1) = t * (q * s)
    <3>1. 2 ^ (x0 + shift) = q * s
      BY <2>1, <2>2, <1>10, PowerOfSum
    <3>2. 2 ^ (((bi - 1) - 1) + (x0 + shift)) = t * 2 ^ (x0 + shift)
      BY <2>1, <1>8, PowerOfSum
    <3> QED BY <2>1, <3>1, <3>2
  <2>4. u * s = g * (t * (q * s))
    BY <2>3, <1>4, <1>10
  <2>5. g * (t * (q * s)) = ((g * t) * q) * s
    OBVIOUS
  <2>6. (g * t) * q \in Int
    OBVIOUS
  <2>7. u = (g * t) * q
    BY <2>4, <2>5, <2>6, <1>10, Cancelled
  <2> QED BY <2>2, <2>7, <1>8
<1>12. ASSUME ~ x0 >= 0 PROVE v = u * 2 ^ (-x0)
  <2>1. -x0 \in Nat /\ (bi - 1) - 1 \in Nat /\ e - 1 \in Nat /\ ((bi - 1) - 1) + shift = (e - 1) + (-x0)
    BY <1>1, <1>4, <1>6, <1>12
  <2>2. PICK q \in Nat : q = 2 ^ (-x0)
    BY <2>1, PowerType
  <2>3. PICK c \in Nat : c = 2 ^ (e - 1)
    BY <2>1, PowerType
  <2>4. t * s = c * q
    <3>1. 2 ^ (((bi - 1) - 1) + shift) = t * s
      BY <2>1, <1>8, <1>10, PowerOfSum
    <3>2. 2 ^ ((e - 1) + (-x0)) = c * q
      BY <2>1, <2>2, <2>3, PowerOfSum
    <3> QED BY <2>1, <3>1, <3>2
  <2>5. u * s = g * c
    BY <2>3, <1>4, <1>10
  <2>6. (g * t) * s = (u * q) * s
    <3>1. (g * t) * s = g * (t * s) /\ g * (c * q) = (g * c) * q /\ (u * s) * q = (u * q) * s
      OBVIOUS
    <3> QED BY <3>1, <2>4, <2>5
  <2>7. g * t \in Int /\ u * q \in Int
    OBVIOUS
  <2>8. g * t = u * q
    BY <2>6, <2>7, <1>10, Cancelled
  <2> QED BY <2>2, <2>8, <1>8
<1> QED BY <1>4, <1>6, <1>7, <1>8, <1>9, <1>11, <1>12

(* The integral parts of a number on both sides of it. *)
LEMMA SidesAre ==
  ASSUME NEW d \in Doubles, finite(d)
  PROVE  /\ floor(d) \in Doubles /\ ceil(d) \in Doubles
         /\ Value(floor(d)) % One = 0 /\ Value(d) - Value(floor(d)) \in 0 .. One - 1
         /\ Value(ceil(d)) % One = 0 /\ Value(ceil(d)) - Value(d) \in 0 .. One - 1
<1>1. PICK u \in Nat, one \in Nat, sign \in {0, Word \div 2} :
        u = Units(d) /\ one = One /\ one > 0 /\ sign = SignBit(d)
  BY UnitsAre, OneIs, DoubleIs
<1>2. PICK rest \in Nat, q \in Nat : rest = u % one /\ rest < one /\ q = u \div one /\ u = q * one + rest
  BY <1>1, Divided
<1>3. PICK i \in Doubles : /\ i = Integral(d, FALSE) /\ SignBit(i) = sign
                           /\ Units(i) = q * one
  <2>1. FALSE \in BOOLEAN /\ (FALSE => finite(d)) /\ u - rest = q * one
    BY <1>2
  <2>2. /\ Integral(d, FALSE) \in Doubles /\ SignBit(Integral(d, FALSE)) = SignBit(d)
        /\ Units(Integral(d, FALSE)) = IF FALSE /\ Units(d) % One # 0 THEN Units(d) - (Units(d) % One) + One
                                       ELSE Units(d) - (Units(d) % One)
    BY <2>1, IntegralIs
  <2> QED BY <2>1, <2>2, <1>1, <1>2
<1>4. PICK k \in Nat, o \in Doubles :
        /\ o = Integral(d, TRUE) /\ SignBit(o) = sign /\ Units(o) = k * one
        /\ k * one - u \in 0 .. one - 1
  <2>1. TRUE \in BOOLEAN /\ (TRUE => finite(d))
    OBVIOUS
  <2>2. /\ Integral(d, TRUE) \in Doubles /\ SignBit(Integral(d, TRUE)) = SignBit(d)
        /\ Units(Integral(d, TRUE)) = IF TRUE /\ Units(d) % One # 0 THEN Units(d) - (Units(d) % One) + One
                                      ELSE Units(d) - (Units(d) % One)
    BY <2>1, IntegralIs
  <2>3. Units(Integral(d, TRUE)) = IF rest # 0 THEN u - rest + one ELSE u - rest
    BY <2>2, <1>1, <1>2
  <2>4. CASE rest # 0
    <3>1. u - rest + one = (q + 1) * one /\ (q + 1) * one - u = one - rest /\ q + 1 \in Nat
      BY <1>2
    <3>2. one - rest \in 0 .. one - 1
      BY <2>4, <1>2
    <3> QED BY <2>2, <2>3, <2>4, <3>1, <3>2, <1>1
  <2>5. CASE rest = 0
    <3>1. u - rest = q * one /\ q * one - u = 0
      BY <2>5, <1>2
    <3>2. 0 \in 0 .. one - 1
      BY <1>1
    <3> QED BY <2>2, <2>3, <2>5, <3>1, <3>2, <1>1
  <2> QED BY <2>4, <2>5
<1>5. (q * one) % one = 0 /\ (k * one) % one = 0 /\ (-(q * one)) % one = 0 /\ (-(k * one)) % one = 0
  <2>1. one > 0 /\ q \in Int /\ k \in Int /\ -q \in Int /\ -k \in Int
    BY <1>1
  <2>2. (q * one) % one = 0 /\ (k * one) % one = 0 /\ ((-q) * one) % one = 0 /\ ((-k) * one) % one = 0
    BY <2>1, Multiple
  <2>3. (-q) * one = -(q * one) /\ (-k) * one = -(k * one)
    OBVIOUS
  <2> QED BY <2>2, <2>3
<1>6. CASE sign = 0
  <2>1. ~ Negative(d) /\ ~ Negative(i) /\ ~ Negative(o)
    BY <1>1, <1>3, <1>4, <1>6 DEF Negative
  <2>5. Negative(d) = FALSE /\ (~ Negative(d)) = TRUE
    <3>1. Negative(d) \in BOOLEAN
      BY DEF Negative
    <3> QED BY <2>1, <3>1
  <2>2. floor(d) = i /\ ceil(d) = o
    BY <2>5, <1>3, <1>4 DEF floor, ceil
  <2>3. Value(d) = u /\ Value(i) = q * one /\ Value(o) = k * one
    BY <2>1, <1>1, <1>3, <1>4 DEF Value
  <2>4. u - q * one \in 0 .. one - 1
    BY <1>2
  <2> QED BY <2>2, <2>3, <2>4, <1>1, <1>4, <1>5
<1>7. CASE sign # 0
  <2>1. Negative(d) /\ Negative(i) /\ Negative(o)
    BY <1>1, <1>3, <1>4, <1>7 DEF Negative
  <2>2. floor(d) = o /\ ceil(d) = i
    BY <2>1, <1>3, <1>4 DEF floor, ceil
  <2>3. Value(d) = -u /\ Value(i) = -(q * one) /\ Value(o) = -(k * one)
    BY <2>1, <1>1, <1>3, <1>4 DEF Value
  <2>4. (-u) - (-(k * one)) = k * one - u /\ (-(q * one)) - (-u) \in 0 .. one - 1
    BY <1>2
  <2> QED BY <2>2, <2>3, <2>4, <1>1, <1>4, <1>5
<1> QED BY <1>6, <1>7

LEMMA PartsExact == x \in Doubles => PartsAreExact
<1> SUFFICES ASSUME x \in Doubles, finite(x) PROVE IntegralPartsAreExact /\ ExponentsAreExact
  BY DEF PartsAreExact
<1>1. PICK u \in Nat, one \in Nat : u = Units(x) /\ one = One /\ one > 0
  BY UnitsAre, OneIs
<1>2. PICK rest \in Nat, q \in Nat : rest = u % one /\ rest < one /\ q = u \div one /\ u = q * one + rest
  BY <1>1, Divided
<1>3. PICK i \in Doubles, f \in Doubles :
        /\ i = modf(x).integral /\ f = modf(x).fraction
        /\ SignBit(i) = SignBit(x) /\ SignBit(f) = SignBit(x)
        /\ Units(i) = u - rest /\ Units(f) = rest
  BY <1>1, <1>2, ModfIs
<1>4. IntegralPartsAreExact
  <2>1. Units(i) % One = 0
    <3>1. u - rest = q * one
      BY <1>2
    <3>2. (q * one) % one = 0
      BY <1>1, Multiple
    <3> QED BY <3>1, <3>2, <1>1, <1>3
  <2>2. Value(i) + Value(f) = Value(x)
    <3>1. (u - rest) + rest = u /\ (-(u - rest)) + (-rest) = -u
      OBVIOUS
    <3> QED BY <3>1, <1>1, <1>3 DEF Value, Negative
  <2>3. Units(f) < One
    BY <1>1, <1>2, <1>3
  <2> QED BY <2>1, <2>2, <2>3, <1>3, SidesAre DEF IntegralPartsAreExact
<1>5. ExponentsAreExact
  BY FrexpIs DEF ExponentsAreExact
<1> QED BY <1>4, <1>5

-----------------------------------------------------------------------------
(***************************************************************************)
(* The or of words.                                                        *)
(***************************************************************************)
LEMMA BitsOf ==
  ASSUME NEW v \in Nat, NEW i \in Nat
  PROVE  /\ Shr(v, i) \in Nat /\ Shr(v, i) % 2 \in {0, 1}
         /\ v % 2 ^ i \in Nat /\ v % 2 ^ i < 2 ^ i /\ 2 ^ i \in Nat
         /\ v % 2 ^ (i + 1) = (v % 2 ^ i) + 2 ^ i * (Shr(v, i) % 2)
<1>1. PICK c \in Nat : c = 2 ^ i /\ c > 0 /\ 2 ^ (i + 1) = 2 * c
  BY PowerType, PowerDoubles
<1>2. v \div c \in Nat /\ v % c \in 0 .. c - 1
  BY <1>1, Divided
<1>3. v % (c * 2) = ((v \div c) % 2) * c + (v % c)
  BY <1>1, DividedTwice
<1>4. (v \div c) % 2 \in {0, 1}
  BY <1>2
<1>5. PICK bit \in {0, 1}, r \in 0 .. c - 1 : bit = (v \div c) % 2 /\ r = v % c
  BY <1>2, <1>4
<1>6. bit * c + r = r + c * bit
  OBVIOUS
<1>7. v % 2 ^ (i + 1) = r + c * bit
  BY <1>1, <1>3, <1>5, <1>6
<1> QED BY <1>1, <1>2, <1>5, <1>7 DEF Shr

LEMMA MaxOfBits ==
  ASSUME NEW o \in {0, 1}, NEW q \in {0, 1}
  PROVE  /\ Max({o, q}) \in {0, 1}
         /\ o = 0 => Max({o, q}) = q
         /\ q = 0 => Max({o, q}) = o
<1>1. {o, q} \subseteq Nat /\ {o, q} # {} /\ {o, q} \subseteq 0 .. 1
  OBVIOUS
<1>2. IsFiniteSet({o, q})
  <2>0. PICK one \in Nat : one = 1
    OBVIOUS
  <2>1. IsFiniteSet(0 .. one)
    BY FS_Interval
  <2>2. {o, q} \in SUBSET (0 .. one)
    BY <2>0
  <2> QED BY <2>1, <2>2, FS_Subset
<1>3. Max({o, q}) \in {o, q} /\ o <= Max({o, q}) /\ q <= Max({o, q})
  BY <1>1, <1>2, MaxOf
<1> QED BY <1>3

(* Bit by bit, from the last one on. *)
LEMMA OrRounds ==
  ASSUME NEW v \in Nat, NEW w \in Nat
  PROVE  \E f \in [0 .. W -> Nat] :
           /\ f[0] = 0 /\ f[W] = BitOr(v, w)
           /\ \A i \in 1 .. W : f[i] = f[i - 1] + 2 ^ (i - 1) * Max({Shr(v, i - 1) % 2, Shr(w, i - 1) % 2})
<1> DEFINE Bit(i) == 2 ^ (i - 1) * Max({Shr(v, i - 1) % 2, Shr(w, i - 1) % 2})
           Is(f) == f = [i \in 0 .. W |-> IF i = 0 THEN 0 ELSE f[i - 1] + Bit(i)]
           step == [i \in 1 .. W |-> [o \in Nat |-> o + Bit(i)]]
           or == CHOOSE f : Is(f)
<1>1. W \in Nat
  BY Widths
<1>2. \A i \in 1 .. W : Bit(i) \in Nat
  <2> SUFFICES ASSUME NEW i \in 1 .. W PROVE Bit(i) \in Nat
    OBVIOUS
  <2>1. i - 1 \in Nat
    BY <1>1
  <2>2. Shr(v, i - 1) % 2 \in {0, 1} /\ Shr(w, i - 1) % 2 \in {0, 1} /\ 2 ^ (i - 1) \in Nat
    BY <2>1, BitsOf
  <2>3. Max({Shr(v, i - 1) % 2, Shr(w, i - 1) % 2}) \in {0, 1}
    BY <2>2, MaxOfBits
  <2> QED BY <2>2, <2>3
<1>3. step \in [1 .. W -> [Nat -> Nat]]
  <2> HIDE DEF Bit
  <2>1. ASSUME NEW i \in 1 .. W PROVE [o \in Nat |-> o + Bit(i)] \in [Nat -> Nat]
    <3>1. PICK bit \in Nat : bit = Bit(i)
      BY <1>2
    <3>2. [o \in Nat |-> o + bit] \in [Nat -> Nat]
      OBVIOUS
    <3> QED BY <3>1, <3>2
  <2> QED BY <2>1
<1>4. PICK f \in [0 .. W -> Nat] : f[0] = 0 /\ \A i \in 1 .. W : f[i] = step[i][f[i - 1]]
  <2> HIDE DEF step
  <2>1. 0 \in Nat
    OBVIOUS
  <2>2. PICK f : Rounds(W, Nat, 0, step, f)
    BY <1>1, <1>3, <2>1, RoundsExist
  <2> QED BY <2>2 DEF Rounds
<1>5. \A i \in 1 .. W : f[i] = f[i - 1] + Bit(i)
  <2> SUFFICES ASSUME NEW i \in 1 .. W PROVE f[i] = f[i - 1] + Bit(i)
    OBVIOUS
  <2>1. f[i - 1] \in Nat
    <3>1. i - 1 \in 0 .. W
      BY <1>1
    <3> QED BY <3>1
  <2> HIDE DEF Bit
  <2> QED BY <1>4, <2>1
<1>6. Is(f)
  <2> HIDE DEF Bit
  <2>1. ASSUME NEW i \in 0 .. W PROVE f[i] = IF i = 0 THEN 0 ELSE f[i - 1] + Bit(i)
    <3>1. i = 0 \/ i \in 1 .. W
      BY <1>1
    <3> QED BY <3>1, <1>4, <1>5
  <2> QED BY <2>1
<1>7. Is(or)
  <2> HIDE DEF Is
  <2> QED BY <1>6
<1>8. or[0] = 0 /\ \A i \in 1 .. W : or[i] = or[i - 1] + Bit(i)
  <2> HIDE DEF Bit, or
  <2>1. ASSUME NEW i \in 0 .. W PROVE or[i] = IF i = 0 THEN 0 ELSE or[i - 1] + Bit(i)
    BY <1>7
  <2>2. 0 \in 0 .. W /\ \A i \in 1 .. W : i \in 0 .. W /\ i # 0
    BY <1>1
  <2> QED BY <2>1, <2>2
<1>9. or \in [0 .. W -> Nat]
  <2> DEFINE G == {i \in 0 .. W : or[i] \in Nat}
  <2> HIDE DEF or, Bit
  <2>1. 0 \in G
    BY <1>1, <1>8
  <2>2. \A k \in 0 .. W - 1 : k \in G => k + 1 \in G
    <3> SUFFICES ASSUME NEW k \in 0 .. W - 1, k \in G PROVE k + 1 \in G
      OBVIOUS
    <3>1. k + 1 \in 1 .. W /\ (k + 1) - 1 = k
      BY <1>1
    <3>2. or[k + 1] = or[k] + Bit(k + 1) /\ Bit(k + 1) \in Nat
      BY <3>1, <1>2, <1>8
    <3> QED BY <3>1, <3>2
  <2>3. \A k \in 0 .. W : k \in G
    <3> HIDE DEF G
    <3> QED BY <1>1, <2>1, <2>2, EveryRound
  <2>4. or = [i \in 0 .. W |-> or[i]]
    BY <1>7
  <2> QED BY <2>3, <2>4
<1>10. or[W] = BitOr(v, w)
  BY DEF BitOr
<1> HIDE DEF or
<1> QED BY <1>8, <1>9, <1>10

LEMMA BitOrType ==
  ASSUME NEW v \in Nat, NEW w \in Nat
  PROVE  BitOr(v, w) \in 0 .. Word - 1
<1>1. PICK f \in [0 .. W -> Nat] :
           /\ f[0] = 0 /\ f[W] = BitOr(v, w)
           /\ \A i \in 1 .. W : f[i] = f[i - 1] + 2 ^ (i - 1) * Max({Shr(v, i - 1) % 2, Shr(w, i - 1) % 2})
  BY OrRounds
<1>2. W \in Nat
  BY Widths
<1> DEFINE G == {i \in 0 .. W : f[i] < 2 ^ i}
<1>3. 0 \in G
  BY <1>1, <1>2, PowerOfZero
<1>4. \A k \in 0 .. W - 1 : k \in G => k + 1 \in G
  <2> SUFFICES ASSUME NEW k \in 0 .. W - 1, k \in G PROVE k + 1 \in G
    OBVIOUS
  <2>1. k + 1 \in 1 .. W /\ (k + 1) - 1 = k /\ k \in Nat /\ k \in 0 .. W
    BY <1>2
  <2>2. PICK bit \in {0, 1} : bit = Max({Shr(v, k) % 2, Shr(w, k) % 2})
    BY <2>1, BitsOf, MaxOfBits
  <2>3. f[k + 1] = f[k] + 2 ^ k * bit
    BY <2>1, <2>2, <1>1
  <2>4. PICK c \in Nat : c = 2 ^ k /\ 2 ^ (k + 1) = 2 * c
    BY <2>1, PowerType, PowerDoubles
  <2>5. c * bit \in {0, c}
    OBVIOUS
  <2>6. f[k] \in Nat /\ f[k] < c
    BY <2>1, <2>4
  <2>7. f[k + 1] < 2 ^ (k + 1)
    BY <2>3, <2>4, <2>5, <2>6
  <2> QED BY <2>1, <2>7
<1>5. W \in G
  <2>1. \A k \in 0 .. W : k \in G
    <3> HIDE DEF G
    <3> QED BY <1>2, <1>3, <1>4, EveryRound
  <2>2. W \in 0 .. W
    BY <1>2
  <2> QED BY <2>1, <2>2
<1>6. f[W] \in Nat /\ f[W] < Word
  <2>1. W \in 0 .. W
    BY <1>2
  <2> QED BY <1>5, <2>1 DEF Word
<1> QED BY <1>1, <1>6, Halfs

-----------------------------------------------------------------------------
(***************************************************************************)
(* The rounds of sqrt.                                                     *)
(***************************************************************************)
RootStates == [ix0 : Int, ix1 : Int, s0 : Int, s1 : Int, q : Int, q1 : Int]

LEMMA WrapType ==
  ASSUME NEW v \in Int
  PROVE  Wrap(v) \in 0 .. Word - 1 /\ Wrap(v) \in Nat /\ Word \in Nat
<1>1. PICK w \in Nat : w = Word /\ w > 0
  BY Halfs
<1>2. v % w \in 0 .. (w - 1)
  BY <1>1, Divided
<1> QED BY <1>1, <1>2 DEF Wrap

LEMMA ShiftType ==
  ASSUME NEW v \in Int, NEW k \in Nat
  PROVE  Wrap(v) \in 0 .. Word - 1 /\ Shl(v, k) \in 0 .. Word - 1 /\ Shr(v, k) \in Int
<1>1. PICK w \in Nat : w = Word /\ w > 0
  BY Halfs
<1>2. PICK c \in Nat : c = 2 ^ k /\ c > 0
  BY PowerType
<1>3. v * c \in Int
  OBVIOUS
<1> QED BY <1>1, <1>2, <1>3, Divided DEF Wrap, Shl, Shr

LEMMA StepType ==
  ASSUME NEW s \in RootStates, NEW r \in Nat
  PROVE  /\ Doubled(s) \in RootStates
         /\ HighStep(s, r) \in RootStates /\ LowStep(s, r) \in RootStates
<1>1. W - 1 \in Nat
  BY Widths
<1>2. ASSUME NEW t \in RootStates PROVE Doubled(t) \in RootStates
  <2>1. t.ix0 \in Int /\ t.ix1 \in Int
    BY DEF RootStates
  <2>2. TopBit(t.ix1) \in Int /\ Shl(t.ix1, 1) \in Int
    <3>1. PICK one \in Nat : one = 1
      OBVIOUS
    <3>2. Shl(t.ix1, one) \in 0 .. Word - 1
      BY <2>1, ShiftType
    <3>3. Shr(t.ix1, W - 1) \in Int
      BY <2>1, <1>1, ShiftType
    <3> QED BY <3>1, <3>2, <3>3, Halfs DEF TopBit
  <2>3. 2 * t.ix0 + TopBit(t.ix1) \in Int
    BY <2>1, <2>2
  <2> QED BY <2>2, <2>3 DEF Doubled, RootStates
<1>3. s.ix0 \in Int /\ s.ix1 \in Int /\ s.s0 \in Int /\ s.s1 \in Int /\ s.q \in Int /\ s.q1 \in Int
  BY DEF RootStates
<1>4. HighStep(s, r) \in RootStates
  <2>1. ASSUME NEW k0 \in Int, NEW k1 \in Int, NEW k2 \in Int
        PROVE  [s EXCEPT !.s0 = k0, !.ix0 = k1, !.q = k2] \in RootStates
    BY DEF RootStates
  <2>2. (s.s0 + r) + r \in Int /\ s.ix0 - (s.s0 + r) \in Int /\ s.q + r \in Int
    BY <1>3
  <2>3. [s EXCEPT !.s0 = (s.s0 + r) + r, !.ix0 = s.ix0 - (s.s0 + r), !.q = s.q + r] \in RootStates
    BY <2>1, <2>2
  <2> QED BY <2>3, <1>2 DEF HighStep
<1>5. LowStep(s, r) \in RootStates
  <2>1. PICK t1 \in Int : t1 = Wrap(s.s1 + r)
    BY <1>3, WrapType
  <2>2. PICK s1 \in Int : s1 = Wrap(t1 + r)
    BY WrapType
  <2>3. PICK ix1 \in Int : ix1 = Wrap(s.ix1 - t1)
    BY <1>3, WrapType
  <2>4. ASSUME NEW borrow \in {0, 1}, NEW carry \in {0, 1}
        PROVE  [s EXCEPT !.s1 = s1, !.s0 = @ + carry, !.ix0 = @ - s.s0 - borrow,
                         !.ix1 = ix1, !.q1 = @ + r] \in RootStates
    <3>1. ASSUME NEW k0 \in Int, NEW k1 \in Int, NEW k2 \in Int
          PROVE  [s EXCEPT !.s1 = s1, !.s0 = k0, !.ix0 = k1, !.ix1 = ix1, !.q1 = k2] \in RootStates
      BY DEF RootStates
    <3>2. s.s0 + carry \in Int /\ (s.ix0 - s.s0) - borrow \in Int /\ s.q1 + r \in Int
      BY <1>3
    <3> QED BY <3>1, <3>2
  <2>5. LowStep(s, r) =
          Doubled(IF s.s0 > s.ix0 \/ (s.s0 = s.ix0 /\ t1 > s.ix1) THEN s
                  ELSE [s EXCEPT !.s1 = s1,
                                 !.s0 = @ + IF TopBit(t1) = 1 /\ TopBit(s1) = 0 THEN 1 ELSE 0,
                                 !.ix0 = @ - s.s0 - IF s.ix1 < t1 THEN 1 ELSE 0,
                                 !.ix1 = ix1, !.q1 = @ + r])
    BY <2>1, <2>2, <2>3 DEF LowStep
  <2>6. (IF TopBit(t1) = 1 /\ TopBit(s1) = 0 THEN 1 ELSE 0) \in {0, 1}
        /\ (IF s.ix1 < t1 THEN 1 ELSE 0) \in {0, 1}
    OBVIOUS
  <2>7. [s EXCEPT !.s1 = s1,
                  !.s0 = @ + IF TopBit(t1) = 1 /\ TopBit(s1) = 0 THEN 1 ELSE 0,
                  !.ix0 = @ - s.s0 - IF s.ix1 < t1 THEN 1 ELSE 0,
                  !.ix1 = ix1, !.q1 = @ + r] \in RootStates
    BY <2>4, <2>6
  <2> QED BY <2>5, <2>7, <1>2
<1> QED BY <1>2, <1>4, <1>5

(* The bits of the high word, and after them those of the low one.         *)
LEMMA RootRounds ==
  ASSUME NEW s \in RootStates
  PROVE  \E high \in [0 .. H + 2 -> RootStates], low \in [0 .. W -> RootStates] :
           /\ high[0] = s /\ \A j \in 1 .. H + 2 : high[j] = HighStep(high[j - 1], 2 ^ (H + 2 - j))
           /\ low[0] = high[H + 2] /\ \A j \in 1 .. W : low[j] = LowStep(low[j - 1], 2 ^ (W - j))
           /\ Roots(s) = low[W]
<1>1. W \in Nat /\ H + 2 \in Nat /\ H \in Nat
  BY Widths
<1>2. ASSUME NEW k \in Nat, NEW j \in 0 .. k PROVE 2 ^ (k - j) \in Nat
  <2>1. k - j \in Nat
    OBVIOUS
  <2> QED BY <2>1, PowerType
<1> DEFINE IsHigh(f) == f = [j \in 0 .. H + 2 |-> IF j = 0 THEN s ELSE HighStep(f[j - 1], 2 ^ (H + 2 - j))]
           stepHigh == [j \in 1 .. H + 2 |-> [t \in RootStates |-> HighStep(t, 2 ^ (H + 2 - j))]]
           high == CHOOSE f : IsHigh(f)
<1>3. stepHigh \in [1 .. H + 2 -> [RootStates -> RootStates]]
  <2>1. ASSUME NEW j \in 1 .. H + 2
        PROVE  [t \in RootStates |-> HighStep(t, 2 ^ (H + 2 - j))] \in [RootStates -> RootStates]
    <3>1. 2 ^ (H + 2 - j) \in Nat
      BY <1>1, <1>2
    <3> QED BY <3>1, StepType
  <2> QED BY <2>1
<1>4. PICK f : Rounds(H + 2, RootStates, s, stepHigh, f)
  <2> HIDE DEF stepHigh
  <2> QED BY <1>1, <1>3, RoundsExist
<1>5. IsHigh(f) /\ f \in [0 .. H + 2 -> RootStates]
  <2>1. f \in [0 .. H + 2 -> RootStates] /\ f[0] = s /\ \A j \in 1 .. H + 2 : f[j] = stepHigh[j][f[j - 1]]
    BY <1>4 DEF Rounds
  <2>2. ASSUME NEW j \in 0 .. H + 2 PROVE f[j] = IF j = 0 THEN s ELSE HighStep(f[j - 1], 2 ^ (H + 2 - j))
    <3>1. CASE j = 0
      BY <3>1, <2>1
    <3>2. CASE j \in 1 .. H + 2
      <4>1. j - 1 \in 0 .. H + 2
        BY <3>2, <1>1
      <4> QED BY <4>1, <3>2, <2>1
    <3> QED BY <3>1, <3>2, <1>1
  <2> QED BY <2>1, <2>2
<1>6. IsHigh(high)
  <2> HIDE DEF IsHigh
  <2> QED BY <1>5
<1> HIDE DEF high
<1>7. high[0] = s /\ \A j \in 1 .. H + 2 : high[j] = HighStep(high[j - 1], 2 ^ (H + 2 - j))
  <2>1. ASSUME NEW j \in 0 .. H + 2 PROVE high[j] = IF j = 0 THEN s ELSE HighStep(high[j - 1], 2 ^ (H + 2 - j))
    BY <1>6
  <2>2. 0 \in 0 .. H + 2 /\ \A j \in 1 .. H + 2 : j \in 0 .. H + 2 /\ j # 0
    BY <1>1
  <2> QED BY <2>1, <2>2
<1>8. high \in [0 .. H + 2 -> RootStates]
  <2> DEFINE G == {j \in 0 .. H + 2 : high[j] \in RootStates}
  <2>1. 0 \in G
    BY <1>1, <1>7
  <2>2. \A k \in 0 .. (H + 2) - 1 : k \in G => k + 1 \in G
    <3> SUFFICES ASSUME NEW k \in 0 .. (H + 2) - 1, k \in G PROVE k + 1 \in G
      OBVIOUS
    <3>1. k + 1 \in 1 .. H + 2 /\ (k + 1) - 1 = k /\ k + 1 \in 0 .. H + 2
      BY <1>1
    <3>2. 2 ^ (H + 2 - (k + 1)) \in Nat
      BY <3>1, <1>1, <1>2
    <3>3. high[k + 1] = HighStep(high[k], 2 ^ (H + 2 - (k + 1)))
      BY <3>1, <1>7
    <3> QED BY <3>1, <3>2, <3>3, StepType
  <2>3. \A k \in 0 .. H + 2 : k \in G
    <3> HIDE DEF G
    <3> QED BY <1>1, <2>1, <2>2, EveryRound
  <2>4. high = [j \in 0 .. H + 2 |-> high[j]]
    BY <1>6
  <2> QED BY <2>3, <2>4
<1> DEFINE IsLow(g) == g = [j \in 0 .. W |-> IF j = 0 THEN high[H + 2] ELSE LowStep(g[j - 1], 2 ^ (W - j))]
           stepLow == [j \in 1 .. W |-> [t \in RootStates |-> LowStep(t, 2 ^ (W - j))]]
           low == CHOOSE g : IsLow(g)
<1>9. PICK t \in RootStates : t = high[H + 2]
  <2>1. H + 2 \in 0 .. H + 2
    BY <1>1
  <2> QED BY <2>1, <1>8
<1>10. stepLow \in [1 .. W -> [RootStates -> RootStates]]
  <2>1. ASSUME NEW j \in 1 .. W
        PROVE  [u \in RootStates |-> LowStep(u, 2 ^ (W - j))] \in [RootStates -> RootStates]
    <3>1. 2 ^ (W - j) \in Nat
      BY <1>1, <1>2
    <3> QED BY <3>1, StepType
  <2> QED BY <2>1
<1>11. PICK g : Rounds(W, RootStates, t, stepLow, g)
  <2> HIDE DEF stepLow
  <2> QED BY <1>1, <1>10, RoundsExist
<1>12. IsLow(g)
  <2>1. g \in [0 .. W -> RootStates] /\ g[0] = t /\ \A j \in 1 .. W : g[j] = stepLow[j][g[j - 1]]
    BY <1>11 DEF Rounds
  <2>2. ASSUME NEW j \in 0 .. W PROVE g[j] = IF j = 0 THEN t ELSE LowStep(g[j - 1], 2 ^ (W - j))
    <3>1. CASE j = 0
      BY <3>1, <2>1
    <3>2. CASE j \in 1 .. W
      <4>1. j - 1 \in 0 .. W
        BY <3>2, <1>1
      <4> QED BY <4>1, <3>2, <2>1
    <3> QED BY <3>1, <3>2, <1>1
  <2> QED BY <2>1, <2>2, <1>9
<1>13. IsLow(low)
  <2> HIDE DEF IsLow
  <2> QED BY <1>12
<1>14. Roots(s) = low[W]
  BY DEF Roots, high
<1> HIDE DEF low
<1>15. low[0] = t /\ \A j \in 1 .. W : low[j] = LowStep(low[j - 1], 2 ^ (W - j))
  <2>1. ASSUME NEW j \in 0 .. W PROVE low[j] = IF j = 0 THEN t ELSE LowStep(low[j - 1], 2 ^ (W - j))
    BY <1>9, <1>13
  <2>2. 0 \in 0 .. W /\ \A j \in 1 .. W : j \in 0 .. W /\ j # 0
    BY <1>1
  <2> QED BY <2>1, <2>2
<1>16. low \in [0 .. W -> RootStates]
  <2> DEFINE G == {j \in 0 .. W : low[j] \in RootStates}
  <2>1. 0 \in G
    BY <1>1, <1>15
  <2>2. \A k \in 0 .. W - 1 : k \in G => k + 1 \in G
    <3> SUFFICES ASSUME NEW k \in 0 .. W - 1, k \in G PROVE k + 1 \in G
      OBVIOUS
    <3>1. k + 1 \in 1 .. W /\ (k + 1) - 1 = k /\ k + 1 \in 0 .. W
      BY <1>1
    <3>2. 2 ^ (W - (k + 1)) \in Nat
      BY <3>1, <1>1, <1>2
    <3>3. low[k + 1] = LowStep(low[k], 2 ^ (W - (k + 1)))
      BY <3>1, <1>15
    <3> QED BY <3>1, <3>2, <3>3, StepType
  <2>3. \A k \in 0 .. W : k \in G
    <3> HIDE DEF G
    <3> QED BY <1>1, <2>1, <2>2, EveryRound
  <2>4. low = [j \in 0 .. W |-> low[j]]
    BY <1>13
  <2> QED BY <2>3, <2>4
<1> QED BY <1>7, <1>8, <1>9, <1>14, <1>15, <1>16

(* The bits below a multiple's are zero, and those above a number's.       *)
LEMMA NoBitsBelow ==
  ASSUME NEW c \in Nat, NEW k \in Nat, NEW i \in 0 .. k - 1
  PROVE  Shr(c * 2 ^ k, i) % 2 = 0
<1>1. i \in Nat /\ i + 1 \in 0 .. k /\ k - (i + 1) \in Nat
  OBVIOUS
<1>2. PICK d \in Nat : d = 2 ^ i /\ d > 0 /\ 2 ^ (i + 1) = 2 * d
  BY <1>1, PowerType, PowerDoubles
<1>3. PICK r \in Nat : r = 2 ^ (k - (i + 1)) /\ 2 ^ k = (2 * d) * r
  <2>1. 2 ^ k = 2 ^ (i + 1) * 2 ^ (k - (i + 1))
    BY <1>1, PowerSplits
  <2>2. 2 ^ (k - (i + 1)) \in Nat
    BY <1>1, PowerType
  <2> QED BY <2>1, <2>2, <1>2
<1>4. PICK o \in Int : o = c * r
  OBVIOUS
<1>5. c * ((2 * d) * r) = ((c * r) * 2) * d
  OBVIOUS
<1>6. c * 2 ^ k = (o * 2) * d
  BY <1>3, <1>4, <1>5
<1>7. ((o * 2) * d) \div d = o * 2
  <2>1. o * 2 \in Int
    OBVIOUS
  <2> QED BY <2>1, <1>2, Multiple
<1>8. (o * 2) % 2 = 0
  OBVIOUS
<1> QED BY <1>2, <1>6, <1>7, <1>8 DEF Shr

LEMMA NoBitsAbove ==
  ASSUME NEW v \in Nat, NEW k \in Nat, v < 2 ^ k, NEW i \in Nat, k <= i
  PROVE  Shr(v, i) % 2 = 0 /\ v % 2 ^ i = v
<1>1. k \in 0 .. i
  OBVIOUS
<1>2. PICK c \in Nat : c = 2 ^ i /\ c > 0 /\ 2 ^ k <= c /\ 2 ^ k \in Nat
  BY <1>1, PowerType, PowerSplits
<1>3. v \in 0 .. (c - 1) /\ c > 0
  BY <1>2
<1>4. v \div c = 0 /\ v % c = v
  BY <1>3, DividedSmall
<1>5. 0 % 2 = 0
  OBVIOUS
<1> QED BY <1>2, <1>4, <1>5 DEF Shr

(* The or of two words of which one ends where the other begins. *)
LEMMA OrDisjoint ==
  ASSUME NEW v \in Nat, NEW c \in Nat, NEW k \in 0 .. W, v < 2 ^ k, c * 2 ^ k < Word
  PROVE  BitOr(v, c * 2 ^ k) = v + c * 2 ^ k /\ BitOr(c * 2 ^ k, v) = v + c * 2 ^ k
<1>1. W \in Nat /\ k \in Nat /\ k <= W
  BY Widths
<1>2. PICK w \in Nat : w = c * 2 ^ k
  BY <1>1, PowerType
<1>3. ASSUME NEW i \in 0 .. W - 1
      PROVE  /\ Shr(v, i) % 2 = 0 \/ Shr(w, i) % 2 = 0
             /\ Max({Shr(v, i) % 2, Shr(w, i) % 2}) = (Shr(v, i) % 2) + (Shr(w, i) % 2)
             /\ Max({Shr(w, i) % 2, Shr(v, i) % 2}) = (Shr(v, i) % 2) + (Shr(w, i) % 2)
  <2>1. Shr(v, i) % 2 = 0 \/ Shr(w, i) % 2 = 0
    <3>1. i \in Nat
      BY <1>1
    <3>2. CASE i < k
      <4>1. i \in 0 .. k - 1
        BY <3>1, <3>2, <1>1
      <4> QED BY <4>1, <1>1, <1>2, NoBitsBelow
    <3>3. CASE k <= i
      BY <3>1, <3>3, <1>1, NoBitsAbove
    <3> QED BY <3>1, <3>2, <3>3, <1>1
  <2>2. i \in Nat
    BY <1>1
  <2>3. Shr(v, i) % 2 \in {0, 1} /\ Shr(w, i) % 2 \in {0, 1}
    BY <2>2, BitsOf
  <2>4. PICK o \in {0, 1}, q \in {0, 1} : o = Shr(v, i) % 2 /\ q = Shr(w, i) % 2
    BY <2>3
  <2>5. (o = 0 => Max({o, q}) = q /\ Max({q, o}) = q) /\ (q = 0 => Max({o, q}) = o /\ Max({q, o}) = o)
    BY MaxOfBits
  <2> QED BY <2>1, <2>4, <2>5
<1>4. ASSUME NEW f \in [0 .. W -> Nat], f[0] = 0,
             \A i \in 1 .. W : f[i] = f[i - 1] + 2 ^ (i - 1) * ((Shr(v, i - 1) % 2) + (Shr(w, i - 1) % 2))
      PROVE  f[W] = v + w
  <2> DEFINE G == {i \in 0 .. W : f[i] = (v % 2 ^ i) + (w % 2 ^ i)}
  <2>1. 0 \in G
    <3>1. v % 1 = 0 /\ w % 1 = 0
      OBVIOUS
    <3> QED BY <3>1, <1>1, <1>4, PowerOfZero
  <2>2. \A i \in 0 .. W - 1 : i \in G => i + 1 \in G
    <3> SUFFICES ASSUME NEW i \in 0 .. W - 1, i \in G PROVE i + 1 \in G
      OBVIOUS
    <3>1. i \in Nat /\ i + 1 \in 1 .. W /\ (i + 1) - 1 = i /\ i + 1 \in 0 .. W
      BY <1>1
    <3>2. PICK d \in Nat, o \in {0, 1}, q \in {0, 1}, r \in Nat, t \in Nat :
            /\ d = 2 ^ i /\ o = Shr(v, i) % 2 /\ q = Shr(w, i) % 2 /\ r = v % 2 ^ i /\ t = w % 2 ^ i
            /\ v % 2 ^ (i + 1) = r + d * o /\ w % 2 ^ (i + 1) = t + d * q
      <4>1. /\ Shr(v, i) % 2 \in {0, 1} /\ v % 2 ^ i \in Nat /\ 2 ^ i \in Nat
            /\ v % 2 ^ (i + 1) = (v % 2 ^ i) + 2 ^ i * (Shr(v, i) % 2)
        BY <3>1, BitsOf
      <4>2. /\ Shr(w, i) % 2 \in {0, 1} /\ w % 2 ^ i \in Nat
            /\ w % 2 ^ (i + 1) = (w % 2 ^ i) + 2 ^ i * (Shr(w, i) % 2)
        BY <3>1, BitsOf
      <4> QED BY <4>1, <4>2
    <3>3. f[i + 1] = f[i] + d * (o + q)
      BY <3>1, <3>2, <1>4
    <3>4. f[i] = r + t
      BY <3>2
    <3>5. (r + t) + d * (o + q) = (r + d * o) + (t + d * q)
      OBVIOUS
    <3> QED BY <3>1, <3>2, <3>3, <3>4, <3>5
  <2>3. W \in G
    <3>1. \A i \in 0 .. W : i \in G
      <4> HIDE DEF G
      <4> QED BY <1>1, <2>1, <2>2, EveryRound
    <3>2. W \in 0 .. W
      BY <1>1
    <3> QED BY <3>1, <3>2
  <2>4. v % 2 ^ W = v
    BY <1>1, NoBitsAbove
  <2>5. w % 2 ^ W = w
    <3>1. w < 2 ^ W
      BY <1>2 DEF Word
    <3> QED BY <3>1, <1>1, NoBitsAbove
  <2> QED BY <2>3, <2>4, <2>5
<1>5. BitOr(v, w) = v + w
  <2>1. PICK f \in [0 .. W -> Nat] :
           /\ f[0] = 0 /\ f[W] = BitOr(v, w)
           /\ \A i \in 1 .. W : f[i] = f[i - 1] + 2 ^ (i - 1) * Max({Shr(v, i - 1) % 2, Shr(w, i - 1) % 2})
    BY OrRounds
  <2>2. ASSUME NEW i \in 1 .. W
        PROVE  f[i] = f[i - 1] + 2 ^ (i - 1) * ((Shr(v, i - 1) % 2) + (Shr(w, i - 1) % 2))
    <3>1. i - 1 \in 0 .. W - 1
      BY <1>1
    <3>2. Max({Shr(v, i - 1) % 2, Shr(w, i - 1) % 2}) = (Shr(v, i - 1) % 2) + (Shr(w, i - 1) % 2)
      BY <3>1, <1>3
    <3> QED BY <3>2, <2>1
  <2> QED BY <2>1, <2>2, <1>4
<1>6. BitOr(w, v) = v + w
  <2>1. PICK f \in [0 .. W -> Nat] :
           /\ f[0] = 0 /\ f[W] = BitOr(w, v)
           /\ \A i \in 1 .. W : f[i] = f[i - 1] + 2 ^ (i - 1) * Max({Shr(w, i - 1) % 2, Shr(v, i - 1) % 2})
    BY OrRounds
  <2>2. ASSUME NEW i \in 1 .. W
        PROVE  f[i] = f[i - 1] + 2 ^ (i - 1) * ((Shr(v, i - 1) % 2) + (Shr(w, i - 1) % 2))
    <3>1. i - 1 \in 0 .. W - 1
      BY <1>1
    <3>2. Max({Shr(w, i - 1) % 2, Shr(v, i - 1) % 2}) = (Shr(v, i - 1) % 2) + (Shr(w, i - 1) % 2)
      BY <3>1, <1>3
    <3> QED BY <3>2, <2>1
  <2> QED BY <2>1, <2>2, <1>4
<1> QED BY <1>2, <1>5, <1>6

(* The or with a multiple keeps the bits below it. *)
LEMMA OrKeepsLow ==
  ASSUME NEW v \in Nat, NEW c \in Nat, NEW k \in 0 .. W
  PROVE  BitOr(v, c * 2 ^ k) % 2 ^ k = v % 2 ^ k
<1>1. W \in Nat /\ k \in Nat /\ k <= W
  BY Widths
<1>2. PICK w \in Nat, p \in Nat : w = c * 2 ^ k /\ p = 2 ^ k /\ p > 0
  BY <1>1, PowerType
<1>3. PICK f \in [0 .. W -> Nat] :
         /\ f[0] = 0 /\ f[W] = BitOr(v, w)
         /\ \A i \in 1 .. W : f[i] = f[i - 1] + 2 ^ (i - 1) * Max({Shr(v, i - 1) % 2, Shr(w, i - 1) % 2})
  BY OrRounds
<1> DEFINE L == {i \in 0 .. k : f[i] = v % 2 ^ i}
<1>4. \A i \in 0 .. k : i \in L
  <2>1. 0 \in L
    <3>1. v % 1 = 0
      OBVIOUS
    <3> QED BY <3>1, <1>1, <1>3, PowerOfZero
  <2>2. \A i \in 0 .. k - 1 : i \in L => i + 1 \in L
    <3> SUFFICES ASSUME NEW i \in 0 .. k - 1, i \in L PROVE i + 1 \in L
      OBVIOUS
    <3>1. i \in Nat /\ i + 1 \in 1 .. W /\ (i + 1) - 1 = i /\ i + 1 \in 0 .. k
      BY <1>1
    <3>2. PICK o \in {0, 1} : o = Shr(v, i) % 2 /\ v % 2 ^ (i + 1) = (v % 2 ^ i) + 2 ^ i * o
      <4>1. /\ Shr(v, i) % 2 \in {0, 1}
            /\ v % 2 ^ (i + 1) = (v % 2 ^ i) + 2 ^ i * (Shr(v, i) % 2)
        BY <3>1, BitsOf
      <4> QED BY <4>1
    <3>3. Shr(w, i) % 2 = 0
      BY <1>1, <1>2, NoBitsBelow
    <3>4. Max({Shr(v, i) % 2, Shr(w, i) % 2}) = o
      <4>1. 0 \in {0, 1} /\ Max({o, 0}) = o
        BY MaxOfBits
      <4> QED BY <4>1, <3>2, <3>3
    <3>5. f[i + 1] = f[i] + 2 ^ i * o
      BY <3>1, <3>4, <1>3
    <3> QED BY <3>1, <3>2, <3>5
  <2> HIDE DEF L
  <2> QED BY <1>1, <2>1, <2>2, EveryRound
<1>5. f[k] = v % p
  <2>1. k \in 0 .. k
    BY <1>1
  <2> QED BY <2>1, <1>2, <1>4
<1> DEFINE M == {i \in 0 .. W - k : f[k + i] % p = v % p}
<1>6. \A i \in 0 .. W - k : i \in M
  <2>1. 0 \in M
    <3>1. v % p \in 0 .. p - 1
      BY <1>2, Divided
    <3>2. (v % p) % p = v % p
      BY <3>1, <1>2, DividedSmall
    <3>3. k + 0 = k /\ 0 \in 0 .. W - k
      BY <1>1
    <3> QED BY <3>2, <3>3, <1>5
  <2>2. \A i \in 0 .. (W - k) - 1 : i \in M => i + 1 \in M
    <3> SUFFICES ASSUME NEW i \in 0 .. (W - k) - 1, i \in M PROVE i + 1 \in M
      OBVIOUS
    <3>1. k + i \in Nat /\ k + (i + 1) \in 1 .. W /\ (k + (i + 1)) - 1 = k + i /\ i + 1 \in 0 .. W - k
          /\ i \in Nat /\ k + i \in 0 .. W
      BY <1>1
    <3>2. PICK bit \in {0, 1} : bit = Max({Shr(v, k + i) % 2, Shr(w, k + i) % 2})
      BY <3>1, BitsOf, MaxOfBits
    <3>3. f[k + (i + 1)] = f[k + i] + 2 ^ (k + i) * bit
      BY <3>1, <3>2, <1>3
    <3>4. PICK d \in Nat : d = 2 ^ i /\ 2 ^ (k + i) = p * d
      BY <3>1, <1>1, <1>2, PowerOfSum, PowerType
    <3>5. PICK o \in Int : o = d * bit
      OBVIOUS
    <3>6. PICK u \in Nat : u = f[k + i]
      BY <3>1
    <3>7. (p * d) * bit = (d * bit) * p
      OBVIOUS
    <3>8. f[k + (i + 1)] = o * p + u
      <4>1. f[k + (i + 1)] = u + (p * d) * bit
        BY <3>3, <3>4, <3>6
      <4>2. u + o * p = o * p + u
        OBVIOUS
      <4> QED BY <4>1, <4>2, <3>5, <3>7
    <3>9. (o * p + u) % p = u % p
      BY <1>2, DividedMore
    <3> QED BY <3>1, <3>6, <3>8, <3>9
  <2>3. W - k \in Nat
    BY <1>1
  <2> HIDE DEF M
  <2> QED BY <2>1, <2>2, <2>3, EveryRound
<1>7. f[W] % p = v % p
  <2>1. W - k \in 0 .. W - k /\ k + (W - k) = W
    BY <1>1
  <2> QED BY <2>1, <1>6
<1> QED BY <1>2, <1>3, <1>7

(* A number with nothing in its high word is shifted by what fits there    *)
(* until something is.                                                     *)
LiftStates == [ix0 : Int, ix1 : Int, m : Int]

LEMMA LiftRounds ==
  ASSUME NEW s \in LiftStates
  PROVE  \E f \in [0 .. W -> LiftStates] :
           /\ f[0] = s /\ f[W] = LiftedHigh(s)
           /\ \A j \in 1 .. W : f[j] = LiftWord(f[j - 1])
<1> DEFINE Is(f) == f = [j \in 0 .. W |-> IF j = 0 THEN s ELSE LiftWord(f[j - 1])]
           step == [j \in 1 .. W |-> [t \in LiftStates |-> LiftWord(t)]]
           lifted == CHOOSE f : Is(f)
<1>1. W \in Nat
  BY Widths
<1>2. \A t \in LiftStates : LiftWord(t) \in LiftStates
  <2> SUFFICES ASSUME NEW t \in LiftStates PROVE LiftWord(t) \in LiftStates
    OBVIOUS
  <2>1. t.ix1 \in Int /\ t.m \in Int
    BY DEF LiftStates
  <2>2. PICK k \in Nat : k = H + 1
    BY Widths
  <2>3. Shr(t.ix1, E) \in Int /\ Shl(t.ix1, k) \in Int
    <3>1. E \in Nat /\ Word \in Nat
      BY Widths, Halfs
    <3>2. Shr(t.ix1, E) \in Int
      BY <3>1, <2>1, ShiftType
    <3>3. Shl(t.ix1, k) \in 0 .. Word - 1
      BY <2>1, ShiftType
    <3> QED BY <3>1, <3>2, <3>3
  <2>4. t.m - k \in Int
    BY <2>1
  <2> QED BY <2>2, <2>3, <2>4 DEF LiftWord, LiftStates
<1>3. step \in [1 .. W -> [LiftStates -> LiftStates]]
  BY <1>2
<1>4. PICK f : Rounds(W, LiftStates, s, step, f)
  <2> HIDE DEF step
  <2> QED BY <1>1, <1>3, RoundsExist
<1>5. f \in [0 .. W -> LiftStates] /\ f[0] = s /\ \A j \in 1 .. W : f[j] = step[j][f[j - 1]]
  BY <1>4 DEF Rounds
<1>6. Is(f)
  <2>1. ASSUME NEW j \in 0 .. W PROVE f[j] = IF j = 0 THEN s ELSE LiftWord(f[j - 1])
    <3>1. CASE j = 0
      BY <3>1, <1>5
    <3>2. CASE j \in 1 .. W
      <4>1. j - 1 \in 0 .. W
        BY <3>2, <1>1
      <4> QED BY <4>1, <3>2, <1>5
    <3> QED BY <3>1, <3>2, <1>1
  <2> QED BY <2>1, <1>5
<1>7. Is(lifted)
  <2> HIDE DEF Is
  <2> QED BY <1>6
<1>8. lifted[W] = LiftedHigh(s)
  BY DEF LiftedHigh
<1> HIDE DEF lifted
<1>9. lifted[0] = s /\ \A j \in 1 .. W : lifted[j] = LiftWord(lifted[j - 1])
  <2>1. ASSUME NEW j \in 0 .. W PROVE lifted[j] = IF j = 0 THEN s ELSE LiftWord(lifted[j - 1])
    BY <1>7
  <2>2. 0 \in 0 .. W /\ \A j \in 1 .. W : j \in 0 .. W /\ j # 0
    BY <1>1
  <2> QED BY <2>1, <2>2
<1>10. lifted \in [0 .. W -> LiftStates]
  <2> DEFINE G == {j \in 0 .. W : lifted[j] \in LiftStates}
  <2>1. 0 \in G
    BY <1>1, <1>9
  <2>2. \A k \in 0 .. W - 1 : k \in G => k + 1 \in G
    <3> SUFFICES ASSUME NEW k \in 0 .. W - 1, k \in G PROVE k + 1 \in G
      OBVIOUS
    <3>1. k + 1 \in 1 .. W /\ (k + 1) - 1 = k /\ k + 1 \in 0 .. W
      BY <1>1
    <3>2. lifted[k + 1] = LiftWord(lifted[k])
      BY <3>1, <1>9
    <3> QED BY <3>1, <3>2, <1>2
  <2>3. \A k \in 0 .. W : k \in G
    <3> HIDE DEF G
    <3> QED BY <1>1, <2>1, <2>2, EveryRound
  <2>4. lifted = [j \in 0 .. W |-> lifted[j]]
    BY <1>7
  <2> QED BY <2>3, <2>4
<1> QED BY <1>8, <1>9, <1>10

(* One round, on a state with nothing in the high word. *)
LEMMA LiftOnce ==
  ASSUME NEW s \in LiftStates, s.ix0 = 0, s.ix1 \in 0 .. Word - 1
  PROVE  LET t == LiftWord(s)
         IN  /\ t.m = s.m - (H + 1)
             /\ t.ix0 \in Nat /\ t.ix0 < 2 * 2 ^ H /\ t.ix1 \in 0 .. Word - 1
             /\ t.ix0 * Word + t.ix1 = s.ix1 * 2 ^ (H + 1)
             /\ \E k \in Nat : t.ix1 = k * 2 ^ (H + 1)
<1>1. E \in Nat /\ H \in Nat /\ H + 1 \in Nat /\ W = E + (H + 1) /\ W \in Nat
  BY Widths
<1>2. PICK w \in Nat, c \in Nat, d \in Nat :
        w = Word /\ w > 0 /\ c = 2 ^ E /\ c > 0 /\ d = 2 ^ (H + 1) /\ d > 0 /\ w = c * d /\ d = 2 * 2 ^ H
  <2>1. 2 ^ (E + (H + 1)) = 2 ^ E * 2 ^ (H + 1)
    BY <1>1, PowerOfSum
  <2>2. 2 ^ E \in Nat /\ 2 ^ E > 0 /\ 2 ^ (H + 1) \in Nat /\ 2 ^ (H + 1) > 0 /\ 2 ^ (H + 1) = 2 * 2 ^ H
    BY <1>1, PowerType, PowerDoubles
  <2>3. Word \in Nat /\ Word > 0 /\ Word = 2 ^ W
    BY WordIs
  <2> QED BY <2>1, <2>2, <2>3, <1>1
<1>3. PICK v \in Nat : v = s.ix1 /\ v < w
  BY <1>2
<1>c. c > 0 /\ d > 0
  BY <1>2
<1>4. PICK q \in Nat, r \in Nat : q = v \div c /\ r = v % c /\ v = q * c + r /\ r < c
  BY <1>c, Divided
<1>5. LiftWord(s) = [ix0 |-> q, ix1 |-> r * d, m |-> s.m - (H + 1)]
  <2>1. Shr(v, E) = q
    BY <1>2, <1>4 DEF Shr
  <2>2. (v * d) % (c * d) = (v % c) * d
    BY <1>c, DividedScaled
  <2>4. (v * d) % w = r * d
    BY <2>2, <1>2, <1>4
  <2>3. Shl(v, H + 1) = r * d
    BY <2>4, <1>2 DEF Shl, Wrap
  <2> QED BY <2>1, <2>3, <1>3 DEF LiftWord
<1>6. q < d
  <2>1. v < d * c
    BY <1>2, <1>3
  <2>2. v \div c < d
    BY <2>1, <1>2, QuotientBelow
  <2> QED BY <2>2, <1>4
<1>7. r * d + d =< c * d /\ r * d \in Nat /\ c * d \in Nat
  BY <1>4, FactorsOrdered
<1>8. r * d \in 0 .. w - 1
  BY <1>2, <1>7
<1>9. q * w + r * d = v * d
  <2>1. q * (c * d) + r * d = (q * c + r) * d
    OBVIOUS
  <2> QED BY <2>1, <1>2, <1>4
<1>10. \E k \in Nat : r * d = k * 2 ^ (H + 1)
  BY <1>2
<1> QED BY <1>2, <1>3, <1>5, <1>6, <1>8, <1>9, <1>10

LEMMA LiftedHighIs ==
  ASSUME NEW hi \in Nat, hi < 2 ^ H, NEW lo \in 0 .. Word - 1, hi # 0 \/ lo # 0
  PROVE  LET t == LiftedHigh([ix0 |-> hi, ix1 |-> lo, m |-> 0])
         IN  \E c \in Nat :
               /\ t \in LiftStates /\ t.m = -((H + 1) * c)
               /\ t.ix0 \in Nat /\ t.ix0 > 0 /\ t.ix0 < 2 * 2 ^ H /\ t.ix1 \in 0 .. Word - 1
               /\ t.ix0 * Word + t.ix1 = (hi * Word + lo) * 2 ^ ((H + 1) * c)
               /\ t.ix0 < 2 ^ H \/ \E k \in Nat : t.ix1 = k * 2 ^ (H + 1)
<1>1. H \in Nat /\ H + 1 \in Nat /\ W \in Nat
  BY Widths
<1>2. PICK w \in Nat, l \in Nat : w = Word /\ w > 0 /\ l = H + 1 /\ l >= 1
  BY Halfs, <1>1
<1>3. PICK g \in Nat : g = 2 ^ H /\ g > 0
  BY <1>1, PowerType
<1>4. PICK B \in Nat : B = hi * w + lo
  BY <1>2
<1> DEFINE s == [ix0 |-> hi, ix1 |-> lo, m |-> 0]
<1>5. s \in LiftStates
  BY <1>2 DEF LiftStates
<1>6. PICK f \in [0 .. W -> LiftStates] :
           /\ f[0] = s /\ f[W] = LiftedHigh(s)
           /\ \A j \in 1 .. W : f[j] = LiftWord(f[j - 1])
  <2> HIDE DEF s
  <2> QED BY <1>5, LiftRounds
<1> DEFINE Shifted(t, c) ==
             /\ t.m = -(l * c) /\ t.ix0 \in Nat /\ t.ix0 < 2 * g /\ t.ix1 \in 0 .. w - 1
             /\ t.ix0 * w + t.ix1 = B * 2 ^ (l * c)
             /\ t.ix0 < g \/ \E k \in Nat : t.ix1 = k * 2 ^ l
           G == {j \in 0 .. W : \E c \in 0 .. j : Shifted(f[j], c) /\ (f[j].ix0 = 0 => c = j)}
<1>7. 0 \in G
  <2>1. Shifted(s, 0)
    <3>1. l * 0 = 0 /\ -(l * 0) = 0 /\ hi * w + lo = B * 1
      BY <1>4
    <3>2. hi < 2 * g /\ hi < g
      BY <1>3
    <3>3. hi * w + lo = B * 2 ^ (l * 0)
      BY <3>1, PowerOfZero
    <3> QED BY <3>1, <3>2, <3>3, <1>2
  <2>2. 0 \in 0 .. 0 /\ 0 \in 0 .. W
    BY <1>1
  <2> HIDE DEF Shifted, s
  <2> QED BY <2>1, <2>2, <1>6
<1>8. \A j \in 0 .. W - 1 : j \in G => j + 1 \in G
  <2> SUFFICES ASSUME NEW j \in 0 .. W - 1, j \in G PROVE j + 1 \in G
    OBVIOUS
  <2>1. PICK c \in 0 .. j : Shifted(f[j], c) /\ (f[j].ix0 = 0 => c = j)
    OBVIOUS
  <2>2. j + 1 \in 1 .. W /\ (j + 1) - 1 = j /\ j \in 0 .. W /\ j \in Nat /\ j + 1 \in 0 .. W
    BY <1>1
  <2>3. f[j + 1] = LiftWord(f[j]) /\ f[j] \in LiftStates
    BY <2>2, <1>6
  <2>4. CASE f[j].ix0 # 0
    <3>1. f[j + 1] = f[j]
      BY <2>3, <2>4 DEF LiftWord
    <3>2. c \in 0 .. j + 1
      BY <2>2
    <3> HIDE DEF Shifted
    <3> QED BY <2>1, <2>2, <2>4, <3>1, <3>2
  <2>5. CASE f[j].ix0 = 0
    <3>1. PICK t \in LiftStates : t = f[j] /\ t.ix0 = 0 /\ t.ix1 \in 0 .. Word - 1 /\ t.m = -(l * j)
                                  /\ t.ix1 = B * 2 ^ (l * j)
      <4>1. c = j
        BY <2>1, <2>5
      <4>2. f[j].ix1 \in Int
        BY <2>3 DEF LiftStates
      <4>3. 0 * w + f[j].ix1 = f[j].ix1
        BY <4>2
      <4> QED BY <2>1, <2>3, <2>5, <4>1, <4>3, <1>2
    <3>2. PICK u : u = LiftWord(t)
      OBVIOUS
    <3>3. /\ u.m = t.m - (H + 1)
          /\ u.ix0 \in Nat /\ u.ix0 < 2 * 2 ^ H /\ u.ix1 \in 0 .. Word - 1
          /\ u.ix0 * Word + u.ix1 = t.ix1 * 2 ^ (H + 1)
          /\ \E k \in Nat : u.ix1 = k * 2 ^ (H + 1)
      BY <3>1, <3>2, LiftOnce
    <3>4. u.m = -(l * (j + 1))
      <4>1. -(l * j) - l = -(l * (j + 1))
        OBVIOUS
      <4> QED BY <4>1, <3>1, <3>3, <1>2
    <3>5. u.ix0 * w + u.ix1 = B * 2 ^ (l * (j + 1))
      <4>1. l * j \in Nat /\ l * (j + 1) = l * j + l
        BY <2>2
      <4>2. PICK p \in Nat, r \in Nat : p = 2 ^ (l * j) /\ r = 2 ^ l /\ 2 ^ (l * j + l) = p * r
        BY <4>1, PowerType, PowerOfSum
      <4>3. (B * p) * r = B * (p * r)
        OBVIOUS
      <4> QED BY <4>1, <4>2, <4>3, <3>1, <3>3, <1>2
    <3>6. Shifted(u, j + 1)
      BY <3>3, <3>4, <3>5, <1>2, <1>3
    <3>7. j + 1 \in 0 .. j + 1
      BY <2>2
    <3> HIDE DEF Shifted
    <3> QED BY <2>2, <2>3, <3>1, <3>2, <3>6, <3>7
  <2> QED BY <2>4, <2>5
<1>9. W \in G
  <2>1. \A j \in 0 .. W : j \in G
    <3> HIDE DEF G
    <3> QED BY <1>1, <1>7, <1>8, EveryRound
  <2>2. W \in 0 .. W
    BY <1>1
  <2> HIDE DEF G
  <2> QED BY <2>1, <2>2
<1>10. PICK c \in 0 .. W : Shifted(f[W], c) /\ (f[W].ix0 = 0 => c = W)
  BY <1>9
<1>11. f[W].ix0 # 0
  <2> SUFFICES ASSUME f[W].ix0 = 0 PROVE FALSE
    OBVIOUS
  <2>1. f[W].ix1 = B * 2 ^ (l * W) /\ f[W].ix1 \in 0 .. w - 1
    <3>1. c = W
      BY <1>10
    <3>2. f[W].ix1 \in 0 .. w - 1 /\ 0 * w + f[W].ix1 = B * 2 ^ (l * W)
      BY <1>10, <3>1
    <3>3. PICK v \in Int : v = f[W].ix1
      BY <3>2
    <3>4. 0 * w + v = v
      OBVIOUS
    <3> QED BY <3>2, <3>3, <3>4
  <2>2. B >= 1
    <3>1. hi # 0 => 1 * w =< hi * w
      BY ProductGrows
    <3>2. hi * w \in Nat
      OBVIOUS
    <3> QED BY <3>1, <3>2, <1>2, <1>4
  <2>3. l * W \in Nat /\ W \in 0 .. l * W
    <3>1. 1 * W =< l * W /\ l * W \in Nat
      BY <1>1, <1>2, ProductGrows
    <3> QED BY <3>1, <1>1
  <2>4. PICK p \in Nat : p = 2 ^ (l * W) /\ w <= p
    <3>1. 2 ^ W <= 2 ^ (l * W) /\ 2 ^ (l * W) \in Nat
      BY <2>3, PowerSplits, PowerType
    <3> QED BY <3>1, <1>2 DEF Word
  <2>5. 1 * p =< B * p /\ B * p \in Nat
    BY <2>2, ProductGrows
  <2> QED BY <2>1, <2>4, <2>5
<1>12. PICK t \in LiftStates : t = f[W]
  <2>1. W \in 0 .. W
    BY <1>1
  <2> QED BY <2>1
<1>13. /\ t.m = -(l * c) /\ t.ix0 \in Nat /\ t.ix0 < 2 * g /\ t.ix1 \in 0 .. w - 1
       /\ t.ix0 * w + t.ix1 = B * 2 ^ (l * c)
       /\ t.ix0 < g \/ \E k \in Nat : t.ix1 = k * 2 ^ l
  BY <1>10, <1>12
<1>14. t.ix0 > 0
  BY <1>11, <1>12, <1>13
<1>15. c \in Nat
  BY <1>1
<1>16. t = LiftedHigh([ix0 |-> hi, ix1 |-> lo, m |-> 0])
  BY <1>6, <1>12
<1> QED BY <1>2, <1>3, <1>4, <1>13, <1>14, <1>15, <1>16

(* Two words shifted to the left together. *)
LEMMA ShiftedTogether ==
  ASSUME NEW hi \in Nat, NEW lo \in 0 .. Word - 1, NEW i \in 0 .. W, hi * 2 ^ i + 2 ^ i <= Word
  PROVE  LET top == BitOr(Shl(hi, i), Shr(lo, W - i))
         IN  /\ top \in Nat /\ hi * 2 ^ i <= top /\ top < hi * 2 ^ i + 2 ^ i
             /\ Shl(lo, i) \in 0 .. Word - 1
             /\ top * Word + Shl(lo, i) = (hi * Word + lo) * 2 ^ i
<1>1. W \in Nat /\ i \in Nat /\ W - i \in Nat /\ i \in 0 .. W
  BY Widths
<1>2. PICK p \in Nat, r \in Nat, w \in Nat :
        p = 2 ^ i /\ p > 0 /\ r = 2 ^ (W - i) /\ r > 0 /\ w = Word /\ w > 0 /\ w = p * r
  BY <1>1, PowerType, PowerSplits, WordIs
<1>3. PICK o \in Nat, l \in Nat : o = lo \div r /\ l = lo % r /\ lo = o * r + l /\ l < r
  <2>1. r > 0 /\ lo \in Int /\ lo >= 0
    BY <1>2
  <2> QED BY <2>1, Divided
<1>4. o < p
  <2>1. lo < p * r
    BY <1>2
  <2>2. r > 0
    BY <1>2
  <2>3. lo \div r < p
    BY <2>1, <2>2, QuotientBelow
  <2> QED BY <2>3, <1>3
<1>5. Shr(lo, W - i) = o
  BY <1>2, <1>3 DEF Shr
<1>6. PICK v \in Nat : v = hi * p /\ v + p <= w
  BY <1>2
<1>7. Shl(hi, i) = v
  <2>1. v \in 0 .. w - 1 /\ w > 0
    BY <1>2, <1>6
  <2>2. v % w = v
    BY <2>1, DividedSmall
  <2> QED BY <2>2, <1>2, <1>6 DEF Shl, Wrap
<1>8. BitOr(v, o) = v + o
  <2>1. o < 2 ^ i /\ hi * 2 ^ i < Word
    BY <1>2, <1>4, <1>6
  <2>2. BitOr(hi * 2 ^ i, o) = o + hi * 2 ^ i
    BY <2>1, <1>1, OrDisjoint
  <2> QED BY <2>2, <1>2, <1>6
<1>9. Shl(lo, i) = l * p
  <2>1. p > 0 /\ r > 0
    BY <1>2
  <2>2. (lo * p) % (r * p) = (lo % r) * p
    BY <2>1, DividedScaled
  <2>3. r * p = w
    BY <1>2
  <2>4. (lo * p) % w = l * p
    BY <2>2, <2>3, <1>3
  <2> QED BY <2>4, <1>2 DEF Shl, Wrap
<1>10. l * p \in 0 .. w - 1
  <2>1. l * p + p =< r * p /\ l * p \in Nat
    BY <1>3, FactorsOrdered
  <2> QED BY <2>1, <1>2
<1>11. (v + o) * w + l * p = (hi * w + lo) * p
  <2>1. (hi * p + o) * (p * r) + l * p = (hi * (p * r) + (o * r + l)) * p
    OBVIOUS
  <2> QED BY <2>1, <1>2, <1>3, <1>6
<1> QED BY <1>2, <1>4, <1>5, <1>6, <1>7, <1>8, <1>9, <1>10, <1>11

(* A subnormal number, lifted. *)
LEMMA LiftedSubnormal ==
  ASSUME NEW d \in Doubles, NEW whole \in BOOLEAN, SignBit(d) = 0, ~ IsZero(d), d.hi < 2 ^ H
  PROVE  LET l == Lifted(d, whole)
         IN  \E t \in Nat :
               /\ l.m = 1 - t /\ l.ix0 \in Nat /\ l.ix1 \in 0 .. Word - 1
               /\ (2 ^ H + (l.ix0 % 2 ^ H)) * Word + l.ix1 = Bits(d) * 2 ^ t
<1>1. H \in Nat /\ H + 1 \in Nat /\ W \in Nat /\ H + 1 <= W
  BY Widths
<1>2. PICK g \in Nat, w \in Nat : g = 2 ^ H /\ g > 0 /\ w = Word /\ w > 0
  BY <1>1, PowerType, WordIs
<1>3. d.hi \in Nat /\ d.lo \in 0 .. Word - 1 /\ Bits(d) = d.hi * w + d.lo /\ Bits(d) \in Nat
  <2>1. d.hi = 0 + Magnitude(d) /\ d.hi \in Nat /\ d.lo \in Nat /\ d.lo < Word
        /\ Magnitude(d) \in Nat /\ Bits(d) = Magnitude(d) * Word + d.lo /\ Bits(d) \in Nat
    BY DoubleIs
  <2> QED BY <2>1, <1>2
<1>4. d.hi # 0 \/ d.lo # 0
  <2>1. IsZero(d) <=> Bits(d) = 0
    BY DoubleIs
  <2>2. SUFFICES ASSUME d.hi = 0, d.lo = 0 PROVE FALSE
    OBVIOUS
  <2>3. 0 * w + 0 = 0
    BY <1>2
  <2> QED BY <2>1, <2>2, <2>3, <1>3
<1> DEFINE s == LiftedHigh([ix0 |-> d.hi, ix1 |-> d.lo, m |-> 0])
<1>5. PICK c \in Nat :
           /\ s \in LiftStates /\ s.m = -((H + 1) * c)
           /\ s.ix0 \in Nat /\ s.ix0 > 0 /\ s.ix0 < 2 * 2 ^ H /\ s.ix1 \in 0 .. Word - 1
           /\ s.ix0 * Word + s.ix1 = (d.hi * Word + d.lo) * 2 ^ ((H + 1) * c)
           /\ s.ix0 < 2 ^ H \/ \E k \in Nat : s.ix1 = k * 2 ^ (H + 1)
  <2> HIDE DEF s
  <2>1. \E c \in Nat :
           /\ s \in LiftStates /\ s.m = -((H + 1) * c)
           /\ s.ix0 \in Nat /\ s.ix0 > 0 /\ s.ix0 < 2 * 2 ^ H /\ s.ix1 \in 0 .. Word - 1
           /\ s.ix0 * Word + s.ix1 = (d.hi * Word + d.lo) * 2 ^ ((H + 1) * c)
           /\ s.ix0 < 2 ^ H \/ \E k \in Nat : s.ix1 = k * 2 ^ (H + 1)
    <3> USE DEF s
    <3> QED BY <1>3, <1>4, LiftedHighIs
  <2> QED BY <2>1
<1> DEFINE u == s.ix0
           v == s.ix1
           i == Min({j \in 0 .. H : u * 2 ^ j >= 2 ^ H})
           l == Lifted(d, whole)
<1>6. /\ l.ix0 = BitOr(Shl(u, i), ShiftOut(v, i, whole))
      /\ l.ix1 = Shl(v, i) /\ l.m = s.m - (i - 1)
  <2>1. ~ d.hi >= 2 ^ H
    BY <1>2, <1>3
  <2>2. l = [ix0 |-> BitOr(Shl(s.ix0, i), ShiftOut(s.ix1, i, whole)),
             ix1 |-> Shl(s.ix1, i), m |-> s.m - (i - 1)]
    <3> HIDE DEF i
    <3> USE DEF i
    <3> QED BY <2>1 DEF Lifted
  <2> HIDE DEF i, s, l
  <2> QED BY <2>2
<1> HIDE DEF s, l
<1>7. i \in 0 .. H /\ u * 2 ^ i >= 2 ^ H /\ \A j \in 0 .. H : u * 2 ^ j >= 2 ^ H => i <= j
  <2> DEFINE S == {j \in 0 .. H : u * 2 ^ j >= 2 ^ H}
  <2>1. H \in S
    <3>1. 1 * g =< u * g
      BY <1>5, ProductGrows
    <3> QED BY <3>1, <1>1, <1>2
  <2>2. S \subseteq Nat /\ S # {}
    BY <2>1
  <2>3. Min(S) \in S /\ \A j \in S : Min(S) <= j
    <3> HIDE DEF S
    <3> QED BY <2>2, MinOf
  <2> QED BY <2>3
<1> HIDE DEF i
<1>8. i \in Nat /\ u \in Nat /\ v \in 0 .. Word - 1 /\ u > 0
  BY <1>1, <1>5, <1>7
<1> DEFINE t == (H + 1) * c + i
<1>9. t \in Nat /\ l.m = 1 - t
  <2>1. PICK a0 \in Nat : a0 = (H + 1) * c
    BY <1>1
  <2> QED BY <2>1, <1>5, <1>6, <1>8
<1>10. (u * Word + v) * 2 ^ i = Bits(d) * 2 ^ t
  <2>1. PICK a0 \in Nat : a0 = (H + 1) * c
    BY <1>1
  <2>2. PICK p \in Nat, q \in Nat : p = 2 ^ a0 /\ q = 2 ^ i /\ 2 ^ (a0 + i) = p * q
    <3>1. 2 ^ a0 \in Nat /\ 2 ^ i \in Nat
      BY <1>8, PowerType
    <3>2. 2 ^ (a0 + i) = 2 ^ a0 * 2 ^ i
      BY <1>8, PowerOfSum
    <3> QED BY <3>1, <3>2
  <2>3. PICK f \in Nat : f = Bits(d)
    BY <1>3
  <2>4. (f * p) * q = f * (p * q)
    OBVIOUS
  <2>5. u * Word + v = f * p
    BY <2>1, <2>2, <2>3, <1>2, <1>3, <1>5
  <2> QED BY <2>1, <2>2, <2>3, <2>4, <2>5
<1> HIDE DEF t
<1> DEFINE Goal == /\ l.ix0 \in Nat /\ l.ix1 \in 0 .. Word - 1
                   /\ (2 ^ H + (l.ix0 % 2 ^ H)) * Word + l.ix1 = Bits(d) * 2 ^ t
<1>11. ASSUME i > 0 PROVE Goal
  <2>1. u * 2 ^ i + 2 ^ i <= 2 * g
    <3>1. i - 1 \in 0 .. H /\ i - 1 \in Nat /\ H - (i - 1) \in Nat /\ (i - 1) + 1 = i
      BY <1>1, <1>7, <1>11
    <3>2. ~ u * 2 ^ (i - 1) >= 2 ^ H
      BY <3>1, <1>7
    <3>3. PICK p \in Nat, q \in Nat : p = 2 ^ (i - 1) /\ p > 0 /\ q = 2 ^ (H - (i - 1)) /\ g = p * q
      BY <3>1, <1>1, <1>2, PowerType, PowerSplits
    <3>4. 2 ^ i = 2 * p
      BY <3>1, <3>3, PowerDoubles
    <3>5. u < q
      <4> SUFFICES ASSUME q =< u PROVE FALSE
        BY <1>8
      <4>1. q * p =< u * p
        BY <1>8, ProductGrows
      <4>2. u * p < g
        BY <3>2, <3>3, <1>2, <1>8
      <4> QED BY <4>1, <4>2, <3>3, <1>8
    <3>6. u * p + p =< q * p
      BY <3>5, <1>8, FactorsOrdered
    <3>7. PICK z \in Nat : z = u * p /\ z + p =< g
      BY <3>3, <3>6, <1>8
    <3>8. u * (2 * p) = 2 * z
      BY <3>7, <1>8
    <3> QED BY <3>4, <3>7, <3>8
  <2>2. 2 * g <= Word
    <3>1. 2 ^ (H + 1) = 2 * g /\ H + 1 \in 0 .. W
      BY <1>1, <1>2, PowerDoubles
    <3>2. 2 ^ (H + 1) <= 2 ^ W
      BY <3>1, <1>1, PowerSplits
    <3> QED BY <3>1, <3>2 DEF Word
  <2>3. u * 2 ^ i + 2 ^ i <= Word /\ i \in 0 .. W
    <3>1. PICK z \in Nat, p \in Nat : z = u * 2 ^ i /\ p = 2 ^ i
      BY <1>8, PowerType
    <3> QED BY <3>1, <2>1, <2>2, <1>1, <1>2, <1>7
  <2>4. ShiftOut(v, i, whole) = Shr(v, W - i)
    BY <1>11 DEF ShiftOut
  <2>5. /\ l.ix0 \in Nat /\ u * 2 ^ i <= l.ix0 /\ l.ix0 < u * 2 ^ i + 2 ^ i
        /\ l.ix1 \in 0 .. Word - 1
        /\ l.ix0 * Word + l.ix1 = (u * Word + v) * 2 ^ i
    BY <2>3, <2>4, <1>6, <1>8, ShiftedTogether
  <2>6. 2 ^ H + (l.ix0 % 2 ^ H) = l.ix0
    <3>1. PICK z \in Nat, p \in Nat : z = u * 2 ^ i /\ p = 2 ^ i
      BY <1>8, PowerType
    <3>2. PICK k \in Nat : k = l.ix0 /\ g <= k /\ k < 2 * g
      BY <3>1, <2>1, <2>5, <1>2, <1>7
    <3>3. k - g \in 0 .. (g - 1) /\ k = 1 * g + (k - g) /\ g > 0
      BY <3>2, <1>2
    <3>4. k % g = k - g
      BY <3>3, DividedOnce
    <3> QED BY <3>2, <3>4, <1>2
  <2>7. (2 ^ H + (l.ix0 % 2 ^ H)) * Word + l.ix1 = Bits(d) * 2 ^ t
    BY <2>5, <2>6, <1>10
  <2> QED BY <2>5, <2>7
<1>12. ASSUME i = 0 PROVE Goal
  <2>1. u * 2 ^ i = u /\ v * 2 ^ i = v /\ (u * Word + v) * 2 ^ i = u * Word + v
    BY <1>2, <1>8, <1>12, PowerOfZero
  <2>2. u >= 2 ^ H /\ u < 2 * g
    BY <2>1, <1>2, <1>5, <1>7
  <2>3. PICK k \in Nat : v = k * 2 ^ (H + 1)
    BY <2>2, <1>2, <1>5, <1>8
  <2>4. k * 2 \in Nat /\ v = (k * 2) * 2 ^ H
    <3>1. 2 ^ (H + 1) = 2 * g
      BY <1>1, <1>2, PowerDoubles
    <3>2. k * (2 * g) = (k * 2) * g
      OBVIOUS
    <3> QED BY <3>1, <3>2, <2>3, <1>2
  <2>5. Shl(u, i) = u /\ Shl(v, i) = v
    <3>1. 2 * g <= w
      <4>1. 2 ^ (H + 1) = 2 * g /\ H + 1 \in 0 .. W
        BY <1>1, <1>2, PowerDoubles
      <4>2. 2 ^ (H + 1) <= 2 ^ W
        BY <4>1, <1>1, PowerSplits
      <4> QED BY <4>1, <4>2, <1>2 DEF Word
    <3>2. u \in 0 .. w - 1 /\ v \in 0 .. w - 1 /\ w > 0
      BY <3>1, <2>2, <1>2, <1>8
    <3>3. u % w = u /\ v % w = v
      BY <3>2, DividedSmall
    <3> QED BY <3>3, <2>1, <1>2 DEF Shl, Wrap
  <2>6. PICK b0 \in Nat : ShiftOut(v, i, whole) = b0 * 2 ^ H
    <3>1. CASE whole
      BY <3>1, <2>4, <1>12 DEF ShiftOut
    <3>2. CASE ~ whole
      <4>1. 0 = 0 * 2 ^ H
        BY <1>2
      <4> QED BY <4>1, <3>2, <1>12 DEF ShiftOut
    <3> QED BY <3>1, <3>2
  <2>7. l.ix0 \in Nat /\ l.ix0 % 2 ^ H = u % 2 ^ H /\ l.ix1 = v
    <3>1. l.ix0 = BitOr(u, b0 * 2 ^ H)
      BY <2>5, <2>6, <1>6
    <3>2. H \in 0 .. W
      BY <1>1
    <3>3. BitOr(u, b0 * 2 ^ H) % 2 ^ H = u % 2 ^ H
      BY <3>2, <1>8, OrKeepsLow
    <3>4. b0 * 2 ^ H \in Nat
      BY <1>2
    <3>5. BitOr(u, b0 * 2 ^ H) \in 0 .. Word - 1
      BY <3>4, <1>8, BitOrType
    <3> QED BY <3>1, <3>3, <3>5, <2>5, <1>2, <1>6
  <2>8. 2 ^ H + (u % 2 ^ H) = u
    <3>1. u - g \in 0 .. (g - 1) /\ u = 1 * g + (u - g) /\ g > 0
      BY <2>2, <1>2, <1>8
    <3>2. u % g = u - g
      BY <3>1, <1>8, DividedOnce
    <3> QED BY <3>2, <1>2, <1>8
  <2>9. (2 ^ H + (l.ix0 % 2 ^ H)) * Word + l.ix1 = Bits(d) * 2 ^ t
    BY <2>1, <2>7, <2>8, <1>10
  <2> QED BY <2>7, <2>9, <1>8
<1>13. Goal
  <2> HIDE DEF Goal
  <2> QED BY <1>7, <1>1, <1>11, <1>12
<1> QED BY <1>9, <1>13 DEF l

(* The power and the significand of a number. *)
LEMMA SignificandIs ==
  ASSUME NEW d \in Doubles
  PROVE  /\ Power(d) = IF Exponent(d) = 0 THEN 1 ELSE Exponent(d)
         /\ Power(d) \in Nat /\ Power(d) >= 1
         /\ Significand(d) = IF Exponent(d) = 0 THEN Bits(d) ELSE 2 ^ P + Fraction(d)
         /\ Significand(d) \in Nat /\ Significand(d) < 2 * 2 ^ P
         /\ Units(d) = Significand(d) * 2 ^ (Power(d) - 1)
<1>1. PICK e \in Nat, f \in Nat, p \in Nat :
        e = Exponent(d) /\ f = Fraction(d) /\ p = 2 ^ P /\ f < p /\ p > 0
        /\ Bits(d) % p = f /\ Bits(d) \in Nat /\ Bits(d) = e * p + f
  <2>1. 2 ^ P \in Nat /\ 2 ^ P > 0
    BY Widths, PowerType
  <2>2. Exponent(d) \in Nat
    BY DoubleIs, Widths
  <2> QED BY <2>1, <2>2, DoubleIs
<1>2. Power(d) = IF e = 0 THEN 1 ELSE e
  <2> DEFINE S == {e, 1}
  <2>1. S \subseteq Nat /\ S # {} /\ IsFiniteSet(S)
    <3>1. PICK k \in Nat : k = e + 1
      OBVIOUS
    <3>2. IsFiniteSet(0 .. k)
      BY FS_Interval
    <3>3. S \in SUBSET (0 .. k)
      BY <3>1
    <3> QED BY <3>2, <3>3, FS_Subset
  <2>2. Max(S) \in S /\ \A j \in S : j <= Max(S)
    <3> HIDE DEF S
    <3> QED BY <2>1, MaxOf
  <2>3. Power(d) = Max(S)
    BY <1>1 DEF Power
  <2> HIDE DEF S
  <2>4. Max(S) = e \/ Max(S) = 1
    BY <2>2 DEF S
  <2>5. e <= Max(S) /\ 1 <= Max(S)
    BY <2>2 DEF S
  <2>6. PICK k \in Nat : k = Max(S)
    BY <2>4
  <2>7. e <= k /\ 1 <= k /\ (k = e \/ k = 1)
    BY <2>4, <2>5, <2>6
  <2>8. k = IF e = 0 THEN 1 ELSE e
    BY <2>7
  <2> QED BY <2>3, <2>6, <2>8
<1>3. Significand(d) = IF e = 0 THEN Bits(d) ELSE p + f
  BY <1>1 DEF Significand
<1>4. e = 0 => Bits(d) = f
  <2>1. 0 * p + f = f
    OBVIOUS
  <2> QED BY <2>1, <1>1
<1>5. Units(d) = Significand(d) * 2 ^ (Power(d) - 1)
  <2>1. CASE e = 0
    <3>1. Power(d) - 1 = 0 /\ Units(d) = Bits(d) /\ Significand(d) = f /\ Bits(d) = f
      BY <2>1, <1>1, <1>2, <1>3, <1>4, UnitsAre
    <3>2. f * 1 = f
      OBVIOUS
    <3> QED BY <3>1, <3>2, PowerOfZero
  <2>2. CASE e # 0
    <3>1. e > 0
      BY <2>2
    <3>2. Units(d) = (2 ^ P + Fraction(d)) * 2 ^ (Exponent(d) - 1)
      BY <3>1, <1>1, UnitsAre
    <3> QED BY <3>2, <2>2, <1>1, <1>2, <1>3
  <2> QED BY <2>1, <2>2
<1> QED BY <1>1, <1>2, <1>3, <1>4, <1>5

(* What is lifted is the number, whatever the shift by a whole word does.  *)
LEMMA LiftedIs ==
  ASSUME NEW d \in Doubles, NEW whole \in BOOLEAN, SignBit(d) = 0, ~ IsZero(d)
  PROVE  LET l == Lifted(d, whole)
         IN  \E t \in Nat :
               /\ l.m = Power(d) - t /\ l.ix0 \in Nat /\ l.ix1 \in 0 .. Word - 1
               /\ (2 ^ H + (l.ix0 % 2 ^ H)) * Word + l.ix1 = Significand(d) * 2 ^ t
               /\ t > 0 => Exponent(d) = 0
<1>1. PICK g \in Nat, w \in Nat : g = 2 ^ H /\ g > 0 /\ w = Word /\ w > 0 /\ 2 ^ P = g * w
  BY Halfs, WordIs
<1>2. d.hi \in Nat /\ d.lo \in 0 .. Word - 1 /\ d.hi = Magnitude(d)
  <2>1. d.hi = 0 + Magnitude(d) /\ d.hi \in Nat /\ d.lo \in Nat /\ d.lo < Word /\ Magnitude(d) \in Nat
    BY DoubleIs
  <2> QED BY <2>1, <1>1
<1>3. Exponent(d) = d.hi \div 2 ^ H /\ Exponent(d) \in Nat
  <2>1. Exponent(d) \in Nat
    BY DoubleIs, Widths
  <2> QED BY <2>1, <1>2 DEF Exponent
<1>4. d.hi < 2 ^ H <=> Exponent(d) = 0
  <2>1. d.hi < 1 * g <=> d.hi \div g < 1
    BY <1>1, <1>2, QuotientBelow
  <2> QED BY <2>1, <1>1, <1>2, <1>3
<1> DEFINE l == Lifted(d, whole)
<1>5. CASE d.hi < 2 ^ H
  <2>1. PICK t \in Nat :
               /\ l.m = 1 - t /\ l.ix0 \in Nat /\ l.ix1 \in 0 .. Word - 1
               /\ (2 ^ H + (l.ix0 % 2 ^ H)) * Word + l.ix1 = Bits(d) * 2 ^ t
    BY <1>5, LiftedSubnormal
  <2>2. Power(d) = 1 /\ Significand(d) = Bits(d)
    BY <1>4, <1>5, SignificandIs
  <2> HIDE DEF l
  <2>3. l.m = Power(d) - t /\ (2 ^ H + (l.ix0 % 2 ^ H)) * Word + l.ix1 = Significand(d) * 2 ^ t
    BY <2>1, <2>2
  <2> QED BY <2>1, <2>3, <1>4, <1>5 DEF l
<1>6. CASE ~ d.hi < 2 ^ H
  <2>1. l = [ix0 |-> d.hi, ix1 |-> d.lo, m |-> Shr(d.hi, H)]
    <3>1. d.hi >= 2 ^ H
      BY <1>1, <1>2, <1>6
    <3> QED BY <3>1 DEF Lifted
  <2>2. l.ix0 = d.hi /\ l.ix1 = d.lo /\ l.m = Exponent(d)
    BY <2>1, <1>3 DEF Shr
  <2> HIDE DEF l
  <2>3. Power(d) = Exponent(d) /\ Significand(d) = 2 ^ P + Fraction(d)
    BY <1>4, <1>6, SignificandIs
  <2>4. PICK f \in Nat : f = d.hi % g
    BY <1>1, <1>2, Quotients
  <2>5. (g + f) * w + d.lo = g * w + (f * w + d.lo)
    BY <1>1, <1>2
  <2>6. (2 ^ H + (l.ix0 % 2 ^ H)) * Word + l.ix1 = Significand(d)
    BY <2>2, <2>3, <2>4, <2>5, <1>1 DEF Fraction
  <2>7. Significand(d) * 2 ^ 0 = Significand(d) /\ Power(d) - 0 = Power(d)
    BY SignificandIs, PowerOfZero
  <2>8. /\ l.m = Power(d) - 0 /\ l.ix0 \in Nat /\ l.ix1 \in 0 .. Word - 1
        /\ (2 ^ H + (l.ix0 % 2 ^ H)) * Word + l.ix1 = Significand(d) * 2 ^ 0
    BY <2>2, <2>3, <2>6, <2>7, <1>2
  <2>9. 0 \in Nat /\ ~ 0 > 0
    OBVIOUS
  <2> QED BY <2>8, <2>9 DEF l
<1> QED BY <1>5, <1>6

(* The bits of a root fill its low word, and never more. *)
LEMMA RootType ==
  ASSUME NEW s \in RootStates, s.q1 = 0
  PROVE  Roots(s) \in RootStates /\ Roots(s).q1 \in 0 .. Word - 1
<1>1. H \in Nat /\ W \in Nat /\ H + 2 \in Nat
  BY Widths
<1>2. PICK high \in [0 .. H + 2 -> RootStates], low \in [0 .. W -> RootStates] :
           /\ high[0] = s /\ \A j \in 1 .. H + 2 : high[j] = HighStep(high[j - 1], 2 ^ (H + 2 - j))
           /\ low[0] = high[H + 2] /\ \A j \in 1 .. W : low[j] = LowStep(low[j - 1], 2 ^ (W - j))
           /\ Roots(s) = low[W]
  BY RootRounds
<1>3. \A j \in 0 .. H + 2 : high[j].q1 = 0
  <2> DEFINE G == {j \in 0 .. H + 2 : high[j].q1 = 0}
  <2>1. 0 \in G
    BY <1>1, <1>2
  <2>2. \A j \in 0 .. (H + 2) - 1 : j \in G => j + 1 \in G
    <3> SUFFICES ASSUME NEW j \in 0 .. (H + 2) - 1, j \in G PROVE j + 1 \in G
      OBVIOUS
    <3>1. j + 1 \in 1 .. H + 2 /\ (j + 1) - 1 = j /\ j \in 0 .. H + 2 /\ j + 1 \in 0 .. H + 2
      BY <1>1
    <3>2. high[j + 1] = HighStep(high[j], 2 ^ (H + 2 - (j + 1))) /\ high[j] \in RootStates
      BY <3>1, <1>2
    <3>3. high[j + 1].q1 = high[j].q1
      BY <3>2 DEF HighStep, Doubled, RootStates
    <3> QED BY <3>1, <3>3
  <2> HIDE DEF G
  <2>3. \A j \in 0 .. H + 2 : j \in G
    BY <1>1, <2>1, <2>2, EveryRound
  <2> QED BY <2>3 DEF G
<1>4. PICK w \in Nat : w = Word /\ w > 0 /\ w = 2 ^ W
  BY WordIs
<1>5. \A j \in 0 .. W : low[j].q1 \in 0 .. w - 2 ^ (W - j)
  <2> DEFINE G == {j \in 0 .. W : low[j].q1 \in 0 .. w - 2 ^ (W - j)}
  <2>1. 0 \in G
    <3>1. 0 \in 0 .. W /\ W - 0 = W /\ H + 2 \in 0 .. H + 2 /\ w - w = 0
      BY <1>1
    <3>2. low[0].q1 = 0
      BY <3>1, <1>2, <1>3
    <3> QED BY <3>1, <3>2, <1>4
  <2>2. \A j \in 0 .. W - 1 : j \in G => j + 1 \in G
    <3> SUFFICES ASSUME NEW j \in 0 .. W - 1, j \in G PROVE j + 1 \in G
      OBVIOUS
    <3>1. j + 1 \in 1 .. W /\ (j + 1) - 1 = j /\ j \in 0 .. W /\ j + 1 \in 0 .. W
          /\ W - (j + 1) \in Nat /\ (W - (j + 1)) + 1 = W - j
      BY <1>1
    <3>2. PICK r \in Nat : r = 2 ^ (W - (j + 1)) /\ 2 ^ (W - j) = 2 * r
      <4>1. PICK i \in Nat : i = W - (j + 1) /\ i + 1 = W - j
        BY <3>1
      <4>2. 2 ^ i \in Nat /\ 2 ^ (i + 1) = 2 * 2 ^ i
        BY PowerType, PowerDoubles
      <4> QED BY <4>1, <4>2
    <3>3. PICK t \in RootStates : t = low[j]
      BY <3>1
    <3>4. low[j + 1] = LowStep(t, r)
      BY <3>1, <3>2, <3>3, <1>2
    <3>5. low[j + 1].q1 \in {t.q1, t.q1 + r}
      BY <3>4 DEF LowStep, Doubled, RootStates
    <3>6. t.q1 \in 0 .. w - 2 * r
      BY <3>2, <3>3
    <3>7. low[j + 1].q1 \in 0 .. w - r
      BY <3>5, <3>6
    <3> QED BY <3>1, <3>2, <3>7
  <2> HIDE DEF G
  <2>3. \A j \in 0 .. W : j \in G
    BY <1>1, <2>1, <2>2, EveryRound
  <2> QED BY <2>3 DEF G
<1>6. W \in 0 .. W /\ W - W = 0
  BY <1>1
<1>7. low[W].q1 \in 0 .. w - 1 /\ low[W] \in RootStates
  BY <1>5, <1>6, PowerOfZero
<1> QED BY <1>2, <1>4, <1>7

LEMMA RoundedType ==
  ASSUME NEW s \in RootStates, s.q1 \in 0 .. Word - 1
  PROVE  RoundedRoot(s) \in RootStates /\ RoundedRoot(s).q1 \in 0 .. Word - 1
<1>1. PICK h \in Nat, w \in Nat : w = Word /\ w = 2 * h /\ h > 0
  BY Halfs
<1>2. s.q1 \in Nat /\ s.q1 % 2 \in {0, 1} /\ s.q \in Int
  BY DEF RootStates
<1>3. s.q1 # w - 1 => s.q1 + (s.q1 % 2) \in 0 .. w - 1
  BY <1>1, <1>2
<1>4. PICK v \in Int, k \in Int, o \in Int : v = s.q1 + (s.q1 % 2) /\ k = s.q + 1 /\ o = 0
  BY <1>2
<1> DEFINE up  == [s EXCEPT !.q1 = o, !.q = k]
           off == [s EXCEPT !.q1 = v]
<1>5. up \in RootStates /\ off \in RootStates /\ up.q1 = o /\ off.q1 = v
  <2>1. off \in RootStates /\ off.q1 = v
    BY DEF RootStates
  <2>2. up \in RootStates
    BY DEF RootStates
  <2>3. up.q1 = o
    BY DEF RootStates
  <2> QED BY <2>1, <2>2, <2>3
<1>6. RoundedRoot(s) \in {s, up, off}
      /\ (s.q1 = w - 1 => RoundedRoot(s) \in {s, up})
  BY <1>1, <1>4 DEF RoundedRoot
<1>7. 0 \in 0 .. w - 1
  BY <1>1
<1> HIDE DEF up, off
<1>8. v \in 0 .. w - 1 \/ s.q1 = w - 1
  BY <1>3, <1>4
<1>9. o \in 0 .. w - 1
  BY <1>4, <1>7
<1> QED BY <1>1, <1>5, <1>6, <1>8, <1>9

(* The state that the steps of a root begin with. *)
RootStart(d, whole) ==
  LET lifted == Lifted(d, whole)
      s == [ix0 |-> 2 ^ H + (lifted.ix0 % 2 ^ H), ix1 |-> lifted.ix1,
            s0 |-> 0, s1 |-> 0, q |-> 0, q1 |-> 0]
  IN  Doubled(IF (lifted.m - Bias) % 2 = 1 THEN Doubled(s) ELSE s)

RootHigh(q, m)  == Wrap((q \div 2) + (Bias - 1) * 2 ^ H + (m \div 2) * 2 ^ H)
RootLow(q, q1) == (q1 \div 2) + (q % 2) * (Word \div 2)

LEMMA PositiveRootIs ==
  ASSUME NEW d, NEW whole
  PROVE  LET root == RoundedRoot(Roots(RootStart(d, whole)))
         IN  PositiveRoot(d, whole) = Double(RootHigh(root.q, Lifted(d, whole).m - Bias), RootLow(root.q, root.q1))
BY DEF PositiveRoot, RootStart, RootHigh, RootLow

LEMMA PositiveRootType ==
  ASSUME NEW d \in Doubles, NEW whole \in BOOLEAN, SignBit(d) = 0, ~ IsZero(d)
  PROVE  PositiveRoot(d, whole) \in Doubles
<1>1. PICK g \in Nat, h \in Nat, w \in Nat : g = 2 ^ H /\ g > 0 /\ w = Word /\ w = 2 * h /\ h > 0 /\ h = Word \div 2
  BY Halfs
<1> DEFINE l == Lifted(d, whole)
           m == l.m - Bias
           s == [ix0 |-> 2 ^ H + (l.ix0 % 2 ^ H), ix1 |-> l.ix1, s0 |-> 0, s1 |-> 0, q |-> 0, q1 |-> 0]
<1>2. l.m \in Int /\ l.ix0 \in Nat /\ l.ix1 \in Nat
  <2>1. PICK t \in Nat : l.m = Power(d) - t /\ l.ix0 \in Nat /\ l.ix1 \in 0 .. Word - 1
    BY LiftedIs
  <2> QED BY <2>1, <1>1, SignificandIs
<1> HIDE DEF l
<1>3. m \in Int
  BY <1>2, Widths
<1>4. s \in RootStates
  <2>1. PICK v \in Int : v = 2 ^ H + (l.ix0 % 2 ^ H)
    <3>1. l.ix0 % g \in Int
      BY <1>1, <1>2, Quotients
    <3> QED BY <3>1, <1>1
  <2> QED BY <2>1, <1>2 DEF RootStates
<1>5. s.q1 = 0
  OBVIOUS
<1>6. RootStart(d, whole) = Doubled(IF m % 2 = 1 THEN Doubled(s) ELSE s)
  BY DEF RootStart, l
<1> HIDE DEF s, m
<1>7. RootStart(d, whole) \in RootStates /\ RootStart(d, whole).q1 = 0
  <2>1. 0 \in Nat
    OBVIOUS
  <2>2. Doubled(s) \in RootStates /\ Doubled(Doubled(s)) \in RootStates
    BY <2>1, <1>4, StepType
  <2>3. Doubled(s).q1 = 0 /\ Doubled(Doubled(s)).q1 = 0
    BY <2>2, <1>4, <1>5 DEF Doubled, RootStates
  <2> QED BY <2>2, <2>3, <1>6
<1> DEFINE root == RoundedRoot(Roots(RootStart(d, whole)))
<1>8. root \in RootStates /\ root.q1 \in 0 .. Word - 1
  BY <1>7, RootType, RoundedType
<1>9. PositiveRoot(d, whole) = Double(RootHigh(root.q, m), RootLow(root.q, root.q1))
  BY PositiveRootIs DEF m, l
<1> HIDE DEF root
<1>10. PICK q \in Int, q1 \in Nat : q = root.q /\ q1 = root.q1 /\ q1 < w
  BY <1>1, <1>8 DEF RootStates
<1>11. RootLow(q, q1) \in 0 .. w - 1
  <2>1. q1 \div 2 \in 0 .. h - 1
    BY <1>1, <1>10
  <2>2. q % 2 \in {0, 1}
    OBVIOUS
  <2>3. (q % 2) * h \in {0, h}
    <3>1. 0 * h = 0 /\ 1 * h = h
      OBVIOUS
    <3> QED BY <3>1, <2>2
  <2>4. (q1 \div 2) + (q % 2) * h \in 0 .. w - 1
    BY <2>1, <2>3, <1>1
  <2> QED BY <2>4, <1>1 DEF RootLow
<1>12. RootHigh(q, m) \in 0 .. Word - 1
  <2>1. PICK k \in Int : k = m \div 2
    BY <1>3
  <2>2. PICK j \in Int : j = Bias - 1
    BY Widths
  <2>3. (q \div 2) + j * g + k * g \in Int
    OBVIOUS
  <2>4. (q \div 2) + (Bias - 1) * 2 ^ H + (m \div 2) * 2 ^ H \in Int
    BY <2>1, <2>2, <2>3, <1>1
  <2> QED BY <2>4, WrapType DEF RootHigh
<1> QED BY <1>1, <1>9, <1>10, <1>11, <1>12 DEF Double, Doubles

LEMMA ShiftRight ==
  ASSUME NEW v \in 0 .. Word - 1, NEW k \in Nat
  PROVE  /\ Shr(v, k) \in 0 .. Word - 1 /\ Sar(v, k) \in 0 .. Word - 1
         /\ v - (v % 2 ^ k) \in 0 .. Word - 1
<1>1. PICK w \in Nat, d \in Nat : w = Word /\ w > 0 /\ d = 2 ^ k /\ d > 0
  BY WordIs, PowerType
<1>2. PICK q \in Nat, r \in Nat : q = v \div d /\ r = v % d /\ v = q * d + r
  <2>1. v \in Nat /\ d > 0
    BY <1>1
  <2> QED BY <2>1, Quotients
<1>3. q * d \in Nat /\ q =< q * d
  <2>1. 1 * q =< d * q /\ d * q \in Nat
    BY <1>1, ProductGrows
  <2> QED BY <2>1
<1>4. Signed(v) \in Int
  <2>1. PICK h \in Nat : h = w \div 2
    BY <1>1
  <2> QED BY <2>1, <1>1 DEF Signed
<1>5. Signed(v) \div d \in Int
  <2>1. d > 0
    BY <1>1
  <2> QED BY <1>4, <2>1, Divided
<1>6. Sar(v, k) \in 0 .. Word - 1
  BY <1>1, <1>5, WrapType DEF Sar
<1>7. Shr(v, k) = q
  BY <1>1, <1>2 DEF Shr
<1> QED BY <1>1, <1>2, <1>3, <1>6, <1>7

LEMMA FabsIs ==
  ASSUME NEW d \in Doubles
  PROVE  fabs(d) \in Doubles
<1>1. PICK h \in Nat, w \in Nat : w = Word /\ w = 2 * h /\ h = w \div 2 /\ h > 0
  BY Halfs
<1>2. Magnitude(d) \in Nat /\ Magnitude(d) < h /\ d.lo \in Nat /\ d.lo < w
  BY <1>1, DoubleIs
<1> QED BY <1>1, <1>2 DEF fabs, Double, Doubles

LEMMA IntegralType ==
  ASSUME NEW d \in Doubles, NEW outward \in BOOLEAN
  PROVE  Integral(d, outward) \in Doubles
<1>1. PICK w \in Nat, j0 \in Int : w = Word /\ w > 0 /\ j0 = Exponent(d) - Bias
  <2>1. Exponent(d) \in Int /\ Bias \in Int
    BY DoubleIs, Widths
  <2> QED BY <2>1, WordIs
<1>2. d.hi \in 0 .. Word - 1 /\ d.lo \in 0 .. Word - 1 /\ SignBit(d) \in {0, Word \div 2}
  BY DoubleIs DEF Doubles
<1>3. H \in Nat /\ P \in Nat
  BY Widths
<1>4. CASE j0 < 0
  <2>1. Zero(SignBit(d)) \in Doubles /\ Double(SignBit(d) + Bias * 2 ^ H, 0) \in Doubles
    BY <1>2, ZeroIs, OneIs
  <2>2. Integral(d, outward) \in {d, Double(SignBit(d) + Bias * 2 ^ H, 0), Zero(SignBit(d))}
    <3>1. j0 < 0 /\ ~ j0 \in 0 .. H - 1 /\ ~ j0 \in H .. P - 1 /\ ~ j0 >= P
      BY <1>1, <1>4, Widths
    <3>2. CASE outward
      BY <3>1, <3>2, <1>1 DEF Integral
    <3>3. CASE ~ outward
      BY <3>1, <3>3, <1>1 DEF Integral
    <3> QED BY <3>2, <3>3
  <2> QED BY <2>1, <2>2
<1>5. CASE j0 \in 0 .. H - 1
  <2>1. PICK k \in Nat : k = H - j0
    BY <1>3, <1>5
  <2>2. PICK i0 \in 0 .. Word - 1 : i0 = IF outward THEN Wrap(d.hi + 2 ^ k) ELSE d.hi
    <3>1. d.hi + 2 ^ k \in Int
      BY <1>1, <1>2, PowerType
    <3> QED BY <3>1, <1>2, WrapType
  <2>3. Integral(d, outward) \in {d, Double(i0 - (i0 % 2 ^ k), 0)}
    <3>1. ~ j0 < 0 /\ j0 \in 0 .. H - 1 /\ ~ j0 \in H .. P - 1 /\ ~ j0 >= P
      BY <1>1, <1>5, Widths
    <3> QED BY <3>1, <1>1, <2>1, <2>2 DEF Integral
  <2>4. Double(i0 - (i0 % 2 ^ k), 0) \in Doubles
    BY <1>1, ShiftRight DEF Double, Doubles
  <2> QED BY <2>3, <2>4
<1>6. CASE j0 \in H .. P - 1
  <2>1. PICK k \in Nat : k = P - j0
    BY <1>3, <1>6
  <2>2. PICK i1 \in Int : i1 = IF outward THEN d.lo + 2 ^ k ELSE d.lo
    BY <1>1, <1>2, PowerType
  <2>3. Integral(d, outward) \in {d, Double(Wrap(d.hi + (i1 \div Word)), Wrap(i1) - (Wrap(i1) % 2 ^ k))}
    <3>1. ~ j0 < 0 /\ ~ j0 \in 0 .. H - 1 /\ j0 \in H .. P - 1 /\ ~ j0 >= P
      BY <1>1, <1>6, Widths
    <3>2. CASE outward
      BY <3>1, <3>2, <1>1, <2>1, <2>2 DEF Integral
    <3>3. CASE ~ outward
      BY <3>1, <3>3, <1>1, <2>1, <2>2 DEF Integral
    <3> QED BY <3>2, <3>3
  <2>4. Wrap(i1) \in 0 .. Word - 1
    BY WrapType
  <2>5. Wrap(d.hi + (i1 \div Word)) \in 0 .. Word - 1
    <3>1. i1 \div w \in Int
      BY <1>1, Divided
    <3>2. d.hi + (i1 \div Word) \in Int
      BY <3>1, <1>1, <1>2
    <3> QED BY <3>2, WrapType
  <2>6. Wrap(i1) - (Wrap(i1) % 2 ^ k) \in 0 .. Word - 1
    BY <2>4, ShiftRight
  <2>7. Double(Wrap(d.hi + (i1 \div Word)), Wrap(i1) - (Wrap(i1) % 2 ^ k)) \in Doubles
    BY <2>5, <2>6 DEF Double, Doubles
  <2> QED BY <2>3, <2>7
<1>7. CASE j0 >= P
  <2>1. ~ Exponent(d) - Bias < 0 /\ Exponent(d) - Bias \notin 0 .. H - 1
        /\ Exponent(d) - Bias \notin H .. P - 1 /\ Exponent(d) - Bias >= P
    BY <1>1, <1>7, Widths
  <2>2. Integral(d, outward) = d
    BY <2>1 DEF Integral
  <2> QED BY <2>2
<1> QED BY <1>1, <1>3, <1>4, <1>5, <1>6, <1>7

LEMMA NaNIs == NaN \in Doubles
<1>1. PICK h \in Nat, g \in Nat : g = 2 ^ H /\ g > 0 /\ h = Word \div 2 /\ Word = 2 * h /\ h = (MaxExp + 1) * g
  BY Halfs
<1>2. PICK k \in Nat : k = 2 ^ (H - 1) /\ k <= g
  <2>1. H - 1 \in Nat /\ H - 1 \in 0 .. H /\ H \in Nat
    BY Widths
  <2> QED BY <2>1, <1>1, PowerType, PowerSplits
<1>3. PICK m \in Nat : m = MaxExp
  BY Widths
<1>4. m * g + g = (m + 1) * g /\ m * g \in Nat
  OBVIOUS
<1>5. m * g + k \in 0 .. 2 * h - 1 /\ 0 \in 0 .. 2 * h - 1
  <2>1. PICK z \in Nat : z = m * g
    BY <1>4
  <2>2. z + g = h /\ k <= g /\ g > 0
    BY <2>1, <1>1, <1>2, <1>3, <1>4
  <2> QED BY <2>1, <2>2
<1> QED BY <1>1, <1>2, <1>3, <1>5 DEF NaN, Double, Doubles

(* The ints that an exponent may be, and what the sums of them wrap to.     *)
LEMMA IntIs ==
  \E N \in Nat :
    /\ N = 2 ^ (IntBits - 1) /\ N > 0 /\ 2 ^ IntBits = 2 * N /\ Exponents = -N .. N - 1
    /\ P < Far /\ Far \in Nat /\ Far + MaxExp <= N /\ P + 2 + MaxExp <= N
<1>1. PICK i \in Nat : i = IntBits - 1 /\ i + 1 = IntBits
  BY FarAssumption
<1>2. PICK N \in Nat : N = 2 ^ i /\ N > 0 /\ 2 ^ (i + 1) = 2 * N
  BY PowerType, PowerDoubles
<1> QED BY <1>1, <1>2, FarAssumption DEF Exponents

LEMMA WrapIntIs ==
  ASSUME NEW k \in Int, NEW N \in Nat, N = 2 ^ (IntBits - 1)
  PROVE  /\ WrapInt(k) \in -N .. N - 1
         /\ k \in -N .. N - 1 => WrapInt(k) = k
         /\ k >= N /\ k < 3 * N => WrapInt(k) = k - 2 * N
<1>1. N > 0 /\ 2 ^ IntBits = 2 * N
  BY IntIs
<1>2. PICK m \in Nat : m = 2 * N /\ m > 0
  BY <1>1
<1>3. WrapInt(k) = ((k + N) % m) - N
  BY <1>1, <1>2 DEF WrapInt
<1>4. (k + N) % m \in 0 .. (m - 1)
  BY <1>2, Divided
<1>5. k \in -N .. N - 1 => (k + N) % m = k + N
  <2> SUFFICES ASSUME k \in -N .. N - 1 PROVE (k + N) % m = k + N
    OBVIOUS
  <2>1. k + N \in 0 .. (m - 1) /\ m > 0
    BY <1>2
  <2> QED BY <2>1, DividedSmall
<1>6. k >= N /\ k < 3 * N => (k + N) % m = k + N - m
  <2> SUFFICES ASSUME k >= N, k < 3 * N PROVE (k + N) % m = k + N - m
    OBVIOUS
  <2>1. k + N - m \in 0 .. (m - 1) /\ m > 0 /\ k + N \in Int /\ k + N = 1 * m + (k + N - m)
    BY <1>2
  <2> QED BY <2>1, DividedOnce
<1> QED BY <1>2, <1>3, <1>4, <1>5, <1>6

(* How scalbn goes on, whatever the sum of the exponents wraps to. *)
LEMMA ScalbnArms ==
  ASSUME NEW d, NEW i, ~ IsZero(d), finite(d)
  PROVE  LET scaled == Exponent(d) = 0
             normal == IF scaled THEN TimesTwo54(d) ELSE d
             k      == WrapInt(Exponent(normal) - (IF scaled THEN P + 2 ELSE 0) + i)
         IN  /\ scaled /\ i < -Far => scalbn(d, i) = Zero(SignBit(d))
             /\ ~ (scaled /\ i < -Far) =>
                  /\ k >= MaxExp /\ ~ k \in 1 .. MaxExp - 1 /\ ~ k <= -(P + 2) =>
                       scalbn(d, i) = Infinity(SignBit(d))
                  /\ ~ k >= MaxExp /\ k \in 1 .. MaxExp - 1 /\ ~ k <= -(P + 2) =>
                       scalbn(d, i) = WithExponent(normal, k)
                  /\ ~ k >= MaxExp /\ ~ k \in 1 .. MaxExp - 1 /\ k <= -(P + 2) =>
                       scalbn(d, i) = OutOfReach(i, SignBit(d))
                  /\ ~ k >= MaxExp /\ ~ k \in 1 .. MaxExp - 1 /\ ~ k <= -(P + 2) =>
                       scalbn(d, i) = TimesTwom54(WithExponent(normal, k + P + 2))
<1> DEFINE scaled == Exponent(d) = 0
           normal == IF scaled THEN TimesTwo54(d) ELSE d
           k      == WrapInt(Exponent(normal) - (IF scaled THEN P + 2 ELSE 0) + i)
           inner  == CASE k >= MaxExp        -> Infinity(SignBit(d))
                       [] k \in 1 .. MaxExp - 1 -> WithExponent(normal, k)
                       [] k <= -(P + 2)      -> OutOfReach(i, SignBit(d))
                       [] OTHER              -> TimesTwom54(WithExponent(normal, k + P + 2))
<1>1. scalbn(d, i) = CASE IsZero(d) \/ ~ finite(d)  -> d
                         [] scaled /\ i < -Far        -> Zero(SignBit(d))
                         [] OTHER -> inner
  BY DEF scalbn
<1> HIDE DEF scaled, inner
<1>2. scaled /\ i < -Far => scalbn(d, i) = Zero(SignBit(d))
  BY <1>1
<1>3. ~ (scaled /\ i < -Far) => scalbn(d, i) = inner
  BY <1>1
<1> HIDE DEF k, normal
<1>4. /\ k >= MaxExp /\ ~ k \in 1 .. MaxExp - 1 /\ ~ k <= -(P + 2) =>
             inner = Infinity(SignBit(d))
      /\ ~ k >= MaxExp /\ k \in 1 .. MaxExp - 1 /\ ~ k <= -(P + 2) =>
             inner = WithExponent(normal, k)
      /\ ~ k >= MaxExp /\ ~ k \in 1 .. MaxExp - 1 /\ k <= -(P + 2) =>
             inner = OutOfReach(i, SignBit(d))
      /\ ~ k >= MaxExp /\ ~ k \in 1 .. MaxExp - 1 /\ ~ k <= -(P + 2) =>
             inner = TimesTwom54(WithExponent(normal, k + P + 2))
  BY DEF inner
<1> QED BY <1>2, <1>3, <1>4 DEF scaled, normal, k

(* What scalbn answers, for every int: a sum that wraps around is far away. *)
LEMMA ScalbnCases ==
  ASSUME NEW d \in Doubles, finite(d), ~ IsZero(d), NEW i \in Exponents
  PROVE  LET scaled == Exponent(d) = 0
             normal == IF scaled THEN TimesTwo54(d) ELSE d
             shift  == IF scaled THEN P + 2 ELSE 0
             e      == Exponent(normal) - shift + i
         IN  /\ i \in Int /\ e \in Int
             /\ e >= MaxExp => scalbn(d, i) = Infinity(SignBit(d))
             /\ e \in 1 .. MaxExp - 1 => scalbn(d, i) = WithExponent(normal, e)
             /\ e \in -(P + 1) .. 0 => scalbn(d, i) = TimesTwom54(WithExponent(normal, e + P + 2))
             /\ e <= -(P + 2) => scalbn(d, i) = Zero(SignBit(d))
<1> DEFINE scaled == Exponent(d) = 0
           normal == IF scaled THEN TimesTwo54(d) ELSE d
           shift  == IF scaled THEN P + 2 ELSE 0
           k      == WrapInt(Exponent(normal) - (IF scaled THEN P + 2 ELSE 0) + i)
           r      == scalbn(d, i)
<1>1. PICK N \in Nat, f \in Nat, m \in Nat, p \in Nat :
        /\ N = 2 ^ (IntBits - 1) /\ f = Far /\ m = MaxExp /\ p = P
        /\ N > 0 /\ p < f /\ f + m <= N /\ p + 2 + m <= N /\ p + 2 < m
  <2>1. P \in Nat /\ MaxExp \in Nat /\ P + 2 < MaxExp
    BY Widths
  <2> QED BY <2>1, IntIs
<1>2. i >= -N /\ i < N /\ i \in Int
  <2>1. Exponents = -N .. N - 1
    BY <1>1, IntIs
  <2> QED BY <2>1
<1>3. PICK v \in Int, s \in Int :
        /\ v = Exponent(normal) /\ s = shift /\ v >= 1 /\ v <= m - 1
        /\ scaled => v <= p + 2 /\ s = p + 2
        /\ ~ scaled => s = 0
  <2>1. Exponent(normal) \in 1 .. MaxExp - 1 /\ (scaled => Exponent(normal) <= P + 2)
    BY NormalIs
  <2>2. (scaled => shift = P + 2) /\ (~ scaled => shift = 0)
    OBVIOUS
  <2> HIDE DEF normal, shift, scaled
  <2>3. PICK v \in Int : v = Exponent(normal) /\ v >= 1 /\ v <= m - 1
    BY <2>1, <1>1
  <2>4. shift \in Int
    BY <2>2, <1>1
  <2> QED BY <2>1, <2>2, <2>3, <2>4, <1>1
<1>5. /\ scaled /\ i < -Far => r = Zero(SignBit(d))
      /\ ~ (scaled /\ i < -Far) =>
           /\ k >= MaxExp /\ ~ k \in 1 .. MaxExp - 1 /\ ~ k <= -(P + 2) => r = Infinity(SignBit(d))
           /\ ~ k >= MaxExp /\ k \in 1 .. MaxExp - 1 /\ ~ k <= -(P + 2) => r = WithExponent(normal, k)
           /\ ~ k >= MaxExp /\ ~ k \in 1 .. MaxExp - 1 /\ k <= -(P + 2) => r = OutOfReach(i, SignBit(d))
           /\ ~ k >= MaxExp /\ ~ k \in 1 .. MaxExp - 1 /\ ~ k <= -(P + 2) =>
                r = TimesTwom54(WithExponent(normal, k + P + 2))
  BY ScalbnArms
<1>6. PICK e \in Int : e = v - s + i /\ e = Exponent(normal) - shift + i
  BY <1>1, <1>2, <1>3
<1>7. k = WrapInt(e)
  BY <1>6
<1> HIDE DEF k, scaled, normal, r, shift
<1> DEFINE Goal == /\ e >= m => r = Infinity(SignBit(d))
                   /\ e \in 1 .. m - 1 => r = WithExponent(normal, e)
                   /\ e \in -(p + 1) .. 0 => r = TimesTwom54(WithExponent(normal, e + P + 2))
                   /\ e <= -(p + 2) => r = Zero(SignBit(d))
<1>8. ASSUME scaled /\ i < -Far PROVE Goal
  <2>1. e <= -(p + 2)
    BY <1>1, <1>2, <1>3, <1>6, <1>8
  <2>2. ~ e >= m /\ ~ e \in 1 .. m - 1 /\ ~ e \in -(p + 1) .. 0
    BY <2>1, <1>1, <1>2
  <2>3. r = Zero(SignBit(d))
    BY <1>5, <1>8
  <2> QED BY <2>2, <2>3
<1>9. ASSUME ~ (scaled /\ i < -Far) PROVE Goal
  <2>1. e >= -N /\ e < 2 * N
    BY <1>1, <1>2, <1>3, <1>6, <1>9
  <2>2. CASE e >= N
    <3>1. k = e - 2 * N
      BY <2>1, <2>2, <1>1, <1>7, WrapIntIs
    <3>2. e <= m - 1 + i
      BY <1>1, <1>2, <1>3, <1>6
    <3>3. e - 2 * N <= -(p + 2) /\ i > Far /\ e >= m
      BY <3>2, <2>1, <2>2, <1>1, <1>2
    <3>4. ~ k >= MaxExp /\ ~ k \in 1 .. MaxExp - 1 /\ k <= -(P + 2)
      BY <3>1, <3>3, <1>1, <1>2
    <3>5. r = Infinity(SignBit(d))
      BY <3>3, <3>4, <1>5, <1>9 DEF OutOfReach
    <3>6. ~ e <= -(p + 2) /\ ~ e \in 1 .. m - 1 /\ ~ e \in -(p + 1) .. 0
      BY <3>3, <1>1, <1>2
    <3> QED BY <3>5, <3>6
  <2>3. CASE e < N
    <3>1. k = e
      <4>1. e \in -N .. N - 1
        BY <2>1, <2>3
      <4> QED BY <4>1, <1>1, <1>7, WrapIntIs
    <3>2. e >= m => r = Infinity(SignBit(d))
      <4> SUFFICES ASSUME e >= m PROVE r = Infinity(SignBit(d))
        OBVIOUS
      <4>1. k >= MaxExp /\ ~ k \in 1 .. MaxExp - 1 /\ ~ k <= -(P + 2)
        BY <3>1, <1>1, <1>2
      <4> QED BY <4>1, <1>5, <1>9
    <3>3. e \in 1 .. m - 1 => r = WithExponent(normal, e)
      <4> SUFFICES ASSUME e \in 1 .. m - 1 PROVE r = WithExponent(normal, e)
        OBVIOUS
      <4>1. ~ k >= MaxExp /\ k \in 1 .. MaxExp - 1 /\ ~ k <= -(P + 2)
        BY <3>1, <1>1, <1>2
      <4> QED BY <4>1, <3>1, <1>5, <1>9
    <3>4. e \in -(p + 1) .. 0 => r = TimesTwom54(WithExponent(normal, e + P + 2))
      <4> SUFFICES ASSUME e \in -(p + 1) .. 0 PROVE r = TimesTwom54(WithExponent(normal, e + P + 2))
        OBVIOUS
      <4>1. ~ k >= MaxExp /\ ~ k \in 1 .. MaxExp - 1 /\ ~ k <= -(P + 2)
        BY <3>1, <1>1, <1>2
      <4> QED BY <4>1, <3>1, <1>5, <1>9
    <3>5. e <= -(p + 2) => r = Zero(SignBit(d))
      <4> SUFFICES ASSUME e <= -(p + 2) PROVE r = Zero(SignBit(d))
        OBVIOUS
      <4>1. ~ k >= MaxExp /\ ~ k \in 1 .. MaxExp - 1 /\ k <= -(P + 2)
        BY <3>1, <1>1, <1>2
      <4>2. ~ i > Far
        BY <1>1, <1>2, <1>3, <1>6
      <4> QED BY <4>1, <4>2, <3>1, <1>5, <1>9 DEF OutOfReach
    <3> QED BY <3>2, <3>3, <3>4, <3>5
  <2> HIDE DEF Goal
  <2> QED BY <2>2, <2>3, <1>1
<1>10. Goal
  <2> HIDE DEF Goal
  <2> QED BY <1>8, <1>9
<1> QED BY <1>1, <1>2, <1>6, <1>10 DEF scaled, normal, r, shift

LEMMA ScalbnType ==
  ASSUME NEW d \in Doubles, NEW i \in Exponents
  PROVE  scalbn(d, i) \in Doubles
<1>1. SignBit(d) \in {0, Word \div 2}
  BY DoubleIs
<1>2. Zero(SignBit(d)) \in Doubles /\ Infinity(SignBit(d)) \in Doubles
  BY <1>1, ZeroIs, InfinityIs
<1>3. CASE IsZero(d) \/ ~ finite(d)
  <2>1. ASSUME IsZero(d) PROVE scalbn(d, i) \in {d, Zero(SignBit(d))}
    BY <2>1 DEF scalbn
  <2>2. ASSUME ~ finite(d) PROVE scalbn(d, i) \in {d, Zero(SignBit(d))}
    BY <2>2 DEF scalbn
  <2> QED BY <1>2, <1>3, <2>1, <2>2
<1>4. CASE ~ (IsZero(d) \/ ~ finite(d))
  <2> DEFINE normal == IF Exponent(d) = 0 THEN TimesTwo54(d) ELSE d
             e      == Exponent(normal) - (IF Exponent(d) = 0 THEN P + 2 ELSE 0) + i
  <2>1. /\ e \in Int
        /\ e >= MaxExp => scalbn(d, i) = Infinity(SignBit(d))
        /\ e \in 1 .. MaxExp - 1 => scalbn(d, i) = WithExponent(normal, e)
        /\ e \in -(P + 1) .. 0 => scalbn(d, i) = TimesTwom54(WithExponent(normal, e + P + 2))
        /\ e <= -(P + 2) => scalbn(d, i) = Zero(SignBit(d))
    BY <1>4, ScalbnCases
  <2>2. normal \in Doubles
    BY <1>4, NormalIs
  <2> HIDE DEF e, normal
  <2>3. CASE e \in 1 .. MaxExp - 1
    <3>1. e \in 0 .. MaxExp
      BY <2>3, Widths
    <3> QED BY <3>1, <2>1, <2>2, <2>3, WithExponentIs
  <2>4. CASE e \in -(P + 1) .. 0
    <3>1. PICK j \in 0 .. MaxExp : j = e + P + 2
      BY <2>4, Widths
    <3>2. PICK c \in Doubles : c = WithExponent(normal, j)
      BY <2>2, WithExponentIs
    <3>3. SignBit(c) \in {0, Word \div 2} /\ Units(c) \in Nat
      BY DoubleIs, UnitsAre
    <3>4. Nearest(Units(c), P + 2) \in Nat
      <4>1. PICK q \in Nat : q = P + 2
        BY Widths
      <4> QED BY <4>1, <3>3, NearestType
    <3>5. TimesTwom54(c) \in Doubles
      BY <3>3, <3>4, EncodeIs DEF TimesTwom54
    <3> QED BY <2>1, <2>4, <3>1, <3>2, <3>5
  <2>5. CASE e >= MaxExp \/ e <= -(P + 2)
    BY <1>2, <2>1, <2>5
  <2>6. e >= MaxExp \/ e <= -(P + 2) \/ e \in 1 .. MaxExp - 1 \/ e \in -(P + 1) .. 0
    BY <2>1, Widths
  <2> QED BY <2>3, <2>4, <2>5, <2>6
<1> QED BY <1>3, <1>4

LEMMA SqrtType ==
  ASSUME NEW d \in Doubles, NEW whole \in BOOLEAN
  PROVE  sqrt(d, whole) \in Doubles
<1>1. CASE IsZero(d) \/ IsNaN(d) \/ Negative(d) \/ d = Infinity(0)
  <2>1. sqrt(d, whole) \in {d, NaN}
    BY <1>1 DEF sqrt
  <2> QED BY <2>1, NaNIs
<1>2. CASE ~ (IsZero(d) \/ IsNaN(d) \/ Negative(d) \/ d = Infinity(0))
  <2>1. sqrt(d, whole) = PositiveRoot(d, whole)
    BY <1>2 DEF sqrt
  <2>2. SignBit(d) = 0
    BY <1>2 DEF Negative
  <2> QED BY <2>1, <2>2, <1>2, PositiveRootType
<1> QED BY <1>1, <1>2

LEMMA FrexpType ==
  ASSUME NEW d \in Doubles
  PROVE  frexp(d).fraction \in Doubles
<1>1. CASE finite(d) /\ ~ IsZero(d)
  BY <1>1, FrexpIs
<1>2. CASE ~ (finite(d) /\ ~ IsZero(d))
  BY <1>2 DEF frexp
<1> QED BY <1>1, <1>2

(* Ints, read off a word. *)
Ints == -(Word \div 2) .. Word \div 2 - 1

LEMMA SignedIs ==
  ASSUME NEW v \in 0 .. Word - 1, NEW h \in Nat, h = Word \div 2
  PROVE  /\ Signed(v) \in -h .. h - 1 /\ Word = 2 * h /\ h > 0
         /\ v < h => Signed(v) = v
         /\ v >= h => Signed(v) = v - 2 * h
         /\ Signed(v) < 0 <=> v >= h
<1>1. PICK w \in Nat : w = Word /\ w = 2 * h /\ h > 0
  BY Halfs
<1>2. v \in 0 .. w - 1 /\ Signed(v) = IF v >= h THEN v - w ELSE v
  BY <1>1 DEF Signed
<1> QED BY <1>1, <1>2

LEMMA AsIntType ==
  ASSUME NEW i \in Int
  PROVE  AsInt(i) \in Ints
<1>1. PICK h \in Nat : h = Word \div 2
  BY Halfs
<1>2. Wrap(i) \in 0 .. Word - 1
  BY WrapType
<1>3. Signed(Wrap(i)) \in -h .. h - 1
  BY <1>1, <1>2, SignedIs
<1> QED BY <1>1, <1>3 DEF AsInt, Ints

(* An int that is one already is left as it is. *)
LEMMA AsIntSame ==
  ASSUME NEW i \in Ints
  PROVE  AsInt(i) = i
<1>1. PICK h \in Nat, w \in Nat : h = Word \div 2 /\ w = Word /\ w = 2 * h /\ h > 0
  BY Halfs
<1>2. i \in Int /\ -h <= i /\ i < h
  BY <1>1 DEF Ints
<1>3. CASE i >= 0
  <2>1. i \in 0 .. (w - 1) /\ w > 0
    BY <1>1, <1>2, <1>3
  <2>2. i % w = i
    BY <2>1, DividedSmall
  <2>3. i \in 0 .. Word - 1 /\ i < h
    BY <2>1, <1>1, <1>2
  <2>4. Signed(i) = i
    BY <2>3, <1>1, SignedIs
  <2> QED BY <2>2, <2>4, <1>1 DEF AsInt, Wrap
<1>4. CASE i < 0
  <2>1. i + w \in 0 .. (w - 1) /\ w > 0 /\ i = (-1) * w + (i + w)
    BY <1>1, <1>2, <1>4
  <2>2. i % w = i + w
    BY <2>1, <1>2, DividedOnce
  <2>3. i + w \in 0 .. Word - 1 /\ i + w >= h
    BY <2>1, <1>1, <1>2
  <2>4. PICK v \in 0 .. Word - 1 : v = i + w /\ v >= h
    BY <2>3
  <2>5. Signed(v) = v - 2 * h
    BY <2>4, <1>1, SignedIs
  <2>6. v - 2 * h = i
    BY <2>4, <1>1, <1>2
  <2>7. Wrap(i) = v
    BY <2>2, <2>4, <1>1 DEF Wrap
  <2> QED BY <2>5, <2>6, <2>7 DEF AsInt
<1> QED BY <1>2, <1>3, <1>4

(* A word that is positive as an int has no more zeros before its first    *)
(* bit than that leaves room for.                                          *)
LEMMA LeadingZerosIs ==
  ASSUME NEW w \in 0 .. Word - 1
  PROVE  /\ LeadingZeros(w) \in 0 .. W - 1
         /\ w > 0 /\ w < Word \div 2 =>
              /\ w * 2 ^ LeadingZeros(w) >= Word \div 2
              /\ \A c \in 0 .. W - 1 : w * 2 ^ c >= Word \div 2 => LeadingZeros(w) <= c
<1>1. PICK h \in Nat : h = Word \div 2 /\ h > 0 /\ h = 2 ^ (W - 1)
  BY Halfs
<1>2. W - 1 \in Nat /\ W \in Nat
  BY Widths
<1>3. CASE Signed(w) <= 0
  <2>1. LeadingZeros(w) = 0
    BY <1>3 DEF LeadingZeros
  <2>2. ~ (w > 0 /\ w < h)
    BY <1>1, <1>3, SignedIs
  <2> QED BY <2>1, <2>2, <1>1, <1>2
<1>4. CASE ~ Signed(w) <= 0
  <2> DEFINE S == {c \in 0 .. W - 1 : w * 2 ^ c >= Word \div 2}
  <2>1. LeadingZeros(w) = Min(S)
    BY <1>4 DEF LeadingZeros
  <2>2. w \in Nat /\ w >= 1
    <3>1. w = 0 => Signed(w) = 0
      BY <1>1, SignedIs
    <3> QED BY <3>1, <1>4
  <2>3. W - 1 \in S
    <3>1. 1 * h =< w * h
      BY <2>2, ProductGrows
    <3> QED BY <3>1, <1>1, <1>2
  <2>4. S \subseteq Nat /\ S # {}
    BY <2>3, <1>2
  <2>5. Min(S) \in S /\ \A c \in S : Min(S) <= c
    <3> HIDE DEF S
    <3> QED BY <2>4, MinOf
  <2>6. LeadingZeros(w) \in S /\ \A c \in S : LeadingZeros(w) <= c
    <3> HIDE DEF S
    <3> QED BY <2>1, <2>5
  <2> QED BY <2>6
<1> QED BY <1>3, <1>4

LEMMA LogBType ==
  ASSUME NEW hx \in Nat, hx < Word \div 2, NEW lx \in 0 .. Word - 1
  PROVE  LogB(hx, lx) \in -(Bias + H + W - 1) .. Bias + 1
<1>1. PICK g \in Nat, h \in Nat : g = 2 ^ H /\ g > 0 /\ h = Word \div 2 /\ h = (MaxExp + 1) * g
  BY Halfs
<1>2. PICK q \in Nat, m \in Nat, k \in Nat, j \in Nat :
        q = Bias /\ m = MaxExp /\ m = 2 * q + 1 /\ k = H /\ j = W /\ j > k
  BY Widths
<1>3. CASE hx >= 2 ^ H
  <2>1. hx < (m + 1) * g
    BY <1>1, <1>2
  <2>2. hx \div g < m + 1
    BY <2>1, <1>1, QuotientBelow
  <2>3. PICK e \in Nat : e = hx \div g
    BY <1>1, Quotients
  <2>4. LogB(hx, lx) = e - Bias
    BY <2>3, <1>1, <1>3 DEF LogB
  <2> QED BY <2>2, <2>3, <2>4, <1>2
<1>4. CASE ~ hx >= 2 ^ H /\ hx = 0
  <2>1. PICK z \in Nat : z = LeadingZeros(lx) /\ z <= j - 1
    BY <1>2, LeadingZerosIs
  <2>2. LogB(hx, lx) = -(Bias + H) - z
    BY <2>1, <1>4 DEF LogB
  <2> QED BY <2>1, <2>2, <1>2
<1>5. CASE ~ hx >= 2 ^ H /\ hx # 0
  <2>1. Shl(hx, E) \in 0 .. Word - 1
    <3>1. E \in Nat /\ hx \in Int
      BY Widths
    <3>2. Shl(hx, E) \in 0 .. Word - 1
      BY <3>1, ShiftType
    <3> QED BY <3>2
  <2>2. PICK z \in Nat : z = LeadingZeros(Shl(hx, E)) /\ z <= j - 1
    BY <2>1, <1>2, LeadingZerosIs
  <2>3. LogB(hx, lx) = -(Bias - 1) - z
    BY <2>2, <1>5 DEF LogB
  <2> QED BY <2>2, <2>3, <1>2
<1> QED BY <1>3, <1>4, <1>5

(* The exponents of two numbers, and the difference of them, are ints.     *)
LEMMA LogBInts ==
  ASSUME NEW c \in Doubles, NEW d \in Doubles
  PROVE  /\ LogB(Magnitude(c), c.lo) \in Ints
         /\ LogB(Magnitude(c), c.lo) - LogB(Magnitude(d), d.lo) \in Ints
<1>1. /\ Magnitude(c) \in Nat /\ Magnitude(c) < Word \div 2 /\ c.lo \in 0 .. Word - 1
      /\ Magnitude(d) \in Nat /\ Magnitude(d) < Word \div 2 /\ d.lo \in 0 .. Word - 1
  BY DoubleIs DEF Doubles
<1>2. PICK q \in Nat, m \in Nat, k \in Nat, j \in Nat :
        q = Bias /\ m = MaxExp /\ m = 2 * q + 1 /\ k = H /\ j = W /\ k + j + 2 < m /\ j >= 1 /\ q >= 4 /\ k >= 1
  BY Widths
<1>3. PICK h \in Nat : h = Word \div 2 /\ h >= 2 * (m + 1)
  <2>1. PICK g \in Nat, h \in Nat : g = 2 ^ H /\ h = Word \div 2 /\ h = (MaxExp + 1) * g
    BY Halfs
  <2>2. k < 2 ^ k
    BY PowerType
  <2>3. 2 <= g
    BY <2>1, <2>2, <1>2
  <2>4. 2 * (m + 1) =< g * (m + 1)
    BY <2>3, ProductGrows
  <2> QED BY <2>1, <2>4, <1>2
<1>4. PICK u \in Int : u = LogB(Magnitude(c), c.lo) /\ -(q + k + j - 1) <= u /\ u <= q + 1
  BY <1>1, <1>2, LogBType
<1>5. PICK v \in Int : v = LogB(Magnitude(d), d.lo) /\ -(q + k + j - 1) <= v /\ v <= q + 1
  BY <1>1, <1>2, LogBType
<1>6. u \in -h .. h - 1 /\ u - v \in -h .. h - 1
  BY <1>2, <1>3, <1>4, <1>5
<1> QED BY <1>3, <1>4, <1>5, <1>6 DEF Ints

LEMMA NormalizedType ==
  ASSUME NEW hx \in Nat, hx < Word \div 2, NEW lx \in 0 .. Word - 1
  PROVE  Normalized(hx, lx) \in Doubles
<1>1. PICK shift \in Int : shift = -(Bias - 1) - LogB(hx, lx)
  <2>1. LogB(hx, lx) \in Int
    BY LogBType, Widths
  <2> QED BY <2>1, Widths
<1>2. PICK g \in Nat, h \in Nat, w \in Nat :
        g = 2 ^ H /\ g > 0 /\ w = Word /\ w = 2 * h /\ h > 0 /\ g + g <= w
  <2>1. PICK g \in Nat, h \in Nat, m \in Nat :
          g = 2 ^ H /\ g > 0 /\ Word = 2 * h /\ h > 0 /\ h = (m + 1) * g
    BY Halfs, Widths
  <2>2. 1 * g =< (m + 1) * g
    BY ProductGrows
  <2> QED BY <2>1, <2>2
<1>3. W \in Nat /\ hx \in Int /\ lx \in Int
  BY <1>2, Widths
<1>4. 0 \in 0 .. Word - 1
  BY <1>2
<1>5. CASE shift <= 0
  <2>1. hx % g \in Nat /\ hx % g < g
    BY <1>2, Quotients
  <2>2. g + (hx % g) \in 0 .. w - 1
    BY <2>1, <1>2
  <2>3. Normalized(hx, lx) = Double(2 ^ H + (hx % 2 ^ H), lx)
    BY <1>1, <1>5 DEF Normalized
  <2> QED BY <2>2, <2>3, <1>2 DEF Double, Doubles
<1>6. CASE ~ shift <= 0 /\ shift < W
  <2>1. shift \in Nat /\ W - shift \in Nat
    BY <1>3, <1>6
  <2>2. Shl(hx, shift) \in 0 .. Word - 1 /\ Shl(lx, shift) \in 0 .. Word - 1
    BY <2>1, <1>3, ShiftType
  <2>3. Sar(lx, W - shift) \in 0 .. Word - 1
    BY <2>1, ShiftRight
  <2>4. BitOr(Shl(hx, shift), Sar(lx, W - shift)) \in 0 .. Word - 1
    <3>1. Shl(hx, shift) \in Nat /\ Sar(lx, W - shift) \in Nat
      BY <2>2, <2>3, <1>2
    <3> QED BY <3>1, BitOrType
  <2>5. Normalized(hx, lx) = Double(BitOr(Shl(hx, shift), Sar(lx, W - shift)), Shl(lx, shift))
    BY <1>1, <1>6 DEF Normalized
  <2> QED BY <2>2, <2>4, <2>5 DEF Double, Doubles
<1>7. CASE ~ shift <= 0 /\ ~ shift < W
  <2>1. shift - W \in Nat
    BY <1>3, <1>7
  <2>2. Shl(lx, shift - W) \in 0 .. Word - 1
    BY <2>1, <1>3, ShiftType
  <2>3. Normalized(hx, lx) = Double(Shl(lx, shift - W), 0)
    BY <1>1, <1>7 DEF Normalized
  <2> QED BY <2>2, <2>3, <1>4 DEF Double, Doubles
<1> QED BY <1>5, <1>6, <1>7

LEMMA ReductionType ==
  ASSUME NEW u \in Doubles, NEW v \in Doubles
  PROVE  /\ Minus(u, v) \in Doubles
         /\ Twice(u, Sar(u.lo, W - 1)) \in Doubles /\ Twice(u, TopBit(u.lo)) \in Doubles
<1>1. u.hi \in Int /\ u.lo \in Int /\ v.hi \in Int /\ v.lo \in Int /\ u.lo \in 0 .. Word - 1
  BY DoubleIs DEF Doubles
<1>2. Minus(u, v) \in Doubles
  <2>1. PICK c \in {0, 1} : c = IF Less(u.lo, v.lo) THEN 1 ELSE 0
    OBVIOUS
  <2>2. (u.hi - v.hi) - c \in Int /\ u.lo - v.lo \in Int
    BY <1>1
  <2>3. Wrap((u.hi - v.hi) - c) \in 0 .. Word - 1 /\ Wrap(u.lo - v.lo) \in 0 .. Word - 1
    BY <2>2, WrapType
  <2> QED BY <2>1, <2>3 DEF Minus, Double, Doubles
<1>3. ASSUME NEW c \in Int PROVE Twice(u, c) \in Doubles
  <2>1. 2 * u.hi + c \in Int
    BY <1>1
  <2>2. Shl(u.lo, 1) \in 0 .. Word - 1
    <3>1. PICK one \in Nat : one = 1
      OBVIOUS
    <3> QED BY <3>1, <1>1, ShiftType
  <2> QED BY <2>1, <2>2, WrapType DEF Twice, Double, Doubles
<1>4. W - 1 \in Nat
  BY Widths
<1>5. Sar(u.lo, W - 1) \in Int /\ Shr(u.lo, W - 1) \in Int
  BY <1>1, <1>4, ShiftRight, WordIs
<1> QED BY <1>2, <1>3, <1>5 DEF TopBit

LEMMA PackedType ==
  ASSUME NEW sx \in {0, Word \div 2}, NEW u \in Doubles, NEW e \in Int
  PROVE  Packed(sx, u, e) \in Doubles
<1>1. PICK shift \in Int : shift = -(Bias - 1) - e
  <2>1. Bias \in Int
    BY Widths
  <2>2. -(Bias - 1) - e \in Int
    BY <2>1
  <2> QED BY <2>2
<1>2. PICK h \in Nat, w \in Nat, g \in Nat, q \in Nat :
        w = Word /\ h = Word \div 2 /\ w = 2 * h /\ h > 0 /\ g = 2 ^ H /\ q = Bias
  BY Halfs, Widths
<1>3. u.hi \in 0 .. Word - 1 /\ u.lo \in 0 .. Word - 1 /\ u.hi \in Int
  BY <1>2 DEF Doubles
<1>4. sx \in 0 .. Word - 1 /\ sx \in Nat
  BY <1>2
<1>5. W \in Nat /\ H \in Nat /\ H < W
  BY Widths
<1>6. CASE shift <= 0
  <2>1. PICK i \in Nat : i = Wrap(u.hi - 2 ^ H)
    <3>1. u.hi - 2 ^ H \in Int
      BY <1>2, <1>3
    <3> QED BY <3>1, WrapType
  <2>2. PICK j \in Nat : j = Wrap((e + Bias) * 2 ^ H)
    <3>1. (e + q) * g \in Int
      OBVIOUS
    <3>2. (e + Bias) * 2 ^ H \in Int
      BY <3>1, <1>2
    <3> QED BY <3>2, WrapType
  <2>3. PICK k \in Nat : k = BitOr(i, j)
    BY <1>2, BitOrType
  <2>4. BitOr(k, sx) \in 0 .. Word - 1
    BY <1>4, BitOrType
  <2>5. Packed(sx, u, e) = Double(BitOr(k, sx), u.lo)
    BY <2>1, <2>2, <2>3, <1>1, <1>6 DEF Packed
  <2> QED BY <2>4, <2>5, <1>3 DEF Double, Doubles
<1>7. CASE ~ shift <= 0 /\ shift <= H
  <2>1. shift \in Nat /\ W - shift \in Nat
    BY <1>5, <1>7
  <2>2. PICK i \in Nat, j \in Nat, k \in Nat :
          i = Shr(u.hi, shift) /\ j = Sar(u.lo, shift) /\ k = Shl(u.hi, W - shift)
    <3>1. Shr(u.hi, shift) \in 0 .. Word - 1 /\ Sar(u.lo, shift) \in 0 .. Word - 1
      BY <2>1, <1>3, ShiftRight
    <3>2. Shl(u.hi, W - shift) \in 0 .. Word - 1
      BY <2>1, <1>3, ShiftType
    <3> QED BY <3>1, <3>2, <1>2
  <2>3. BitOr(i, sx) \in 0 .. Word - 1 /\ BitOr(j, k) \in 0 .. Word - 1
    BY <1>4, BitOrType
  <2>4. Packed(sx, u, e) = Double(BitOr(i, sx), BitOr(j, k))
    BY <2>2, <1>1, <1>7 DEF Packed
  <2> QED BY <2>3, <2>4 DEF Double, Doubles
<1>8. CASE ~ shift <= 0 /\ ~ shift <= H /\ shift < W
  <2>1. shift \in Nat /\ W - shift \in Nat
    BY <1>5, <1>8
  <2>2. PICK j \in Nat, k \in Nat : j = Sar(u.lo, shift) /\ k = Shl(u.hi, W - shift)
    <3>1. Sar(u.lo, shift) \in 0 .. Word - 1
      BY <2>1, <1>3, ShiftRight
    <3>2. Shl(u.hi, W - shift) \in 0 .. Word - 1
      BY <2>1, <1>3, ShiftType
    <3> QED BY <3>1, <3>2, <1>2
  <2>3. BitOr(k, j) \in 0 .. Word - 1
    BY BitOrType
  <2>4. Packed(sx, u, e) = Double(sx, BitOr(k, j))
    BY <2>2, <1>1, <1>8 DEF Packed
  <2> QED BY <2>3, <2>4, <1>4 DEF Double, Doubles
<1>9. CASE ~ shift <= 0 /\ ~ shift <= H /\ ~ shift < W
  <2>1. PICK k \in Nat : k = (shift - W) % W
    <3>1. W > 0 /\ shift - W \in Int
      BY Widths
    <3> QED BY <3>1, <1>5, Divided
  <2>2. Shr(u.hi, k) \in 0 .. Word - 1
    BY <1>3, ShiftRight
  <2>3. Packed(sx, u, e) = Double(sx, Shr(u.hi, k))
    BY <2>1, <1>1, <1>9 DEF Packed
  <2> QED BY <2>2, <2>3, <1>4 DEF Double, Doubles
<1> QED BY <1>6, <1>7, <1>8, <1>9

LEMMA SignedRange == \A i \in Ints : i \in Int
BY Halfs DEF Ints

(* What answers a number keeps the types. *)
LEMMA AnswerType ==
  ASSUME TypeOK, NEW d \in Doubles, Answer(d), UNCHANGED errno
  PROVE  TypeOK'
<1>1. Zero(0) \in Doubles /\ 0 \in Ints
  <2>1. PICK h \in Nat : h = Word \div 2 /\ h > 0 /\ Word = 2 * h
    BY Halfs
  <2> QED BY <2>1 DEF Zero, Double, Doubles, Ints
<1> QED BY <1>1 DEF Answer, TypeOK, Ints

LEMMA InitType == Init => TypeOK
<1>1. Zero(0) \in Doubles /\ 0 \in Ints
  <2>1. PICK h \in Nat : h = Word \div 2 /\ h > 0 /\ Word = 2 * h
    BY Halfs
  <2> QED BY <2>1 DEF Zero, Double, Doubles, Ints
<1> QED BY <1>1 DEF Init, TypeOK, Ints

LEMMA CallOneType ==
  ASSUME TypeOK, CallOne
  PROVE  TypeOK'
<1>1. x \in Doubles /\ errno \in {-1, 0} /\ UNCHANGED fmodVars
  BY DEF TypeOK, CallOne
<1>2. SUFFICES x' \in Doubles /\ errno' \in {-1, 0}
  BY <1>1 DEF TypeOK, fmodVars
<1>3. CASE ClearErrno
  BY <1>1, <1>3 DEF ClearErrno
<1>4. ASSUME NEW d \in Doubles, Return(d) PROVE x' \in Doubles /\ errno' \in {-1, 0}
  BY <1>1, <1>4 DEF Return
<1>5. CASE Return(floor(x)) \/ Return(ceil(x)) \/ Return(fabs(x))
  <2>1. floor(x) \in Doubles /\ ceil(x) \in Doubles
    <3>1. Negative(x) \in BOOLEAN /\ (~ Negative(x)) \in BOOLEAN
      BY DEF Negative
    <3> QED BY <3>1, <1>1, IntegralType DEF floor, ceil
  <2> QED BY <2>1, <1>1, <1>4, <1>5, FabsIs
<1>6. CASE Return(modf(x).integral) \/ Return(modf(x).fraction) \/ Return(frexp(x).fraction)
  BY <1>1, <1>4, <1>6, ModfIs, FrexpType
<1>7. CASE \E whole \in BOOLEAN : Return(sqrt(x, whole))
  BY <1>1, <1>4, <1>7, SqrtType
<1>8. CASE \E exp \in Exponents : ldexp(x, exp)
  <2>1. PICK i \in Exponents : ldexp(x, i)
    BY <1>8
  <2>2. CASE ~ finite(x) \/ IsZero(x)
    BY <2>1, <2>2, <1>1, <1>4 DEF ldexp
  <2>3. CASE ~ (~ finite(x) \/ IsZero(x))
    <3>1. x' = scalbn(x, i) /\ errno' \in {-1, errno}
      BY <2>1, <2>3 DEF ldexp
    <3> QED BY <3>1, <1>1, ScalbnType
  <2> QED BY <2>2, <2>3
<1> QED BY <1>3, <1>5, <1>6, <1>7, <1>8 DEF CallOne

LEMMA StartType ==
  ASSUME TypeOK, Start
  PROVE  TypeOK'
<1>1. x \in Doubles /\ y \in Doubles /\ UNCHANGED errno
  BY DEF TypeOK, Start
<1>2. SignBit(x) \in {0, Word \div 2} /\ NaN \in Doubles
  BY <1>1, DoubleIs, NaNIs
<1>3. Zero(SignBit(x)) \in Doubles
  BY <1>2, ZeroIs
<1> DEFINE hx == Magnitude(x)
           hy == Magnitude(y)
<1>4. \/ Answer(NaN) \/ Answer(x) \/ Answer(Zero(SignBit(x)))
      \/ /\ a' = Normalized(hx, x.lo) /\ b' = Normalized(hy, y.lo)
         /\ iy' = LogB(hy, y.lo) /\ n' = LogB(hx, x.lo) - LogB(hy, y.lo)
         /\ pc' = "reduce" /\ UNCHANGED <<x, y>>
  <2>1. CASE Invalid(x, y)
    BY <2>1 DEF Start
  <2>2. CASE ~ Invalid(x, y) /\ (hx < hy \/ (hx = hy /\ Less(x.lo, y.lo)))
                             /\ ~ (hx = hy /\ x.lo = y.lo)
    BY <2>2 DEF Start
  <2>3. CASE ~ Invalid(x, y) /\ hx = hy /\ x.lo = y.lo
    <3>1. ~ Less(x.lo, y.lo) /\ ~ hx < hy
      <4>1. x.lo \in 0 .. Word - 1 /\ Magnitude(x) \in Nat
        BY <1>1, DoubleIs DEF Doubles
      <4>2. PICK h \in Nat : h = Word \div 2
        BY Halfs
      <4>3. Signed(x.lo) \in -h .. h - 1
        BY <4>1, <4>2, SignedIs
      <4> QED BY <4>1, <4>2, <4>3, <2>3 DEF Less
    <3> QED BY <3>1, <2>3 DEF Start
  <2>4. CASE ~ Invalid(x, y) /\ ~ (hx < hy \/ (hx = hy /\ Less(x.lo, y.lo)))
                             /\ ~ (hx = hy /\ x.lo = y.lo)
    BY <2>4 DEF Start
  <2> QED BY <2>1, <2>2, <2>3, <2>4
<1>5. CASE Answer(NaN) \/ Answer(x) \/ Answer(Zero(SignBit(x)))
  BY <1>1, <1>2, <1>3, <1>5, AnswerType
<1>6. CASE /\ a' = Normalized(hx, x.lo) /\ b' = Normalized(hy, y.lo)
           /\ iy' = LogB(hy, y.lo) /\ n' = LogB(hx, x.lo) - LogB(hy, y.lo)
           /\ pc' = "reduce" /\ UNCHANGED <<x, y>>
  <2>1. /\ hx \in Nat /\ hx < Word \div 2 /\ x.lo \in 0 .. Word - 1
        /\ hy \in Nat /\ hy < Word \div 2 /\ y.lo \in 0 .. Word - 1
    BY <1>1, DoubleIs DEF Doubles
  <2>2. Normalized(hx, x.lo) \in Doubles /\ Normalized(hy, y.lo) \in Doubles
    BY <2>1, NormalizedType
  <2>3. LogB(hy, y.lo) \in Ints /\ LogB(hx, x.lo) - LogB(hy, y.lo) \in Ints
    BY <1>1, LogBInts
  <2> QED BY <2>2, <2>3, <1>1, <1>6 DEF TypeOK, Ints
<1> QED BY <1>4, <1>5, <1>6

LEMMA ReduceType ==
  ASSUME TypeOK, Reduce
  PROVE  TypeOK'
<1> DEFINE z == Minus(a, b)
<1>1. x \in Doubles /\ a \in Doubles /\ b \in Doubles /\ n \in Int /\ UNCHANGED errno
  BY SignedRange DEF TypeOK, Reduce, Ints
<1>2. CASE Answer(Zero(SignBit(x)))
  <2>1. Zero(SignBit(x)) \in Doubles
    BY <1>1, DoubleIs, ZeroIs
  <2> QED BY <2>1, <1>1, <1>2, AnswerType
<1>3. CASE /\ a' = IF Signed(z.hi) < 0 THEN Twice(a, Sar(a.lo, W - 1)) ELSE Twice(z, TopBit(z.lo))
           /\ n' = AsInt(n - 1) /\ UNCHANGED <<x, pc, y, b, iy>>
  <2>1. z \in Doubles
    BY <1>1, ReductionType
  <2> HIDE DEF z
  <2>2. Twice(a, Sar(a.lo, W - 1)) \in Doubles /\ Twice(z, TopBit(z.lo)) \in Doubles
    BY <2>1, <1>1, ReductionType
  <2>3. a' \in Doubles
    BY <2>2, <1>3
  <2>4. n' \in Ints
    <3>1. n - 1 \in Int
      BY <1>1
    <3> QED BY <3>1, <1>3, AsIntType
  <2> QED BY <2>3, <2>4, <1>1, <1>3 DEF TypeOK, Ints
<1> QED BY <1>2, <1>3 DEF Reduce

LEMMA EndReductionType ==
  ASSUME TypeOK, EndReduction
  PROVE  TypeOK'
<1>1. x \in Doubles /\ a \in Doubles /\ b \in Doubles /\ UNCHANGED errno
  BY DEF TypeOK, EndReduction
<1>2. CASE Answer(Zero(SignBit(x)))
  <2>1. Zero(SignBit(x)) \in Doubles
    BY <1>1, DoubleIs, ZeroIs
  <2> QED BY <2>1, <1>1, <1>2, AnswerType
<1>3. CASE /\ a' = LastSubtraction /\ pc' = "renormalize" /\ UNCHANGED <<x, y, b, iy, n>>
  <2>1. LastSubtraction \in Doubles
    BY <1>1, ReductionType DEF LastSubtraction
  <2> QED BY <2>1, <1>1, <1>3 DEF TypeOK
<1> QED BY <1>2, <1>3 DEF EndReduction

LEMMA RenormalizeType ==
  ASSUME TypeOK, Renormalize
  PROVE  TypeOK'
<1>1. a \in Doubles /\ iy \in Int
  BY SignedRange DEF TypeOK, Ints
<1>2. Twice(a, Sar(a.lo, W - 1)) \in Doubles
  BY <1>1, ReductionType
<1>3. AsInt(iy - 1) \in Ints
  <2>1. iy - 1 \in Int
    BY <1>1
  <2> QED BY <2>1, AsIntType
<1> QED BY <1>2, <1>3 DEF Renormalize, TypeOK, Ints

LEMMA PackType ==
  ASSUME TypeOK, Pack
  PROVE  TypeOK'
<1>1. x \in Doubles /\ a \in Doubles /\ iy \in Int /\ UNCHANGED errno /\ Answer(Packed(SignBit(x), a, iy))
  BY SignedRange DEF TypeOK, Ints, Pack
<1>2. Packed(SignBit(x), a, iy) \in Doubles
  BY <1>1, DoubleIs, PackedType
<1> QED BY <1>1, <1>2, AnswerType

LEMMA NextType ==
  ASSUME TypeOK, [Next]_vars
  PROVE  TypeOK'
<1>1. CASE CallOne
  BY <1>1, CallOneType
<1>2. CASE CallFmod
  <2>1. y' \in Doubles
    BY <1>2, ArgumentAssumption DEF CallFmod
  <2> QED BY <2>1, <1>2 DEF CallFmod, TypeOK
<1>3. CASE Start
  BY <1>3, StartType
<1>4. CASE Reduce
  BY <1>4, ReduceType
<1>5. CASE EndReduction
  BY <1>5, EndReductionType
<1>6. CASE Renormalize
  BY <1>6, RenormalizeType
<1>7. CASE Pack
  BY <1>7, PackType
<1>8. CASE UNCHANGED vars
  BY <1>8 DEF vars, fmodVars, TypeOK
<1> QED BY <1>1, <1>2, <1>3, <1>4, <1>5, <1>6, <1>7, <1>8 DEF Next, fmod

(* Every function of the library answers a double, and fmod keeps whole    *)
(* words and exponents that are ints, whatever it is called for.           *)
THEOREM TypeCorrect == Spec => []TypeOK
<1>1. Init => TypeOK
  BY InitType
<1>2. TypeOK /\ [Next]_vars => TypeOK'
  BY NextType
<1> QED BY <1>1, <1>2, PTL DEF Spec

(* floor, ceil, modf and frexp take every number apart without a loss.     *)
THEOREM TakesApart == Spec => []PartsAreExact
<1>1. TypeOK => PartsAreExact
  <2>1. TypeOK => x \in Doubles
    BY DEF TypeOK
  <2> QED BY <2>1, PartsExact
<1> QED BY <1>1, TypeCorrect, PTL

(* Rounding does not see a common factor. *)
LEMMA NearestScaled ==
  ASSUME NEW u \in Nat, NEW k \in Nat, NEW s \in Nat
  PROVE  Nearest(u * 2 ^ s, k + s) = Nearest(u, k)
<1>1. /\ 2 ^ s \in Nat /\ 2 ^ s > 0 /\ 2 ^ k \in Nat /\ 2 ^ k > 0
      /\ 2 ^ (k + s) = 2 ^ k * 2 ^ s
  BY PowerType, PowerOfSum
<1>2. PICK S \in Nat, K \in Nat : S = 2 ^ s /\ K = 2 ^ k /\ S > 0 /\ K > 0 /\ 2 ^ (k + s) = K * S
  BY <1>1
<1>3. (u * S) \div (K * S) = u \div K /\ (u * S) % (K * S) = (u % K) * S
  BY <1>2, DividedScaled
<1>4. u % K \in 0 .. K - 1 /\ u \div K \in Int
  BY <1>2, Divided
<1>5. PICK r \in Nat, q \in Int : r = u % K /\ q = u \div K
  BY <1>4
<1>6. (2 * (r * S) > K * S <=> 2 * r > K) /\ (2 * (r * S) = K * S <=> 2 * r = K)
  <2>1. 2 * (r * S) = (2 * r) * S
    BY <1>2, <1>5
  <2>2. 2 * r > K => (2 * r) * S > K * S
    BY <1>2, <1>5, FactorsOrdered
  <2>3. 2 * r < K => (2 * r) * S < K * S
    BY <1>2, <1>5, FactorsOrdered
  <2>4. 2 * r \in Nat /\ (2 * r) * S \in Nat /\ K * S \in Nat
    BY <1>2, <1>5
  <2> QED BY <2>1, <2>2, <2>3, <2>4, <1>2, <1>5
<1>7. Nearest(u * 2 ^ s, k + s) =
        IF 2 * (r * S) > K * S \/ (2 * (r * S) = K * S /\ q % 2 = 1) THEN q + 1 ELSE q
  BY <1>2, <1>3, <1>5 DEF Nearest
<1>8. Nearest(u, k) = IF 2 * r > K \/ (2 * r = K /\ q % 2 = 1) THEN q + 1 ELSE q
  BY <1>2, <1>5 DEF Nearest
<1> QED BY <1>6, <1>7, <1>8

LEMMA NearestExact ==
  ASSUME NEW g \in Nat, NEW k \in Nat
  PROVE  Nearest(g * 2 ^ k, k) = g
<1>1. PICK K \in Nat : K = 2 ^ k /\ K > 0
  BY PowerType
<1>2. g * K = g * K + 0 /\ 0 \in 0 .. K - 1 /\ g * K \in Nat
  BY <1>1
<1>3. (g * K) \div K = g /\ (g * K) % K = 0
  BY <1>1, <1>2, Multiple
<1> QED BY <1>1, <1>3 DEF Nearest

(* What is rounded to zero. *)
LEMMA NearestZero ==
  ASSUME NEW u \in Nat, NEW k \in Nat
  PROVE  Nearest(u, k) = 0 <=> 2 * u <= 2 ^ k
<1>1. PICK K \in Nat : K = 2 ^ k /\ K > 0
  BY PowerType
<1>2. PICK q \in Nat, r \in 0 .. K - 1 : q = u \div K /\ r = u % K /\ u = q * K + r
  BY <1>1, Quotients
<1>3. Nearest(u, k) = IF 2 * r > K \/ (2 * r = K /\ q % 2 = 1) THEN q + 1 ELSE q
  BY <1>1, <1>2 DEF Nearest
<1>4. CASE q = 0
  <2>1. u = r
    BY <1>1, <1>2, <1>4
  <2>2. ~ q % 2 = 1
    BY <1>4
  <2> QED BY <1>1, <1>2, <1>3, <1>4, <2>1, <2>2
<1>5. CASE q > 0
  <2>1. 1 * K <= q * K
    BY <1>1, <1>2, <1>5, ProductGrows
  <2>2. u >= K /\ 2 * u > K
    BY <1>1, <1>2, <2>1
  <2> QED BY <1>1, <1>2, <1>3, <1>5, <2>2
<1> QED BY <1>2, <1>4, <1>5

(* scalbn in terms of the significand g of the number made normal. *)
LEMMA ScalbnUnits ==
  ASSUME NEW d \in Doubles, finite(d), ~ IsZero(d), NEW i \in Exponents
  PROVE  \E g \in Nat, s \in {0, P + 2}, t \in 0 .. MaxExp - 2 :
           LET r == scalbn(d, i)
               e == t + 1 - s + i
           IN  /\ i \in Int /\ e \in Int /\ g >= 2 ^ P /\ g < 2 * 2 ^ P /\ Units(d) * 2 ^ s = g * 2 ^ t
               /\ r \in Doubles
               /\ e >= MaxExp => r = Infinity(SignBit(d))
               /\ e \in 1 .. MaxExp - 1 =>
                    SignBit(r) = SignBit(d) /\ finite(r) /\ Units(r) = g * 2 ^ (e - 1)
               /\ e \in -(P + 1) .. 0 =>
                    SignBit(r) = SignBit(d) /\ finite(r) /\ Units(r) = Nearest(g * 2 ^ (e + P + 1), P + 2)
               /\ e <= -(P + 2) => r = Zero(SignBit(d))
<1> DEFINE scaled == Exponent(d) = 0
           normal == IF scaled THEN TimesTwo54(d) ELSE d
           shift  == IF scaled THEN P + 2 ELSE 0
           e      == Exponent(normal) - shift + i
           r      == scalbn(d, i)
           gg     == 2 ^ P + Fraction(normal)
<1>1. /\ normal \in Doubles /\ SignBit(normal) = SignBit(d)
      /\ Exponent(normal) \in 1 .. MaxExp - 1 /\ Units(normal) = Units(d) * 2 ^ shift
  BY NormalIs
<1>2. /\ i \in Int /\ e \in Int
      /\ e >= MaxExp => r = Infinity(SignBit(d))
      /\ e \in 1 .. MaxExp - 1 => r = WithExponent(normal, e)
      /\ e \in -(P + 1) .. 0 => r = TimesTwom54(WithExponent(normal, e + P + 2))
      /\ e <= -(P + 2) => r = Zero(SignBit(d))
  BY ScalbnCases
<1>3. r \in Doubles
  BY ScalbnType
<1>4. P \in Nat /\ MaxExp \in Nat /\ P + 2 < MaxExp
  BY Widths
<1>5. shift \in {0, P + 2}
  OBVIOUS
<1> HIDE DEF scaled, normal, shift, r
<1>6. /\ Units(normal) = (2 ^ P + Fraction(normal)) * 2 ^ (Exponent(normal) - 1)
      /\ Fraction(normal) \in Nat /\ Fraction(normal) < 2 ^ P
  <2>1. Exponent(normal) >= 1
    BY <1>1, <1>4
  <2> QED BY <1>1, <2>1, NormalUnits
<1>7. 2 ^ P \in Nat /\ 2 ^ P > 0
  BY <1>4, PowerType
<1>8. gg \in Nat /\ gg >= 2 ^ P /\ gg < 2 * 2 ^ P
  BY <1>6, <1>7
<1>9. ASSUME NEW k \in 1 .. MaxExp - 1
      PROVE  LET c == WithExponent(normal, k)
             IN  c \in Doubles /\ SignBit(c) = SignBit(d) /\ Units(c) = gg * 2 ^ (k - 1) /\ finite(c)
  <2>1. k \in 1 .. MaxExp /\ k < MaxExp
    BY <1>4
  <2> QED BY <1>1, <2>1, WithExponentUnits
<1>10. SignBit(d) \in {0, Word \div 2}
  BY DoubleIs
<1> HIDE DEF gg
<1>11. ASSUME e \in -(P + 1) .. 0
       PROVE  SignBit(r) = SignBit(d) /\ finite(r) /\ Units(r) = Nearest(gg * 2 ^ (e + P + 1), P + 2)
  <2>1. PICK k \in 1 .. P + 2 : k = e + P + 2
    BY <1>2, <1>4, <1>11
  <2>2. k \in 1 .. MaxExp - 1 /\ k - 1 = e + P + 1 /\ k - 1 \in Nat
    BY <2>1, <1>2, <1>4
  <2> DEFINE c == WithExponent(normal, k)
             v == Nearest(gg * 2 ^ (k - 1), P + 2)
  <2>3. SignBit(c) = SignBit(d) /\ Units(c) = gg * 2 ^ (k - 1)
    BY <1>9, <2>2
  <2>4. r = Encode(SignBit(d), v)
    BY <1>2, <1>11, <2>1, <2>3 DEF TimesTwom54
  <2>5. v \in Nat /\ v <= 2 ^ P
    <3>1. PICK Q \in Nat, G \in Nat, T \in Nat : Q = 2 ^ P /\ G = gg /\ T = 2 ^ (k - 1) /\ G < 2 * Q
      BY <1>7, <1>8, <2>2, PowerType
    <3>2. 2 ^ (P + 2) = Q * 4 /\ 2 ^ (P + 2) \in Nat /\ 2 ^ (P + 2) > 0
      <4>1. 2 ^ (P + 1) = 2 * Q /\ 2 ^ ((P + 1) + 1) = 2 * 2 ^ (P + 1)
        BY <1>4, <3>1, PowerDoubles
      <4>2. (P + 1) + 1 = P + 2
        BY <1>4
      <4> QED BY <1>7, <3>1, <4>1, <4>2
    <3>3. T <= 2 * Q
      <4>1. k - 1 \in 0 .. P + 1 /\ P + 1 \in Nat
        BY <2>1, <1>4
      <4>2. 2 ^ (k - 1) <= 2 ^ (P + 1) /\ 2 ^ (P + 1) = 2 * 2 ^ P
        BY <4>1, <1>4, PowerSplits, PowerDoubles
      <4> QED BY <4>2, <3>1
    <3>4. G * T \in Nat /\ G * T < Q * 2 ^ (P + 2)
      <4>1. G * T \in Nat /\ G * T <= G * (2 * Q)
        BY <3>1, <3>3, ProductGrows
      <4>2. G * (2 * Q) + 2 * Q <= (2 * Q) * (2 * Q)
        BY <3>1, <1>7, FactorsOrdered
      <4>3. (2 * Q) * (2 * Q) = Q * (Q * 4) /\ G * (2 * Q) \in Nat /\ Q > 0
        BY <3>1, <1>7
      <4> QED BY <4>1, <4>2, <4>3, <3>2
    <3>5. (G * T) \div 2 ^ (P + 2) < Q /\ P + 2 \in Nat
      BY <3>1, <3>2, <3>4, <1>4, QuotientBelow
    <3>6. /\ Nearest(G * T, P + 2) \in Nat /\ (G * T) \div 2 ^ (P + 2) \in Nat
          /\ Nearest(G * T, P + 2) \in {(G * T) \div 2 ^ (P + 2), ((G * T) \div 2 ^ (P + 2)) + 1}
      BY <3>4, <3>5, NearestType
    <3>7. Nearest(G * T, P + 2) <= Q
      BY <3>1, <3>5, <3>6
    <3> QED BY <3>1, <3>6, <3>7
  <2> HIDE DEF v
  <2>6. v < 2 * 2 ^ P /\ v * 2 ^ 0 = v /\ v * 2 ^ 0 < 2 ^ (P + (MaxExp - 1))
    <3>1. v * 2 ^ 0 = v
      BY <2>5, PowerOfZero
    <3>2. P + (MaxExp - 1) \in Nat /\ P + 1 \in 0 .. P + (MaxExp - 1)
      BY <1>4
    <3>3. 2 ^ (P + 1) = 2 * 2 ^ P /\ 2 ^ (P + 1) <= 2 ^ (P + (MaxExp - 1))
      BY <1>4, <3>2, PowerDoubles, PowerSplits
    <3>4. 2 ^ (P + (MaxExp - 1)) \in Nat
      BY <3>2, PowerType
    <3> QED BY <1>7, <2>5, <3>1, <3>3, <3>4
  <2>7. finite(Encode(SignBit(d), v)) /\ SignBit(Encode(SignBit(d), v)) = SignBit(d) /\ Units(Encode(SignBit(d), v)) = v
    <3>1. 0 \in Nat /\ v \in Nat /\ v < 2 * 2 ^ P /\ v * 2 ^ 0 < 2 ^ (P + (MaxExp - 1))
      BY <2>5, <2>6
    <3>2. LET c1 == Encode(SignBit(d), v * 2 ^ 0)
          IN  SignBit(c1) = SignBit(d) /\ finite(c1) /\ Units(c1) = v * 2 ^ 0
      BY <1>10, <3>1, EncodedExactly
    <3> QED BY <2>6, <3>2
  <2> QED BY <2>2, <2>4, <2>7 DEF v
<1>12. ASSUME e \in 1 .. MaxExp - 1
       PROVE  SignBit(r) = SignBit(d) /\ finite(r) /\ Units(r) = gg * 2 ^ (e - 1)
  BY <1>2, <1>9, <1>12
<1>13. PICK t \in 0 .. MaxExp - 2 : t = Exponent(normal) - 1
  BY <1>1, <1>4
<1>14. e = t + 1 - shift + i
  BY <1>1, <1>13, <1>2, <1>5, <1>4
<1>15. Units(d) * 2 ^ shift = gg * 2 ^ t
  BY <1>1, <1>6, <1>13 DEF gg
<1> HIDE DEF e
<1>16. LET ee == t + 1 - shift + i
       IN  /\ i \in Int /\ ee \in Int /\ gg >= 2 ^ P /\ gg < 2 * 2 ^ P /\ Units(d) * 2 ^ shift = gg * 2 ^ t
           /\ r \in Doubles
           /\ ee >= MaxExp => r = Infinity(SignBit(d))
           /\ ee \in 1 .. MaxExp - 1 =>
                SignBit(r) = SignBit(d) /\ finite(r) /\ Units(r) = gg * 2 ^ (ee - 1)
           /\ ee \in -(P + 1) .. 0 =>
                SignBit(r) = SignBit(d) /\ finite(r) /\ Units(r) = Nearest(gg * 2 ^ (ee + P + 1), P + 2)
           /\ ee <= -(P + 2) => r = Zero(SignBit(d))
  <2>1. i \in Int /\ e \in Int
    BY <1>2 DEF e
  <2> QED BY <2>1, <1>2, <1>3, <1>8, <1>11, <1>12, <1>14, <1>15
<1> QED BY <1>5, <1>8, <1>16 DEF r

LEMMA MinOfTwo ==
  ASSUME NEW j \in Nat, NEW k \in Nat
  PROVE  Min({j, k}) = IF j <= k THEN j ELSE k
<1>1. {j, k} \subseteq Nat /\ {j, k} # {}
  OBVIOUS
<1>2. Min({j, k}) \in {j, k} /\ \A c \in {j, k} : Min({j, k}) <= c
  BY <1>1, MinOf
<1> QED BY <1>2

(* No finite number has as many units as a double of exponent MaxExp. *)
LEMMA UnitsBelow ==
  ASSUME NEW d \in Doubles, finite(d)
  PROVE  Units(d) < 2 ^ (P + (MaxExp - 1)) /\ 2 ^ (P + (MaxExp - 1)) \in Nat
<1>1. P \in Nat /\ MaxExp \in Nat /\ P + 2 < MaxExp /\ Power(d) - 1 \in 0 .. MaxExp - 2
  <2>1. Exponent(d) \in 0 .. MaxExp - 1 /\ MaxExp \in Nat /\ P \in Nat /\ P + 2 < MaxExp
    BY DoubleIs, Widths
  <2>2. Power(d) = IF Exponent(d) = 0 THEN 1 ELSE Exponent(d)
    BY SignificandIs
  <2> QED BY <2>1, <2>2
<1>2. PICK p \in Nat, t \in Nat, m \in Nat :
        p = P /\ m = MaxExp - 2 /\ t = Power(d) - 1 /\ t <= m /\ p + 1 + m = P + (MaxExp - 1)
  BY <1>1
<1>3. Significand(d) \in Nat /\ Significand(d) < 2 * 2 ^ P /\ Units(d) = Significand(d) * 2 ^ (Power(d) - 1)
  BY SignificandIs
<1>4. /\ 2 ^ t \in Nat /\ 2 ^ t > 0 /\ 2 ^ (p + 1) = 2 * 2 ^ p /\ 2 ^ (p + 1) \in Nat
      /\ 2 ^ (p + 1 + m) = 2 ^ (p + 1) * 2 ^ m /\ 2 ^ t <= 2 ^ m /\ 2 ^ m \in Nat
  <2>1. t \in 0 .. m /\ p + 1 \in Nat
    BY <1>2
  <2> QED BY <2>1, PowerType, PowerDoubles, PowerOfSum, PowerSplits
<1>5. PICK g \in Nat, Q \in Nat, T \in Nat, M \in Nat :
        g = Significand(d) /\ Q = 2 ^ (p + 1) /\ T = 2 ^ t /\ M = 2 ^ m
  BY <1>3, <1>4
<1>6. g < Q /\ T <= M /\ T > 0
  BY <1>2, <1>3, <1>4, <1>5
<1>7. g * T + T <= Q * T /\ g * T \in Nat
  BY <1>5, <1>6, FactorsOrdered
<1>8. T * Q <= M * Q /\ M * Q \in Nat /\ T * Q \in Nat
  BY <1>5, <1>6, ProductGrows
<1>9. T * Q = Q * T /\ M * Q = Q * M
  BY <1>5
<1>10. g * T < Q * M /\ Q * M \in Nat
  BY <1>5, <1>6, <1>7, <1>8, <1>9
<1>11. Units(d) = g * T /\ 2 ^ (P + (MaxExp - 1)) = Q * M
  BY <1>2, <1>3, <1>4, <1>5
<1> QED BY <1>10, <1>11

(* Too large for a double, as a product. *)
LEMMA OverflowsProduct ==
  ASSUME NEW u \in Nat, u > 0, NEW i \in Nat
  PROVE  Overflows(u, i) <=> u * 2 ^ i >= 2 ^ (P + (MaxExp - 1))
<1>1. P \in Nat /\ MaxExp \in Nat /\ P + 2 < MaxExp
  BY Widths
<1>2. PICK k \in Nat : k = P + (MaxExp - 1) /\ k = P + MaxExp - 1
  BY <1>1
<1>3. PICK I \in Nat, K \in Nat : I = 2 ^ i /\ K = 2 ^ k /\ I > 0 /\ K > 0
  BY <1>2, PowerType
<1>4. u * I \in Nat
  BY <1>3
<1>7. Overflows(u, i) <=> u * I >= K
  <2>1. CASE i >= k
    <3>1. K <= I
      BY <2>1, <1>2, <1>3, PowerSplits
    <3>2. 1 * I <= u * I
      BY <1>3, ProductGrows
    <3>3. Overflows(u, i)
      BY <2>1, <1>2 DEF Overflows
    <3> QED BY <1>3, <1>4, <3>1, <3>2, <3>3
  <2>2. CASE i < k
    <3>1. PICK c \in Nat : c = k - i /\ c = P + MaxExp - 1 - i
      BY <2>2, <1>1, <1>2
    <3>2. PICK C \in Nat : C = 2 ^ c /\ K = I * C /\ C > 0
      <4>1. k = i + c
        BY <3>1
      <4>2. 2 ^ (i + c) = 2 ^ i * 2 ^ c
        BY PowerOfSum
      <4>3. 2 ^ c \in Nat /\ 2 ^ c > 0
        BY PowerType
      <4>4. K = I * 2 ^ c
        BY <4>1, <4>2, <1>3
      <4> QED BY <4>3, <4>4
    <3>3. Overflows(u, i) <=> u >= C
      BY <2>2, <3>1, <3>2, <1>1, <1>2 DEF Overflows
    <3>4. u >= C => C * I <= u * I
      BY <3>2, <1>3, ProductGrows
    <3>5. u < C => u * I + I <= C * I
      BY <3>2, <1>3, FactorsOrdered
    <3>6. C * I = I * C /\ C * I \in Nat
      BY <3>2, <1>3
    <3> QED BY <1>3, <1>4, <3>2, <3>3, <3>4, <3>5, <3>6
  <2> QED BY <1>2, <2>1, <2>2
<1> QED BY <1>2, <1>3, <1>7

(* Too large for a double, as multiples of a power of two. *)
LEMMA OverflowIs ==
  ASSUME NEW u \in Nat, u > 0, NEW i \in Nat, NEW g \in Nat, g >= 2 ^ P, g < 2 * 2 ^ P, NEW t \in Nat,
         u * 2 ^ i = g * 2 ^ t
  PROVE  Overflows(u, i) <=> t >= MaxExp - 1
<1>1. P \in Nat /\ MaxExp \in Nat /\ P + 2 < MaxExp
  BY Widths
<1>2. PICK p \in Nat, m \in Nat, k \in Nat : p = P /\ m = MaxExp - 1 /\ k = p + m /\ k = P + MaxExp - 1
  BY <1>1
<1>3. PICK Q \in Nat, I \in Nat, T \in Nat, M \in Nat, K \in Nat :
        /\ Q = 2 ^ p /\ I = 2 ^ i /\ T = 2 ^ t /\ M = 2 ^ m /\ K = 2 ^ k
        /\ Q > 0 /\ I > 0 /\ T > 0 /\ M > 0 /\ K = Q * M
  <2>1. 2 ^ (p + m) = 2 ^ p * 2 ^ m
    BY PowerOfSum
  <2>2. k = p + m
    BY <1>2
  <2> QED BY <2>1, <2>2, PowerType
<1>4. g >= Q /\ g < 2 * Q /\ u * I = g * T /\ u * I \in Nat
  BY <1>2, <1>3
<1>5. t >= m => u * I >= K
  <2>1. SUFFICES ASSUME t >= m PROVE u * I >= K
    OBVIOUS
  <2>2. M <= T
    BY <2>1, <1>2, <1>3, PowerSplits
  <2>3. M * Q <= T * Q /\ Q * T <= g * T /\ g * T \in Nat
    BY <2>2, <1>3, <1>4, ProductGrows
  <2>4. M * Q = Q * M /\ T * Q = Q * T /\ T * Q \in Nat /\ M * Q \in Nat
    BY <1>3
  <2> QED BY <2>3, <2>4, <1>3, <1>4
<1>6. t < m => u * I < K
  <2>1. SUFFICES ASSUME t < m PROVE u * I < K
    OBVIOUS
  <2>2. 2 * T <= M
    BY <2>1, <1>2, <1>3, PowerSplits
  <2>3. g * T + T <= (2 * Q) * T /\ g * T \in Nat
    BY <1>3, <1>4, FactorsOrdered
  <2>4. (2 * T) * Q <= M * Q
    BY <2>2, <1>3, ProductGrows
  <2>5. (2 * T) * Q = (2 * Q) * T /\ M * Q = Q * M /\ M * Q \in Nat /\ (2 * Q) * T \in Nat
    BY <1>3
  <2> QED BY <2>3, <2>4, <2>5, <1>3, <1>4
<1>7. Overflows(u, i) <=> u * I >= K
  BY <1>2, <1>3, OverflowsProduct
<1>8. K \in Nat /\ (t >= m <=> t >= MaxExp - 1)
  BY <1>2, <1>3
<1> QED BY <1>2, <1>3, <1>4, <1>5, <1>6, <1>7, <1>8

LEMMA Downwards ==
  ASSUME NEW u \in Nat, NEW i \in Int, i < 0, NEW j \in Nat, j = -i,
         NEW k \in Nat, k = IF j <= P + MaxExp + 1 THEN j ELSE P + MaxExp + 1
  PROVE  /\ ~ Overflows(u, i) /\ Scaled(u, i) = Nearest(u, k)
         /\ Underflows(u, i) <=> Nearest(u, k) = 0
<1>1. P \in Nat /\ MaxExp \in Nat /\ P + MaxExp + 1 \in Nat
  BY Widths
<1>2. Min({j, P + MaxExp + 1}) = k
  BY <1>1, MinOfTwo
<1>3. Min({-i, P + MaxExp + 1}) = k
  BY <1>2
<1>4. ~ i >= 0
  OBVIOUS
<1>5. ~ Overflows(u, i) /\ Scaled(u, i) = Nearest(u, k)
  BY <1>3, <1>4 DEF Overflows, Scaled
<1>6. Underflows(u, i) <=> 2 * u <= 2 ^ k
  BY <1>3 DEF Underflows
<1>7. Nearest(u, k) = 0 <=> 2 * u <= 2 ^ k
  BY NearestZero
<1> QED BY <1>5, <1>6, <1>7

LEMMA UnitsOfZero ==
  ASSUME NEW d \in Doubles, finite(d)
  PROVE  RangeError(d) <=> Units(d) = 0
<1>1. IsZero(d) <=> Units(d) = 0
  <2>1. CASE IsZero(d)
    <3>1. Bits(d) = 0 /\ Exponent(d) = 0
      <4>1. Bits(d) = 0 /\ Magnitude(d) = 0
        BY <2>1, DoubleIs DEF IsZero
      <4>2. Exponent(d) = 0 \div 2 ^ H
        BY <4>1 DEF Exponent
      <4>3. 2 ^ H \in Nat /\ 2 ^ H > 0
        BY Halfs
      <4>4. 0 \div 2 ^ H = 0
        BY <4>3, DividedSmall
      <4> QED BY <4>1, <4>2, <4>4
    <3> QED BY <3>1, <2>1, UnitsAre
  <2>2. CASE ~ IsZero(d)
    <3>1. Units(d) > 0 /\ Units(d) \in Nat
      BY <2>2, NormalIs
    <3> QED BY <2>2, <3>1
  <2> QED BY <2>1, <2>2
<1> QED BY <1>1 DEF RangeError

(* scalbn rounds once, and reports what is out of range. *)
LEMMA ScalesOnce ==
  ASSUME NEW d \in Doubles, finite(d), ~ IsZero(d), NEW i \in Exponents
  PROVE  LET r == scalbn(d, i)
         IN  /\ SignBit(r) = SignBit(d)
             /\ IF Overflows(Units(d), i) THEN r = Infinity(SignBit(d))
                ELSE finite(r) /\ Units(r) = Scaled(Units(d), i)
             /\ RangeError(r) <=> Overflows(Units(d), i) \/ Underflows(Units(d), i)
<1> DEFINE r == scalbn(d, i)
           u == Units(d)
           Goal == /\ SignBit(r) = SignBit(d)
                   /\ IF Overflows(u, i) THEN r = Infinity(SignBit(d))
                      ELSE finite(r) /\ Units(r) = Scaled(u, i)
                   /\ RangeError(r) <=> Overflows(u, i) \/ Underflows(u, i)
<1>1. PICK g \in Nat, s \in {0, P + 2}, t \in 0 .. MaxExp - 2 :
           LET e == t + 1 - s + i
           IN  /\ i \in Int /\ e \in Int /\ g >= 2 ^ P /\ g < 2 * 2 ^ P /\ Units(d) * 2 ^ s = g * 2 ^ t
               /\ r \in Doubles
               /\ e >= MaxExp => r = Infinity(SignBit(d))
               /\ e \in 1 .. MaxExp - 1 =>
                    SignBit(r) = SignBit(d) /\ finite(r) /\ Units(r) = g * 2 ^ (e - 1)
               /\ e \in -(P + 1) .. 0 =>
                    SignBit(r) = SignBit(d) /\ finite(r) /\ Units(r) = Nearest(g * 2 ^ (e + P + 1), P + 2)
               /\ e <= -(P + 2) => r = Zero(SignBit(d))
  BY ScalbnUnits
<1>2. PICK p \in Nat, m \in Nat : p = P /\ m = MaxExp /\ p + 2 < m
  BY Widths
<1>3. PICK e \in Int : e = t + 1 - s + i
  BY <1>1
<1>4. /\ i \in Int /\ g >= 2 ^ P /\ g < 2 * 2 ^ P /\ u * 2 ^ s = g * 2 ^ t /\ r \in Doubles
      /\ e >= m => r = Infinity(SignBit(d))
      /\ e \in 1 .. m - 1 =>
           SignBit(r) = SignBit(d) /\ finite(r) /\ Units(r) = g * 2 ^ (e - 1)
      /\ e \in -(p + 1) .. 0 =>
           SignBit(r) = SignBit(d) /\ finite(r) /\ Units(r) = Nearest(g * 2 ^ (e + p + 1), p + 2)
      /\ e <= -(p + 2) => r = Zero(SignBit(d))
  BY <1>1, <1>2, <1>3
<1>5. s \in Nat /\ t \in Nat /\ t <= m - 2 /\ (s = 0 \/ s = p + 2)
  BY <1>2
<1>6. u \in Nat /\ u > 0
  BY NormalIs
<1>7. SignBit(d) \in {0, Word \div 2}
  BY DoubleIs
<1>8. u < 2 ^ (P + (MaxExp - 1)) /\ 2 ^ (P + (MaxExp - 1)) \in Nat
  BY UnitsBelow
<1> HIDE DEF r, u
<1>20. ASSUME NEW c \in Nat, NEW k \in Nat, t + c = s + k
       PROVE  u * 2 ^ c = g * 2 ^ k
  <2>0. /\ u * 2 ^ s = g * 2 ^ t /\ s \in Nat /\ t \in Nat /\ u \in Nat /\ g \in Nat
        /\ c \in Nat /\ k \in Nat /\ t + c = s + k
    BY <1>4, <1>5, <1>6, <1>20
  <2>1. /\ 2 ^ s \in Nat /\ 2 ^ s > 0 /\ 2 ^ t \in Nat /\ 2 ^ c \in Nat /\ 2 ^ k \in Nat
    BY <2>0, PowerType
  <2>2. 2 ^ (t + c) = 2 ^ t * 2 ^ c /\ 2 ^ (s + k) = 2 ^ s * 2 ^ k
    BY <2>0, PowerOfSum
  <2>3. PICK S \in Nat, T \in Nat, C \in Nat, K \in Nat :
          S = 2 ^ s /\ S > 0 /\ T = 2 ^ t /\ C = 2 ^ c /\ K = 2 ^ k
    BY <2>1
  <2>4. u * S = g * T /\ T * C = S * K
    BY <2>0, <2>2, <2>3
  <2>5. u * C \in Nat /\ g * K \in Nat
    BY <2>0, <2>3
  <2>6. (u * C) * S = (u * S) * C /\ (g * T) * C = g * (T * C) /\ g * (S * K) = (g * K) * S
    BY <2>0, <2>3
  <2>7. (u * C) * S = (g * K) * S
    BY <2>4, <2>6
  <2>8. u * C = g * K
    BY <2>3, <2>5, <2>7, Cancelled
  <2> QED BY <2>3, <2>8
<1>9. ASSUME e >= m PROVE Goal
  <2>1. r = Infinity(SignBit(d)) /\ SignBit(r) = SignBit(d) /\ ~ finite(r)
    BY <1>4, <1>7, <1>9, InfinityIs
  <2>2. i \in Nat /\ e - 1 \in Nat /\ t + i = s + (e - 1)
    BY <1>2, <1>3, <1>4, <1>5, <1>9
  <2>3. u * 2 ^ i = g * 2 ^ (e - 1)
    BY <1>20, <2>2
  <2>4. Overflows(u, i) <=> e - 1 >= MaxExp - 1
    BY <1>4, <1>6, <2>2, <2>3, OverflowIs
  <2>5. Overflows(u, i)
    BY <2>4, <1>2, <1>9
  <2> QED BY <2>1, <2>5 DEF RangeError
<1>10. ASSUME e < m, e >= 1, i >= 0 PROVE Goal
  <2>1. SignBit(r) = SignBit(d) /\ finite(r) /\ Units(r) = g * 2 ^ (e - 1)
    BY <1>4, <1>2, <1>10
  <2>2. i \in Nat /\ e - 1 \in Nat /\ t + i = s + (e - 1)
    BY <1>3, <1>4, <1>5, <1>10
  <2>3. u * 2 ^ i = g * 2 ^ (e - 1)
    BY <1>20, <2>2
  <2>4. Overflows(u, i) <=> e - 1 >= MaxExp - 1
    BY <1>4, <1>6, <2>2, <2>3, OverflowIs
  <2>5. ~ Overflows(u, i)
    BY <2>4, <1>2, <1>10
  <2>6. Units(r) = Scaled(u, i)
    BY <2>1, <2>3, <1>10 DEF Scaled
  <2>7. Units(r) # 0
    <3>1. PICK I \in Nat : I = 2 ^ i /\ I > 0
      BY <2>2, PowerType
    <3>2. 1 * I <= u * I
      BY <3>1, <1>6, ProductGrows
    <3> QED BY <2>1, <2>3, <3>1, <3>2
  <2>8. ~ RangeError(r)
    BY <2>1, <2>7, <1>4, UnitsOfZero
  <2>9. ~ Underflows(u, i)
    BY <1>4, <1>10 DEF Underflows
  <2> QED BY <2>1, <2>5, <2>6, <2>8, <2>9
<1>11. ASSUME e < m, e >= -(p + 1), e <= 0, i >= 0 PROVE Goal
  <2>1. SignBit(r) = SignBit(d) /\ finite(r) /\ Units(r) = Nearest(g * 2 ^ (e + p + 1), p + 2)
    BY <1>4, <1>2, <1>11
  <2>2. i + (p + 2) \in Nat /\ e + p + 1 \in Nat /\ t + (i + (p + 2)) = s + (e + p + 1) /\ i \in Nat
    BY <1>3, <1>4, <1>5, <1>11
  <2>3. u * 2 ^ (i + (p + 2)) = g * 2 ^ (e + p + 1)
    BY <1>20, <2>2
  <2>4. PICK I \in Nat, K \in Nat : I = 2 ^ i /\ K = 2 ^ (p + 2) /\ 2 ^ (i + (p + 2)) = I * K /\ I > 0
    <3>1. p + 2 \in Nat
      OBVIOUS
    <3> QED BY <2>2, <3>1, PowerType, PowerOfSum
  <2>5. u * (I * K) = (u * I) * K /\ u * I \in Nat
    BY <1>6, <2>4
  <2>6. Nearest((u * I) * 2 ^ (p + 2), p + 2) = u * I
    <3>1. p + 2 \in Nat
      OBVIOUS
    <3> QED BY <2>5, <3>1, NearestExact
  <2>7. Units(r) = u * I
    BY <2>1, <2>3, <2>4, <2>5, <2>6
  <2>8. 1 * I <= u * I
    BY <2>4, <1>6, ProductGrows
  <2>9. Units(r) # 0
    BY <2>4, <2>7, <2>8
  <2>10. ~ RangeError(r)
    BY <2>1, <2>9, <1>4, UnitsOfZero
  <2>11. ~ Underflows(u, i)
    BY <1>4, <1>11 DEF Underflows
  <2>12. Units(r) = Scaled(u, i)
    BY <2>4, <2>7, <1>11 DEF Scaled
  <2>13. ~ Overflows(u, i)
    <3>1. Units(r) < 2 ^ (P + (MaxExp - 1)) /\ 2 ^ (P + (MaxExp - 1)) \in Nat
      BY <1>4, <2>1, UnitsBelow
    <3>2. Overflows(u, i) <=> u * 2 ^ i >= 2 ^ (P + (MaxExp - 1))
      BY <1>6, <2>2, OverflowsProduct
    <3> QED BY <2>4, <2>5, <2>7, <3>1, <3>2
  <2> QED BY <2>1, <2>10, <2>11, <2>12, <2>13
<1>12. ASSUME e <= -(p + 2), i >= 0 PROVE Goal
  <2>1. t + 1 - s + i >= 1 - (p + 2)
    BY <1>4, <1>5, <1>12
  <2> QED BY <1>3, <1>12, <2>1
<1>13. ASSUME e < m, i < 0 PROVE Goal
  <2>1. PICK j \in Nat : j = -i /\ j > 0
    BY <1>4, <1>13
  <2>2. PICK top \in Nat : top = P + MaxExp + 1 /\ top = p + m + 1
    BY <1>2
  <2>3. PICK k \in Nat : k = IF j <= top THEN j ELSE top
    OBVIOUS
  <2>4. /\ ~ Overflows(u, i) /\ Scaled(u, i) = Nearest(u, k)
        /\ Underflows(u, i) <=> Nearest(u, k) = 0
    <3>1. k = IF j <= P + MaxExp + 1 THEN j ELSE P + MaxExp + 1
      BY <2>2, <2>3
    <3> QED BY <1>4, <1>6, <1>13, <2>1, <3>1, Downwards
  <2>5. ASSUME SignBit(r) = SignBit(d), finite(r), Units(r) = Nearest(u, k) PROVE Goal
    <3>1. RangeError(r) <=> Nearest(u, k) = 0
      BY <1>4, <2>5, UnitsOfZero
    <3> QED BY <2>4, <2>5, <3>1
  <2> HIDE DEF Goal
  <2>6. t + 1 + (p + m) \in Int /\ (e > -(p + 2) => k = j)
    BY <1>2, <1>3, <1>4, <1>5, <2>1, <2>2, <2>3
  <2>7. CASE e >= 1
    <3>1. SignBit(r) = SignBit(d) /\ finite(r) /\ Units(r) = g * 2 ^ (e - 1)
      BY <1>4, <1>2, <1>13, <2>7
    <3>2. e - 1 \in Nat /\ (e - 1) + j \in Nat /\ t + 0 = s + ((e - 1) + j) /\ 0 \in Nat
      BY <1>3, <1>4, <1>5, <2>1, <2>7
    <3>3. u * 2 ^ 0 = g * 2 ^ ((e - 1) + j)
      BY <1>20, <3>2
    <3>4. PICK T \in Nat, J \in Nat : T = 2 ^ (e - 1) /\ J = 2 ^ j /\ 2 ^ ((e - 1) + j) = T * J
      BY <3>2, PowerType, PowerOfSum
    <3>5. u = (g * T) * J /\ g * T \in Nat
      BY <1>6, <3>3, <3>4, PowerOfZero
    <3>6. Nearest((g * T) * 2 ^ j, j) = g * T
      BY <3>5, NearestExact
    <3>7. Units(r) = Nearest(u, k)
      BY <2>6, <2>7, <3>1, <3>4, <3>5, <3>6
    <3> QED BY <2>5, <3>1, <3>7
  <2>8. CASE e >= -(p + 1) /\ e <= 0
    <3>1. SignBit(r) = SignBit(d) /\ finite(r) /\ Units(r) = Nearest(g * 2 ^ (e + p + 1), p + 2)
      BY <1>4, <1>2, <2>8
    <3>2. p + 2 \in Nat /\ e + p + 1 \in Nat /\ (e + p + 1) + j \in Nat /\ t + (p + 2) = s + ((e + p + 1) + j)
      BY <1>3, <1>4, <1>5, <2>1, <2>8
    <3>3. u * 2 ^ (p + 2) = g * 2 ^ ((e + p + 1) + j)
      BY <1>20, <3>2
    <3>4. PICK T \in Nat, J \in Nat : T = 2 ^ (e + p + 1) /\ J = 2 ^ j /\ 2 ^ ((e + p + 1) + j) = T * J
      BY <3>2, PowerType, PowerOfSum
    <3>5. g * (T * J) = (g * T) * J /\ g * T \in Nat
      BY <3>4
    <3>6. Nearest((g * T) * 2 ^ j, (p + 2) + j) = Nearest(g * T, p + 2)
      BY <3>2, <3>5, NearestScaled
    <3>7. Nearest(u * 2 ^ (p + 2), j + (p + 2)) = Nearest(u, j)
      BY <3>2, <1>6, NearestScaled
    <3>8. j + (p + 2) = (p + 2) + j
      BY <2>1
    <3>9. Nearest(g * T, p + 2) = Nearest(u, j)
      BY <3>3, <3>4, <3>5, <3>6, <3>7, <3>8
    <3>10. k = j
      BY <1>2, <1>3, <1>4, <2>6, <2>8
    <3>11. Units(r) = Nearest(u, k)
      BY <3>1, <3>4, <3>9, <3>10
    <3> QED BY <2>5, <3>1, <3>11
  <2>9. CASE e <= -(p + 2)
    <3>1. SignBit(r) = SignBit(d) /\ finite(r) /\ Units(r) = 0
      BY <1>4, <1>7, <2>9, ZeroIs
    <3>2. 2 * u <= 2 ^ k
      <4>1. CASE j <= top
        <5>1. 1 - e \in Nat /\ t + (1 - e) = s + j /\ p + 3 \in 0 .. 1 - e
          BY <1>3, <1>4, <1>5, <2>1, <2>9
        <5>2. u * 2 ^ (1 - e) = g * 2 ^ j
          BY <1>20, <5>1
        <5>3. 2 ^ (p + 3) <= 2 ^ (1 - e)
          BY <5>1, PowerSplits
        <5>4. 2 ^ (p + 3) = 8 * 2 ^ p /\ 2 ^ p \in Nat /\ 2 ^ p > 0
          <6>1. p + 1 \in Nat /\ p + 2 \in Nat /\ (p + 1) + 1 = p + 2 /\ (p + 2) + 1 = p + 3
            OBVIOUS
          <6>2. 2 ^ (p + 1) = 2 * 2 ^ p /\ 2 ^ ((p + 1) + 1) = 2 * 2 ^ (p + 1) /\ 2 ^ ((p + 2) + 1) = 2 * 2 ^ (p + 2)
            BY <6>1, PowerDoubles
          <6>3. 2 ^ p \in Nat /\ 2 ^ p > 0
            BY PowerType
          <6> QED BY <6>1, <6>2, <6>3
        <5>5. PICK Q \in Nat, J \in Nat, L \in Nat :
                Q = 2 ^ p /\ Q > 0 /\ J = 2 ^ j /\ J > 0 /\ L = 2 ^ (1 - e) /\ L >= 8 * Q /\ g < 2 * Q
          BY <1>2, <1>4, <5>1, <5>3, <5>4, PowerType
        <5>6. u * L = g * J
          BY <5>2, <5>5
        <5>7. (8 * Q) * u <= L * u /\ L * u \in Nat /\ (8 * Q) * u \in Nat
          BY <1>6, <5>5, ProductGrows
        <5>8. g * J + J <= (2 * Q) * J /\ g * J \in Nat
          BY <5>5, FactorsOrdered
        <5>9. L * u = u * L /\ (8 * Q) * u = (4 * u) * (2 * Q) /\ (2 * Q) * J = J * (2 * Q)
          BY <1>6, <5>5
        <5>10. (4 * u) * (2 * Q) < J * (2 * Q)
          BY <5>5, <5>6, <5>7, <5>8, <5>9
        <5>11. 4 * u < J
          <6>1. SUFFICES ASSUME J <= 4 * u PROVE FALSE
            BY <1>6, <5>5
          <6>2. J * (2 * Q) <= (4 * u) * (2 * Q) /\ J * (2 * Q) \in Nat /\ (4 * u) * (2 * Q) \in Nat
            BY <6>1, <1>6, <5>5, ProductGrows
          <6> QED BY <5>10, <6>2
        <5> QED BY <1>6, <2>3, <4>1, <5>5, <5>11
      <4>2. CASE j > top
        <5>1. k = top
          BY <2>1, <2>2, <2>3, <4>2
        <5>2. P + (MaxExp - 1) \in 0 .. top /\ P + (MaxExp - 1) < top
          BY <1>2, <2>2
        <5>3. 2 * 2 ^ (P + (MaxExp - 1)) <= 2 ^ top
          BY <5>2, <2>2, PowerSplits
        <5>4. 2 ^ top \in Nat
          BY <2>2, PowerType
        <5> QED BY <1>6, <1>8, <5>1, <5>3, <5>4
      <4> QED BY <2>1, <2>2, <4>1, <4>2
    <3>3. Nearest(u, k) = 0
      BY <1>6, <2>3, <3>2, NearestZero
    <3> QED BY <2>5, <3>1, <3>3
  <2> QED BY <1>3, <1>2, <2>7, <2>8, <2>9
<1>14. r \in Doubles
  BY <1>4
<1> HIDE DEF Goal
<1>15. Goal
  BY <1>2, <1>4, <1>9, <1>10, <1>11, <1>12, <1>13
<1> QED BY <1>15 DEF Goal, r, u

(* The two words that are left of a root. *)
Left(s) == s.ix0 * Word + s.ix1

LEMMA TopBitIs ==
  ASSUME NEW v \in 0 .. Word - 1
  PROVE  TopBit(v) = IF v >= Word \div 2 THEN 1 ELSE 0
<1>1. PICK h \in Nat, w \in Nat : w = Word /\ w = 2 * h /\ h > 0 /\ h = Word \div 2 /\ h = 2 ^ (W - 1)
  BY Halfs
<1>2. PICK u \in Nat : u = v /\ u < w
  BY <1>1
<1>3. TopBit(v) = v \div h
  BY <1>1 DEF TopBit, Shr
<1>4. PICK k \in Int : k = IF u >= h THEN 1 ELSE 0
  OBVIOUS
<1>5. PICK rest \in 0 .. (h - 1) : u = k * h + rest
  <2>1. PICK kh \in Int : kh = k * h /\ kh = IF u >= h THEN h ELSE 0
    <3>1. 0 * h = 0 /\ 1 * h = h
      BY <1>1
    <3> QED BY <1>4, <3>1
  <2>2. u < 2 * h
    BY <1>1, <1>2
  <2>3. kh = IF u >= h THEN h ELSE 0
    BY <2>1, <1>2
  <2>4. u - kh \in 0 .. (h - 1) /\ u = kh + (u - kh)
    BY <2>2, <2>3
  <2> QED BY <2>1, <2>4
<1>6. u \div h = k
  <2>1. h > 0 /\ u \in Int
    BY <1>1, <1>2
  <2> QED BY <1>5, <2>1, DividedOnce
<1> QED BY <1>1, <1>2, <1>3, <1>4, <1>6

LEMMA DoubledIs ==
  ASSUME NEW s \in RootStates, s.ix1 \in 0 .. Word - 1, s.ix0 >= 0
  PROVE  LET t == Doubled(s)
         IN  /\ t \in RootStates /\ t.ix1 \in 0 .. Word - 1 /\ t.ix0 >= 0
             /\ Left(s) \in Nat /\ Left(t) = 2 * Left(s)
             /\ t.s0 = s.s0 /\ t.s1 = s.s1 /\ t.q = s.q /\ t.q1 = s.q1
<1>1. PICK h \in Nat, w \in Nat : w = Word /\ w = 2 * h /\ h > 0 /\ h = Word \div 2
  BY Halfs
<1>2. PICK i0 \in Nat, i1 \in Nat : i0 = s.ix0 /\ i1 = s.ix1 /\ i1 < w
  BY <1>1 DEF RootStates
<1>3. PICK bit \in {0, 1} : bit = TopBit(s.ix1) /\ bit = IF i1 >= h THEN 1 ELSE 0
  BY <1>1, <1>2, TopBitIs
<1>4. Shl(s.ix1, 1) = (2 * i1) % w
  <2>1. 2 ^ 1 = 2
    <3>1. 2 ^ (0 + 1) = 2 * 2 ^ 0 /\ 2 ^ 0 = 1
      BY PowerDoubles, PowerOfZero
    <3> QED BY <3>1
  <2>2. i1 * 2 = 2 * i1
    BY <1>2
  <2> QED BY <1>1, <1>2, <2>1, <2>2 DEF Shl, Wrap
<1>5. (2 * i1) % w = 2 * i1 - bit * w
  <2>1. 2 * i1 - bit * w \in 0 .. w - 1 /\ 2 * i1 = bit * w + (2 * i1 - bit * w)
    BY <1>1, <1>2, <1>3
  <2>2. PICK rest \in 0 .. w - 1, all \in Nat : rest = 2 * i1 - bit * w /\ all = 2 * i1 /\ all = bit * w + rest
    BY <2>1
  <2>3. all % w = rest
    BY <1>1, <2>2, DividedOnce
  <2> QED BY <2>2, <2>3
<1>6. PICK o0 \in Nat, o1 \in 0 .. w - 1 : o0 = 2 * i0 + bit /\ o1 = 2 * i1 - bit * w
  BY <1>1, <1>2, <1>3
<1>7. Doubled(s) = [s EXCEPT !.ix0 = o0, !.ix1 = o1]
  BY <1>2, <1>3, <1>4, <1>5, <1>6 DEF Doubled
<1>8. LET t == Doubled(s)
      IN  t \in RootStates /\ t.ix0 = o0 /\ t.ix1 = o1 /\ t.s0 = s.s0 /\ t.s1 = s.s1 /\ t.q = s.q /\ t.q1 = s.q1
  <2>1. ASSUME NEW k0 \in Int, NEW k1 \in Int
        PROVE  LET t == [s EXCEPT !.ix0 = k0, !.ix1 = k1]
               IN  t \in RootStates /\ t.ix0 = k0 /\ t.ix1 = k1 /\ t.s0 = s.s0 /\ t.s1 = s.s1 /\ t.q = s.q /\ t.q1 = s.q1
    BY DEF RootStates
  <2>2. o0 \in Int /\ o1 \in Int
    BY <1>1
  <2>3. LET t == [s EXCEPT !.ix0 = o0, !.ix1 = o1]
        IN  t \in RootStates /\ t.ix0 = o0 /\ t.ix1 = o1 /\ t.s0 = s.s0 /\ t.s1 = s.s1 /\ t.q = s.q /\ t.q1 = s.q1
    BY <2>1, <2>2
  <2> QED BY <2>3, <1>7
<1>9. o0 * w + o1 = 2 * (i0 * w + i1) /\ i0 * w + i1 \in Nat
  <2>1. PICK k \in Nat : k = bit
    OBVIOUS
  <2>2. (2 * i0 + k) * w = 2 * (i0 * w) + k * w /\ i0 * w \in Nat /\ k * w \in Nat
    BY <2>1
  <2>3. o0 = 2 * i0 + k /\ o1 = 2 * i1 - k * w
    BY <1>6, <2>1
  <2>4. o0 * w + o1 = (2 * (i0 * w) + k * w) + (2 * i1 - k * w)
    BY <2>2, <2>3
  <2> QED BY <2>2, <2>4
<1> QED BY <1>1, <1>2, <1>6, <1>8, <1>9 DEF Left

(* One more bit r of the root of D, whose bits so far are q, when w * (2 * q + r) is taken away. *)
LEMMA OneBit ==
  ASSUME NEW left \in Nat, NEW q \in Nat, NEW r \in Nat, r > 0, NEW w \in Nat, w > 0, NEW D \in Nat,
         left * (2 * r) = 2 * (D - w * (q * q)), left < (2 * w) * (2 * q + 2 * r)
  PROVE  LET t == w * (2 * q + r)
         IN  /\ t \in Nat
             /\ t > left => /\ (2 * left) * r = 2 * (D - w * (q * q))
                            /\ 2 * left < (2 * w) * (2 * q + r)
             /\ t <= left => /\ (2 * (left - t)) * r = 2 * (D - w * ((q + r) * (q + r)))
                             /\ 2 * (left - t) < (2 * w) * (2 * (q + r) + r)
<1>1. PICK wq \in Nat, wr \in Nat : wq = w * q /\ wr = w * r /\ wr > 0
  <2>1. w * r > 0 /\ w * r \in Nat /\ w * q \in Nat
    <3>1. 1 * r <= w * r
      BY ProductGrows
    <3> QED BY <3>1
  <2> QED BY <2>1
<1>2. /\ w * (2 * q + r) = 2 * wq + wr /\ (2 * w) * (2 * q + r) = 2 * (2 * wq + wr)
      /\ (2 * w) * (2 * q + 2 * r) = 4 * wq + 4 * wr
      /\ (2 * w) * (2 * (q + r) + r) = 4 * wq + 6 * wr
  BY <1>1
<1>3. (2 * left) * r = left * (2 * r)
  OBVIOUS
<1>4. (2 * (left - (2 * wq + wr))) * r = left * (2 * r) - 2 * ((2 * wq + wr) * r)
  BY <1>1
<1>5. w * ((q + r) * (q + r)) = w * (q * q) + (2 * wq + wr) * r
  <2>1. (q + r) * (q + r) = q * q + (2 * q + r) * r
    OBVIOUS
  <2>2. w * (q * q + (2 * q + r) * r) = w * (q * q) + w * ((2 * q + r) * r)
    OBVIOUS
  <2>3. w * ((2 * q + r) * r) = (w * (2 * q + r)) * r
    OBVIOUS
  <2> QED BY <2>1, <2>2, <2>3, <1>2
<1>6. w * (q * q) \in Nat /\ (2 * wq + wr) * r \in Nat
  BY <1>1
<1>7. 2 * wq + wr > left => 2 * left < 2 * (2 * wq + wr)
  BY <1>1
<1>8. 2 * (left - (2 * wq + wr)) < 4 * wq + 6 * wr
  BY <1>1, <1>2
<1>9. 2 * wq + wr \in Nat
  BY <1>1
<1>10. (2 * (left - (2 * wq + wr))) * r = 2 * (D - w * ((q + r) * (q + r)))
  BY <1>4, <1>5, <1>6
<1> QED BY <1>2, <1>3, <1>7, <1>8, <1>9, <1>10

(* Before the bits below r of the root's upper word are found. *)
HighInv(s, r, D) ==
  /\ s \in RootStates /\ s.ix1 \in 0 .. Word - 1 /\ s.ix0 >= 0
  /\ s.q >= 0 /\ s.s0 = 2 * s.q /\ s.s1 = 0 /\ s.q1 = 0
  /\ Left(s) * r = 2 * (D - Word * (s.q * s.q))
  /\ Left(s) < (2 * Word) * (2 * s.q + r)

LEMMA HighStepIs ==
  ASSUME NEW s, NEW r \in Nat, r > 0, NEW D \in Nat, HighInv(s, 2 * r, D)
  PROVE  HighInv(HighStep(s, r), r, D)
<1>1. PICK w \in Nat : w = Word /\ w > 0
  BY WordIs
<1>2. /\ s \in RootStates /\ s.ix1 \in 0 .. Word - 1 /\ s.ix0 >= 0
      /\ s.q >= 0 /\ s.s0 = 2 * s.q /\ s.s1 = 0 /\ s.q1 = 0
  BY DEF HighInv
<1>3. PICK q \in Nat, i0 \in Nat, i1 \in Nat : q = s.q /\ i0 = s.ix0 /\ i1 = s.ix1 /\ i1 < w
  BY <1>1, <1>2 DEF RootStates
<1>4. PICK left \in Nat : left = Left(s) /\ left = i0 * w + i1
  BY <1>1, <1>3 DEF Left
<1>5. left * (2 * r) = 2 * (D - w * (q * q)) /\ left < (2 * w) * (2 * q + 2 * r)
  BY <1>1, <1>3, <1>4 DEF HighInv
<1>6. PICK t \in Nat : t = 2 * q + r /\ t = s.s0 + r
  BY <1>2, <1>3
<1>7. PICK tw \in Nat : tw = w * t /\ tw = t * w
  BY <1>6
<1>8. /\ tw > left => /\ (2 * left) * r = 2 * (D - w * (q * q))
                      /\ 2 * left < (2 * w) * (2 * q + r)
      /\ tw <= left => /\ (2 * (left - tw)) * r = 2 * (D - w * ((q + r) * (q + r)))
                       /\ 2 * (left - tw) < (2 * w) * (2 * (q + r) + r)
  <2>1. w > 0
    BY <1>1
  <2>2. LET u == w * (2 * q + r)
        IN  /\ u > left => /\ (2 * left) * r = 2 * (D - w * (q * q))
                           /\ 2 * left < (2 * w) * (2 * q + r)
            /\ u <= left => /\ (2 * (left - u)) * r = 2 * (D - w * ((q + r) * (q + r)))
                            /\ 2 * (left - u) < (2 * w) * (2 * (q + r) + r)
    BY <1>5, <2>1, OneBit
  <2>3. w * (2 * q + r) = tw
    BY <1>6, <1>7
  <2> QED BY <2>2, <2>3
<1>9. t > i0 <=> tw > left
  <2>1. t > i0 => i0 * w + w <= t * w
    BY <1>1, FactorsOrdered
  <2>2. t <= i0 => t * w <= i0 * w /\ i0 * w \in Nat
    BY <1>1, ProductGrows
  <2>3. i0 * w \in Nat
    BY <1>1
  <2> QED BY <2>1, <2>2, <2>3, <1>3, <1>4, <1>7
<1>10. CASE t > i0
  <2>1. HighStep(s, r) = Doubled(s)
    BY <1>3, <1>6, <1>10 DEF HighStep
  <2>2. LET u == Doubled(s)
        IN  /\ u \in RootStates /\ u.ix1 \in 0 .. Word - 1 /\ u.ix0 >= 0 /\ Left(u) = 2 * Left(s)
            /\ u.s0 = s.s0 /\ u.s1 = s.s1 /\ u.q = s.q /\ u.q1 = s.q1
    BY <1>2, DoubledIs
  <2> QED BY <2>1, <2>2, <1>1, <1>2, <1>3, <1>4, <1>8, <1>9, <1>10 DEF HighInv
<1>11. CASE t <= i0
  <2>1. PICK k0 \in Int, k1 \in Int, k2 \in Int : k0 = t + r /\ k1 = i0 - t /\ k2 = q + r
    OBVIOUS
  <2> DEFINE v == [s EXCEPT !.s0 = k0, !.ix0 = k1, !.q = k2]
  <2>2. HighStep(s, r) = Doubled(v)
    <3>1. ~ t > i0
      BY <1>11
    <3> QED BY <3>1, <1>3, <1>6, <2>1 DEF HighStep
  <2>3. v \in RootStates /\ v.ix0 = k1 /\ v.s0 = k0 /\ v.q = k2 /\ v.ix1 = s.ix1 /\ v.s1 = s.s1 /\ v.q1 = s.q1
    BY <1>2 DEF RootStates
  <2> HIDE DEF v
  <2>4. v.ix1 \in 0 .. Word - 1 /\ v.ix0 >= 0
    BY <2>1, <2>3, <1>2, <1>11
  <2>5. LET u == Doubled(v)
        IN  /\ u \in RootStates /\ u.ix1 \in 0 .. Word - 1 /\ u.ix0 >= 0 /\ Left(u) = 2 * Left(v)
            /\ u.s0 = v.s0 /\ u.s1 = v.s1 /\ u.q = v.q /\ u.q1 = v.q1
    BY <2>3, <2>4, DoubledIs
  <2>6. Left(v) = left - tw
    <3>1. (i0 - t) * w = i0 * w - t * w /\ i0 * w \in Nat
      BY <1>1
    <3>2. Left(v) = (i0 - t) * w + i1
      BY <2>1, <2>3, <1>1, <1>3 DEF Left
    <3> QED BY <3>1, <3>2, <1>4, <1>7
  <2>7. k0 = 2 * (q + r) /\ k2 = q + r
    BY <2>1, <1>6
  <2>8. (2 * (left - tw)) * r = 2 * (D - w * ((q + r) * (q + r))) /\ 2 * (left - tw) < (2 * w) * (2 * (q + r) + r)
    BY <1>8, <1>9, <1>11, <1>4, <1>7
  <2> DEFINE u == Doubled(v)
  <2>9. /\ u \in RootStates /\ u.ix1 \in 0 .. Word - 1 /\ u.ix0 >= 0
        /\ u.q = q + r /\ u.s0 = 2 * u.q /\ u.s1 = 0 /\ u.q1 = 0 /\ Left(u) = 2 * (left - tw)
    BY <2>3, <2>5, <2>6, <2>7, <1>2
  <2> HIDE DEF u
  <2>10. HighInv(u, r, D)
    BY <2>8, <2>9, <1>1 DEF HighInv
  <2> QED BY <2>2, <2>10 DEF u
<1> QED BY <1>10, <1>11

Root(s) == s.q * Word + s.q1

(* Before the bits below r of the root's lower word are found. *)
LowInv(s, r, D) ==
  /\ s \in RootStates /\ s.ix1 \in 0 .. Word - 1 /\ s.ix0 >= 0 /\ s.s0 >= 0
  /\ s.q >= 0 /\ s.q1 >= 0 /\ s.s1 \in 0 .. Word - 1
  /\ s.s0 * Word + s.s1 = 2 * Root(s)
  /\ s.s1 + r <= Word /\ \E k \in Nat : s.s1 = k * r
  /\ Left(s) * r = 2 * (D - Root(s) * Root(s))
  /\ Left(s) < 2 * (2 * Root(s) + r)

LEMMA OneLowBit ==
  ASSUME NEW left \in Nat, NEW q \in Nat, NEW r \in Nat, r > 0, NEW D \in Nat,
         left * (2 * r) = 2 * (D - q * q), left < 2 * (2 * q + 2 * r)
  PROVE  LET t == 2 * q + r
         IN  /\ t > left => /\ (2 * left) * r = 2 * (D - q * q)
                            /\ 2 * left < 2 * (2 * q + r)
             /\ t <= left => /\ (2 * (left - t)) * r = 2 * (D - (q + r) * (q + r))
                             /\ 2 * (left - t) < 2 * (2 * (q + r) + r)
<1>1. PICK w \in Nat : w = 1
  OBVIOUS
<1>2. w > 0 /\ w * (q * q) = q * q /\ 2 * w = 2 /\ w * ((q + r) * (q + r)) = (q + r) * (q + r) /\ w * (2 * q + r) = 2 * q + r
  BY <1>1
<1>3. left * (2 * r) = 2 * (D - w * (q * q)) /\ left < (2 * w) * (2 * q + 2 * r)
  BY <1>2
<1>4. LET t == w * (2 * q + r)
      IN  /\ t > left => /\ (2 * left) * r = 2 * (D - w * (q * q))
                         /\ 2 * left < (2 * w) * (2 * q + r)
          /\ t <= left => /\ (2 * (left - t)) * r = 2 * (D - w * ((q + r) * (q + r)))
                          /\ 2 * (left - t) < (2 * w) * (2 * (q + r) + r)
  BY <1>2, <1>3, OneBit
<1> QED BY <1>2, <1>4

(* The lower words of a step do not wrap, but for the first, whose carry goes to the upper ones. *)
LEMMA NoCarry ==
  ASSUME NEW s1 \in Nat, NEW r \in Nat, r > 0, NEW k \in Nat, s1 = k * (2 * r), s1 + 2 * r <= Word,
         NEW c \in Nat, Word = c * (2 * r)
  PROVE  LET t1 == Wrap(s1 + r)
             u1 == Wrap(t1 + r)
             carry == IF TopBit(t1) = 1 /\ TopBit(u1) = 0 THEN 1 ELSE 0
         IN  /\ t1 = s1 + r /\ t1 \in 0 .. Word - 1 /\ u1 \in 0 .. Word - 1
             /\ carry * Word + u1 = s1 + 2 * r /\ carry \in {0, 1}
             /\ u1 + r <= Word /\ \E j \in Nat : u1 = j * r
<1>1. PICK w \in Nat, h \in Nat : w = Word /\ w = 2 * h /\ h = Word \div 2 /\ h > 0
  BY Halfs
<1>2. s1 + 2 * r <= w /\ w = c * (2 * r)
  BY <1>1
<1>3. PICK t1 \in 0 .. w - 1 : t1 = s1 + r
  BY <1>2
<1>4. Wrap(s1 + r) = t1 /\ t1 \in 0 .. Word - 1
  <2>1. w > 0 /\ t1 \in 0 .. (w - 1)
    BY <1>1
  <2>2. t1 % w = t1
    BY <2>1, DividedSmall
  <2> QED BY <1>1, <1>3, <2>2 DEF Wrap
<1>5. TopBit(t1) = IF t1 >= h THEN 1 ELSE 0
  BY <1>1, <1>4, TopBitIs
<1>6. CASE s1 + 2 * r = w
  <2>1. t1 + r = w
    BY <1>3, <1>6
  <2>2. Wrap(t1 + r) = 0
    <3>1. w % w = 0
      <4>1. 1 * w = w /\ w > 0
        BY <1>1
      <4>2. (1 * w) % w = 0
        BY <4>1, Multiple
      <4> QED BY <4>1, <4>2
    <3> QED BY <2>1, <3>1, <1>1 DEF Wrap
  <2>3. 0 \in 0 .. Word - 1 /\ TopBit(0) = 0
    <3>1. 0 \in 0 .. Word - 1 /\ 0 < h
      BY <1>1
    <3>2. TopBit(0) = IF 0 >= Word \div 2 THEN 1 ELSE 0
      BY <3>1, TopBitIs
    <3> QED BY <3>1, <3>2, <1>1
  <2>4. r <= h
    <3>1. c # 0
      BY <1>1, <1>2
    <3>2. 1 * (2 * r) <= c * (2 * r)
      BY <3>1, ProductGrows
    <3> QED BY <3>2, <1>1, <1>2
  <2>5. t1 >= h
    BY <2>1, <2>4, <1>1
  <2>6. TopBit(t1) = 1
    BY <1>5, <2>5
  <2>7. 1 * w + 0 = s1 + 2 * r /\ 0 + r <= w /\ 0 = 0 * r /\ 0 \in Nat /\ 1 * w = w
    BY <1>1, <1>2, <1>6
  <2> QED BY <1>1, <1>3, <1>4, <2>2, <2>3, <2>6, <2>7
<1>7. CASE s1 + 2 * r < w
  <2>1. PICK u1 \in 0 .. w - 1 : u1 = t1 + r /\ u1 = s1 + 2 * r
    BY <1>3, <1>7
  <2>2. Wrap(t1 + r) = u1 /\ u1 \in 0 .. Word - 1
    <3>1. w > 0 /\ u1 \in 0 .. (w - 1)
      BY <1>1
    <3>2. u1 % w = u1
      BY <3>1, DividedSmall
    <3> QED BY <1>1, <2>1, <3>2 DEF Wrap
  <2>3. TopBit(u1) = IF u1 >= h THEN 1 ELSE 0
    BY <1>1, <2>2, TopBitIs
  <2>4. ~ (TopBit(t1) = 1 /\ TopBit(u1) = 0)
    BY <1>5, <2>1, <2>3
  <2>5. u1 = (2 * (k + 1)) * r /\ 2 * (k + 1) \in Nat
    <3>1. (2 * (k + 1)) * r = k * (2 * r) + 2 * r
      OBVIOUS
    <3> QED BY <3>1, <2>1
  <2>6. u1 + r <= w
    <3>1. (k + 1) * (2 * r) = s1 + 2 * r
      OBVIOUS
    <3>2. k + 1 < c
      <4>1. SUFFICES ASSUME c <= k + 1 PROVE FALSE
        OBVIOUS
      <4>2. c * (2 * r) <= (k + 1) * (2 * r)
        BY <4>1, ProductGrows
      <4> QED BY <3>1, <4>2, <1>2, <1>7
    <3>3. (k + 1) * (2 * r) + 2 * r <= c * (2 * r)
      BY <3>2, FactorsOrdered
    <3> QED BY <3>1, <3>3, <2>1, <1>2
  <2>7. 0 * w + u1 = s1 + 2 * r
    BY <2>1
  <2> QED BY <1>1, <1>3, <1>4, <2>1, <2>2, <2>4, <2>5, <2>6, <2>7
<1> QED BY <1>2, <1>6, <1>7

LEMMA LowStepIs ==
  ASSUME NEW s, NEW r \in Nat, r > 0, NEW c \in Nat, Word = c * (2 * r),
         NEW D \in Nat, LowInv(s, 2 * r, D)
  PROVE  LowInv(LowStep(s, r), r, D)
<1>1. PICK w \in Nat : w = Word /\ w > 0
  BY WordIs
<1>2. /\ s \in RootStates /\ s.ix1 \in 0 .. Word - 1 /\ s.ix0 >= 0 /\ s.s0 >= 0
      /\ s.q >= 0 /\ s.q1 >= 0 /\ s.s1 \in 0 .. Word - 1
  BY DEF LowInv
<1>3. PICK q \in Nat, q1 \in Nat, i0 \in Nat, i1 \in Nat, z0 \in Nat, z1 \in Nat :
        /\ q = s.q /\ q1 = s.q1 /\ i0 = s.ix0 /\ i1 = s.ix1 /\ i1 < w
        /\ z0 = s.s0 /\ z1 = s.s1 /\ z1 < w
  <2>1. s.q \in Int /\ s.q1 \in Int /\ s.ix0 \in Int /\ s.s0 \in Int
    BY <1>2 DEF RootStates
  <2>2. s.q \in Nat /\ s.q1 \in Nat /\ s.ix0 \in Nat /\ s.s0 \in Nat
    BY <2>1, <1>2
  <2>3. s.ix1 \in 0 .. w - 1 /\ s.s1 \in 0 .. w - 1
    BY <1>1, <1>2
  <2>4. s.ix1 \in Nat /\ s.ix1 < w /\ s.s1 \in Nat /\ s.s1 < w
    BY <2>3, <1>1
  <2> QED BY <2>2, <2>4
<1>4. PICK left \in Nat : left = Left(s) /\ left = i0 * w + i1
  BY <1>1, <1>3 DEF Left
<1>5. PICK root \in Nat : root = Root(s) /\ root = q * w + q1
  BY <1>1, <1>3 DEF Root
<1>6. /\ left * (2 * r) = 2 * (D - root * root) /\ left < 2 * (2 * root + 2 * r)
      /\ z0 * w + z1 = 2 * root /\ z1 + 2 * r <= w
  BY <1>1, <1>3, <1>4, <1>5 DEF LowInv
<1>7. PICK k \in Nat : z1 = k * (2 * r)
  BY <1>3 DEF LowInv
<1> DEFINE t1    == Wrap(z1 + r)
           u1    == Wrap(t1 + r)
           carry == IF TopBit(t1) = 1 /\ TopBit(u1) = 0 THEN 1 ELSE 0
<1>8. /\ t1 = z1 + r /\ t1 \in 0 .. Word - 1 /\ u1 \in 0 .. Word - 1
      /\ carry * Word + u1 = z1 + 2 * r /\ carry \in {0, 1}
      /\ u1 + r <= Word /\ \E j \in Nat : u1 = j * r
  <2>1. z1 + 2 * r <= Word
    BY <1>1, <1>6
  <2> QED BY <1>7, <2>1, NoCarry
<1>9. LowStep(s, r) =
        Doubled(IF z0 > i0 \/ (z0 = i0 /\ t1 > i1) THEN s
                ELSE [s EXCEPT !.s1 = u1, !.s0 = @ + carry,
                               !.ix0 = @ - s.s0 - IF i1 < t1 THEN 1 ELSE 0,
                               !.ix1 = Wrap(@ - t1), !.q1 = @ + r])
  BY <1>3 DEF LowStep
<1> HIDE DEF u1, t1, carry
<1>10. PICK t \in Nat : t = 2 * root + r /\ t = z0 * w + t1
  BY <1>6, <1>8
<1>11. /\ t > left => /\ (2 * left) * r = 2 * (D - root * root)
                      /\ 2 * left < 2 * (2 * root + r)
       /\ t <= left => /\ (2 * (left - t)) * r = 2 * (D - (root + r) * (root + r))
                       /\ 2 * (left - t) < 2 * (2 * (root + r) + r)
  <2>1. LET u == 2 * root + r
        IN  /\ u > left => /\ (2 * left) * r = 2 * (D - root * root)
                           /\ 2 * left < 2 * (2 * root + r)
            /\ u <= left => /\ (2 * (left - u)) * r = 2 * (D - (root + r) * (root + r))
                            /\ 2 * (left - u) < 2 * (2 * (root + r) + r)
    BY <1>6, OneLowBit
  <2> QED BY <2>1, <1>10
<1>12. PICK v1 \in Nat : v1 = t1 /\ v1 < w
  BY <1>1, <1>8
<1>13. (z0 > i0 \/ (z0 = i0 /\ v1 > i1)) <=> t > left
  <2>1. z0 > i0 => i0 * w + w <= z0 * w
    BY <1>1, FactorsOrdered
  <2>2. z0 < i0 => z0 * w + w <= i0 * w
    BY <1>1, FactorsOrdered
  <2>3. i0 * w \in Nat /\ z0 * w \in Nat
    BY <1>1
  <2>4. t = z0 * w + v1 /\ left = i0 * w + i1
    BY <1>4, <1>10, <1>12
  <2> QED BY <2>1, <2>2, <2>3, <2>4, <1>3, <1>12
<1>14. CASE t > left
  <2>1. LowStep(s, r) = Doubled(s)
    BY <1>9, <1>12, <1>13, <1>14
  <2> DEFINE u == Doubled(s)
  <2>2. /\ u \in RootStates /\ u.ix1 \in 0 .. Word - 1 /\ u.ix0 >= 0 /\ Left(u) = 2 * Left(s)
        /\ u.s0 = s.s0 /\ u.s1 = s.s1 /\ u.q = s.q /\ u.q1 = s.q1
    BY <1>2, DoubledIs
  <2> HIDE DEF u
  <2>3. Root(u) = root /\ Left(u) = 2 * left
    BY <2>2, <1>4, <1>5 DEF Root
  <2>4. u.s0 * Word + u.s1 = 2 * root /\ u.s1 + r <= Word
    BY <2>2, <1>1, <1>3, <1>6
  <2>5. u.s1 = (2 * k) * r /\ 2 * k \in Nat
    BY <2>2, <1>3, <1>7
  <2>6. \E j \in Nat : u.s1 = j * r
    BY <2>5
  <2>7. Left(u) * r = 2 * (D - Root(u) * Root(u)) /\ Left(u) < 2 * (2 * Root(u) + r)
    BY <2>3, <1>11, <1>14
  <2>8. u.s0 >= 0 /\ u.q >= 0 /\ u.q1 >= 0 /\ u.s1 \in 0 .. Word - 1
    BY <2>2, <1>2
  <2>9. LowInv(u, r, D)
    BY <2>2, <2>3, <2>4, <2>6, <2>7, <2>8 DEF LowInv
  <2> QED BY <2>1, <2>9 DEF u
<1>15. CASE t <= left
  <2>1. PICK k0 \in Int, k1 \in Int, k2 \in Int, o1 \in Int, borrow \in {0, 1} :
          /\ borrow = (IF i1 < v1 THEN 1 ELSE 0) /\ k0 = z0 + carry /\ k1 = i0 - z0 - borrow
          /\ k2 = q1 + r /\ o1 = i1 - v1 + borrow * w /\ o1 \in 0 .. w - 1
    <3>1. PICK borrow \in {0, 1} : borrow = IF i1 < v1 THEN 1 ELSE 0
      OBVIOUS
    <3>2. i1 - v1 + borrow * w \in 0 .. w - 1
      <4>1. borrow * w = IF i1 < v1 THEN w ELSE 0
        BY <3>1, <1>1
      <4> QED BY <4>1, <1>1, <1>3, <1>12
    <3>3. z0 + carry \in Int /\ i0 - z0 - borrow \in Int /\ q1 + r \in Int
      BY <1>8
    <3> QED BY <3>1, <3>2, <3>3, <1>1
  <2>2. Wrap(i1 - t1) = o1
    <3>1. PICK neg \in Int : neg = -borrow
      OBVIOUS
    <3>2. i1 - v1 = neg * w + o1
      <4>1. neg * w = -(borrow * w)
        BY <3>1, <1>1
      <4> QED BY <4>1, <2>1, <1>3, <1>12
    <3>3. i1 - v1 \in Int /\ w > 0 /\ o1 \in 0 .. (w - 1)
      BY <2>1, <1>1
    <3>4. (i1 - v1) % w = o1
      BY <3>2, <3>3, DividedOnce
    <3> QED BY <3>4, <1>1, <1>12 DEF Wrap
  <2>3. PICK n1 \in Int : n1 = u1 /\ n1 \in 0 .. Word - 1
    BY <1>1, <1>8
  <2> DEFINE v == [s EXCEPT !.s1 = n1, !.s0 = k0, !.ix0 = k1, !.ix1 = o1, !.q1 = k2]
  <2>4. LowStep(s, r) = Doubled(v)
    <3>1. ~ (z0 > i0 \/ (z0 = i0 /\ t1 > i1))
      BY <1>12, <1>13, <1>15, <1>4
    <3>2. borrow = (IF i1 < t1 THEN 1 ELSE 0)
      BY <2>1, <1>12
    <3> QED BY <3>1, <3>2, <2>1, <2>2, <2>3, <1>3, <1>9
  <2>5. v \in RootStates /\ v.ix0 = k1 /\ v.ix1 = o1 /\ v.s0 = k0 /\ v.s1 = n1 /\ v.q = s.q /\ v.q1 = k2
    BY <1>2 DEF RootStates
  <2> HIDE DEF v
  <2>6. Left(v) = left - t
    <3>1. Left(v) = k1 * w + o1
      BY <2>5, <1>1 DEF Left
    <3>2. k1 * w = i0 * w - z0 * w - borrow * w /\ i0 * w \in Nat /\ z0 * w \in Nat /\ borrow * w \in Nat
      BY <2>1, <1>1
    <3> QED BY <3>1, <3>2, <2>1, <1>4, <1>10, <1>12
  <2>7. v.ix1 \in 0 .. Word - 1 /\ v.ix0 >= 0
    <3>1. k1 >= 0
      <4>1. SUFFICES ASSUME k1 < 0 PROVE FALSE
        BY <2>1
      <4>2. k1 * w + w <= 0 * w /\ k1 * w \in Int
        BY <4>1, <1>1, FactorsOrdered
      <4>3. Left(v) = k1 * w + o1 /\ 0 * w = 0 /\ o1 < w
        BY <2>1, <2>5, <1>1 DEF Left
      <4> QED BY <4>2, <4>3, <2>1, <2>6, <1>15, <1>1
    <3> QED BY <3>1, <2>1, <2>5, <1>1
  <2> DEFINE u == Doubled(v)
  <2>8. /\ u \in RootStates /\ u.ix1 \in 0 .. Word - 1 /\ u.ix0 >= 0 /\ Left(u) = 2 * Left(v)
        /\ u.s0 = v.s0 /\ u.s1 = v.s1 /\ u.q = v.q /\ u.q1 = v.q1
    BY <2>5, <2>7, DoubledIs
  <2> HIDE DEF u
  <2>9. Root(u) = root + r /\ Left(u) = 2 * (left - t)
    <3>1. Root(u) = q * w + (q1 + r)
      BY <2>1, <2>5, <2>8, <1>1, <1>3 DEF Root
    <3>2. q * w \in Nat
      BY <1>1
    <3> QED BY <3>1, <3>2, <1>5, <2>6, <2>8
  <2>10. u.s0 * Word + u.s1 = 2 * (root + r)
    <3>1. (z0 + carry) * w = z0 * w + carry * w /\ z0 * w \in Nat /\ carry * w \in Nat
      BY <1>1, <1>8
    <3>2. u.s0 * Word + u.s1 = (z0 + carry) * w + u1
      BY <2>1, <2>3, <2>5, <2>8, <1>1
    <3>3. carry * w + u1 = z1 + 2 * r /\ u1 \in Int
      BY <1>1, <1>8, <2>3
    <3> QED BY <3>1, <3>2, <3>3, <1>6
  <2>11. u.s1 + r <= Word /\ \E j \in Nat : u.s1 = j * r
    BY <2>3, <2>5, <2>8, <1>8
  <2>12. Left(u) * r = 2 * (D - Root(u) * Root(u)) /\ Left(u) < 2 * (2 * Root(u) + r)
    BY <2>9, <1>11, <1>15
  <2>13. u.s0 >= 0 /\ u.q >= 0 /\ u.q1 >= 0 /\ u.s1 \in 0 .. Word - 1
    BY <2>1, <2>3, <2>5, <2>8, <1>2, <1>3, <1>8
  <2>14. LowInv(u, r, D)
    BY <2>8, <2>9, <2>10, <2>11, <2>12, <2>13 DEF LowInv
  <2> QED BY <2>4, <2>14 DEF u
<1> QED BY <1>14, <1>15

(* From the upper word to the lower. *)
LEMMA UpperToLower ==
  ASSUME NEW s, NEW D \in Nat, HighInv(s, 1, D)
  PROVE  LowInv(s, Word, D * Word)
<1>1. PICK w \in Nat : w = Word /\ w > 0
  BY WordIs
<1>2. /\ s \in RootStates /\ s.ix1 \in 0 .. Word - 1 /\ s.ix0 >= 0
      /\ s.q >= 0 /\ s.s0 = 2 * s.q /\ s.s1 = 0 /\ s.q1 = 0
  BY DEF HighInv
<1>3. PICK q \in Nat, left \in Nat : q = s.q /\ left = Left(s)
  <2>1. Left(s) \in Nat
    BY <1>2, DoubledIs
  <2> QED BY <1>2, <2>1 DEF RootStates
<1>4. left * 1 = 2 * (D - w * (q * q)) /\ left < (2 * w) * (2 * q + 1)
  BY <1>1, <1>3 DEF HighInv
<1>5. PICK root \in Nat : root = q * w /\ root = Root(s)
  <2>1. q * w \in Nat /\ q * w + 0 = q * w
    BY <1>1
  <2> QED BY <2>1, <1>1, <1>2, <1>3 DEF Root
<1>6. left * w = 2 * (D * w - root * root)
  <2>1. left * w = (2 * (D - w * (q * q))) * w
    BY <1>4
  <2>2. (2 * (D - w * (q * q))) * w = 2 * (D * w - (w * (q * q)) * w)
    BY <1>1
  <2>3. (w * (q * q)) * w = (q * w) * (q * w)
    BY <1>1
  <2> QED BY <2>1, <2>2, <2>3, <1>5
<1>7. left < 2 * (2 * root + w)
  <2>1. (2 * w) * (2 * q + 1) = 2 * (2 * (q * w) + w)
    BY <1>1
  <2> QED BY <2>1, <1>4, <1>5
<1>8. s.s0 * Word + s.s1 = 2 * root
  <2>1. (2 * q) * w + 0 = 2 * (q * w)
    BY <1>1
  <2> QED BY <2>1, <1>1, <1>2, <1>3, <1>5
<1>9. s.s1 + Word <= Word /\ 0 * Word = 0 /\ 0 \in Nat /\ s.s1 \in 0 .. Word - 1
  BY <1>1, <1>2
<1>10. \E k \in Nat : s.s1 = k * Word
  BY <1>2, <1>9
<1>11. s.s0 >= 0 /\ s.q1 >= 0
  BY <1>2, <1>3
<1>12. Left(s) * Word = 2 * (D * Word - Root(s) * Root(s)) /\ Left(s) < 2 * (2 * Root(s) + Word)
  BY <1>1, <1>3, <1>5, <1>6, <1>7
<1>13. s.s0 * Word + s.s1 = 2 * Root(s)
  BY <1>5, <1>8
<1> QED BY <1>2, <1>9, <1>10, <1>11, <1>12, <1>13 DEF LowInv

(* All the steps of a root. *)
LEMMA RootsAre ==
  ASSUME NEW s, NEW D \in Nat, HighInv(s, 2 ^ (H + 2), D)
  PROVE  LowInv(Roots(s), 1, D * Word) /\ Roots(s).q1 \in 0 .. Word - 1
<1>1. H \in Nat /\ W \in Nat /\ H + 2 \in Nat
  BY Widths
<1>2. s \in RootStates /\ s.q1 = 0
  BY DEF HighInv
<1>3. PICK high \in [0 .. H + 2 -> RootStates], low \in [0 .. W -> RootStates] :
           /\ high[0] = s /\ \A j \in 1 .. H + 2 : high[j] = HighStep(high[j - 1], 2 ^ (H + 2 - j))
           /\ low[0] = high[H + 2] /\ \A j \in 1 .. W : low[j] = LowStep(low[j - 1], 2 ^ (W - j))
           /\ Roots(s) = low[W]
  BY <1>2, RootRounds
<1>4. Roots(s).q1 \in 0 .. Word - 1
  BY <1>2, RootType
<1>5. \A j \in 0 .. H + 2 : HighInv(high[j], 2 ^ (H + 2 - j), D)
  <2> DEFINE G == {j \in 0 .. H + 2 : HighInv(high[j], 2 ^ (H + 2 - j), D)}
  <2>1. 0 \in G
    <3>1. 0 \in 0 .. H + 2 /\ H + 2 - 0 = H + 2
      BY <1>1
    <3> QED BY <3>1, <1>3
  <2>2. \A j \in 0 .. (H + 2) - 1 : j \in G => j + 1 \in G
    <3> SUFFICES ASSUME NEW j \in 0 .. (H + 2) - 1, j \in G PROVE j + 1 \in G
      OBVIOUS
    <3>1. j + 1 \in 1 .. H + 2 /\ (j + 1) - 1 = j /\ j \in 0 .. H + 2 /\ j + 1 \in 0 .. H + 2
      BY <1>1
    <3>2. PICK i \in Nat : i = H + 2 - (j + 1) /\ i + 1 = H + 2 - j
      BY <3>1, <1>1
    <3>3. PICK r \in Nat : r = 2 ^ i /\ r > 0 /\ 2 ^ (i + 1) = 2 * r
      BY PowerType, PowerDoubles
    <3>4. high[j + 1] = HighStep(high[j], r)
      BY <3>1, <3>2, <3>3, <1>3
    <3>5. HighInv(high[j], 2 * r, D)
      BY <3>2, <3>3
    <3>6. HighInv(HighStep(high[j], r), r, D)
      BY <3>3, <3>5, HighStepIs
    <3> QED BY <3>1, <3>2, <3>3, <3>4, <3>6
  <2> HIDE DEF G
  <2>3. \A j \in 0 .. H + 2 : j \in G
    BY <1>1, <2>1, <2>2, EveryRound
  <2> QED BY <2>3 DEF G
<1>6. LowInv(low[0], Word, D * Word)
  <2>1. H + 2 \in 0 .. H + 2 /\ H + 2 - (H + 2) = 0
    BY <1>1
  <2>2. HighInv(high[H + 2], 1, D)
    BY <2>1, <1>5, PowerOfZero
  <2> QED BY <2>2, <1>3, UpperToLower
<1>7. D * Word \in Nat
  BY WordIs
<1>8. \A j \in 0 .. W : LowInv(low[j], 2 ^ (W - j), D * Word)
  <2> DEFINE G == {j \in 0 .. W : LowInv(low[j], 2 ^ (W - j), D * Word)}
  <2>1. 0 \in G
    <3>1. 0 \in 0 .. W /\ W - 0 = W
      BY <1>1
    <3> QED BY <3>1, <1>6, WordIs
  <2>2. \A j \in 0 .. W - 1 : j \in G => j + 1 \in G
    <3> SUFFICES ASSUME NEW j \in 0 .. W - 1, j \in G PROVE j + 1 \in G
      OBVIOUS
    <3>1. j + 1 \in 1 .. W /\ (j + 1) - 1 = j /\ j \in 0 .. W /\ j + 1 \in 0 .. W /\ j \in Nat
      BY <1>1
    <3>2. PICK i \in Nat : i = W - (j + 1) /\ i + 1 = W - j /\ j + (i + 1) = W
      BY <3>1, <1>1
    <3>3. PICK r \in Nat : r = 2 ^ i /\ r > 0 /\ 2 ^ (i + 1) = 2 * r
      BY PowerType, PowerDoubles
    <3>4. low[j + 1] = LowStep(low[j], r)
      BY <3>1, <3>2, <3>3, <1>3
    <3>5. LowInv(low[j], 2 * r, D * Word)
      BY <3>2, <3>3
    <3>6. PICK c \in Nat : Word = c * (2 * r)
      <4>1. 2 ^ (j + (i + 1)) = 2 ^ j * 2 ^ (i + 1) /\ 2 ^ j \in Nat
        BY <3>1, PowerOfSum, PowerType
      <4> QED BY <4>1, <3>2, <3>3, WordIs
    <3>7. LowInv(LowStep(low[j], r), r, D * Word)
      BY <3>3, <3>5, <3>6, <1>7, LowStepIs
    <3> QED BY <3>1, <3>2, <3>3, <3>4, <3>7
  <2> HIDE DEF G
  <2>3. \A j \in 0 .. W : j \in G
    BY <1>1, <2>1, <2>2, EveryRound
  <2> QED BY <2>3 DEF G
<1>9. W \in 0 .. W /\ W - W = 0
  BY <1>1
<1>10. LowInv(low[W], 1, D * Word)
  BY <1>8, <1>9, PowerOfZero
<1> QED BY <1>3, <1>4, <1>10

(* The last bit is rounded away later: an odd root that is not exact goes up. *)
LEMMA RoundedIs ==
  ASSUME NEW s, NEW D \in Nat, LowInv(s, 1, D), s.q1 \in 0 .. Word - 1
  PROVE  LET t == RoundedRoot(s)
         IN  \E root \in Nat, q \in Nat, q1 \in 0 .. Word - 1 :
               /\ root * root <= D /\ D < (root + 1) * (root + 1)
               /\ t.q = q /\ t.q1 = q1
               /\ q * Word + q1 = IF D = root * root THEN root ELSE root + (root % 2)
<1>1. PICK h \in Nat, w \in Nat : w = Word /\ w = 2 * h /\ h > 0
  BY Halfs
<1>2. /\ s \in RootStates /\ s.ix1 \in 0 .. Word - 1 /\ s.ix0 >= 0 /\ s.q >= 0
  BY DEF LowInv
<1>3. PICK q \in Nat, q1 \in Nat, i0 \in Nat, i1 \in Nat :
        q = s.q /\ q1 = s.q1 /\ q1 < w /\ i0 = s.ix0 /\ i1 = s.ix1
  <2>1. s.q \in Int /\ s.ix0 \in Int
    BY <1>2 DEF RootStates
  <2>2. s.ix1 \in 0 .. w - 1 /\ s.q1 \in 0 .. w - 1
    BY <1>1, <1>2
  <2>3. s.ix1 \in Nat /\ s.q1 \in Nat /\ s.q1 < w
    BY <2>2, <1>1
  <2> QED BY <2>1, <2>3, <1>2
<1>4. PICK left \in Nat : left = Left(s) /\ left = i0 * w + i1
  BY <1>1, <1>3 DEF Left
<1>5. PICK root \in Nat : root = Root(s) /\ root = q * w + q1
  BY <1>1, <1>3 DEF Root
<1>6. left * 1 = 2 * (D - root * root) /\ left < 2 * (2 * root + 1)
  BY <1>4, <1>5 DEF LowInv
<1>7. root * root <= D /\ D < (root + 1) * (root + 1)
  <2>1. (root + 1) * (root + 1) = root * root + 2 * root + 1
    OBVIOUS
  <2>2. PICK rr \in Nat : rr = root * root
    OBVIOUS
  <2>3. left = 2 * (D - rr)
    BY <1>6, <2>2
  <2>4. rr <= D /\ D < rr + 2 * root + 1
    BY <1>6, <2>3
  <2> QED BY <2>1, <2>2, <2>4
<1>8. (i0 = 0 /\ i1 = 0) <=> D = root * root
  <2>1. left = 0 <=> D = root * root
    BY <1>6
  <2>2. left = 0 <=> (i0 = 0 /\ i1 = 0)
    <3>1. i0 > 0 => 1 * w <= i0 * w
      BY <1>1, ProductGrows
    <3>2. i0 = 0 => i0 * w = 0
      BY <1>1
    <3>3. i0 * w \in Nat /\ 1 * w = w
      BY <1>1
    <3> QED BY <3>1, <3>2, <3>3, <1>1, <1>4
  <2> QED BY <2>1, <2>2
<1>9. root % 2 = q1 % 2
  <2>1. q * w = (q * h) * 2 /\ q * h \in Int
    BY <1>1
  <2>2. ((q * h) * 2 + q1) % 2 = q1 % 2
    BY <2>1, DividedMore
  <2> QED BY <2>1, <2>2, <1>5
<1> DEFINE Goal == LET t == RoundedRoot(s)
                   IN  \E k \in Nat, k1 \in 0 .. Word - 1 :
                         /\ t.q = k /\ t.q1 = k1
                         /\ k * Word + k1 = IF D = root * root THEN root ELSE root + (root % 2)
<1>10. q1 \in 0 .. Word - 1 /\ 0 \in 0 .. Word - 1
  BY <1>1, <1>3
<1>11. ASSUME D = root * root PROVE Goal
  <2>1. RoundedRoot(s) = s
    BY <1>3, <1>8, <1>11 DEF RoundedRoot
  <2>2. q * Word + q1 = root
    BY <1>1, <1>5
  <2> QED BY <2>1, <2>2, <1>3, <1>10, <1>11
<1>12. ASSUME D # root * root, q1 = w - 1 PROVE Goal
  <2>1. PICK k \in Nat : k = q + 1
    OBVIOUS
  <2>2. RoundedRoot(s) = [s EXCEPT !.q1 = 0, !.q = k]
    BY <1>1, <1>3, <1>8, <1>12, <2>1 DEF RoundedRoot
  <2>3. [s EXCEPT !.q1 = 0, !.q = k].q = k /\ [s EXCEPT !.q1 = 0, !.q = k].q1 = 0
    BY <1>2 DEF RootStates
  <2>4. root % 2 = 1
    BY <1>1, <1>9, <1>12
  <2>5. k * w + 0 = root + 1
    <3>1. (q + 1) * w = q * w + w
      BY <1>1
    <3> QED BY <3>1, <2>1, <1>5, <1>12, <1>1
  <2> QED BY <2>2, <2>3, <2>4, <2>5, <1>1, <1>10, <1>12
<1>13. ASSUME D # root * root, q1 # w - 1 PROVE Goal
  <2>1. PICK k1 \in Nat : k1 = q1 + (q1 % 2) /\ k1 < w
    BY <1>1, <1>3, <1>13
  <2>2. RoundedRoot(s) = [s EXCEPT !.q1 = k1]
    BY <1>1, <1>3, <1>8, <1>13, <2>1 DEF RoundedRoot
  <2>3. [s EXCEPT !.q1 = k1].q = s.q /\ [s EXCEPT !.q1 = k1].q1 = k1
    BY <1>2 DEF RootStates
  <2>4. q * w + k1 = root + (root % 2)
    BY <2>1, <1>5, <1>9
  <2>5. k1 \in 0 .. Word - 1
    BY <2>1, <1>1
  <2> QED BY <2>2, <2>3, <2>4, <2>5, <1>1, <1>3, <1>13
<1> HIDE DEF Goal
<1>14. Goal
  BY <1>11, <1>12, <1>13
<1> QED BY <1>7, <1>14 DEF Goal

(* Half of the rounded root is the nearest half. *)
LEMMA HalfIsNearest ==
  ASSUME NEW root \in Nat, root > 0, NEW D \in Nat, root * root <= D, D < (root + 1) * (root + 1),
         NEW half \in Nat, half = (IF D = root * root THEN root ELSE root + (root % 2)) \div 2
  PROVE  /\ (2 * half - 1) * (2 * half - 1) <= D /\ D <= (2 * half + 1) * (2 * half + 1)
         /\ 2 * half >= root - 1 /\ 2 * half <= root + 1
         /\ 2 * half = root + 1 => root % 2 = 1
<1>1. root % 2 \in {0, 1} /\ (root % 2 = 1 => 2 * half \in {root - 1, root + 1})
      /\ (root % 2 = 0 => 2 * half = root)
  OBVIOUS
<1>2. 2 * half = root - 1 => D = root * root /\ root % 2 = 1
  OBVIOUS
<1>3. CASE 2 * half = root
  <2>1. (root - 1) * (root - 1) = root * root - 2 * root + 1
    OBVIOUS
  <2>2. root * root \in Nat /\ -2 * root + 1 <= 0
    OBVIOUS
  <2> QED BY <1>1, <1>3, <2>1, <2>2
<1>4. CASE 2 * half = root - 1
  <2>1. (root - 2) * (root - 2) = root * root - 4 * root + 4
    OBVIOUS
  <2>2. root * root \in Nat /\ -4 * root + 4 <= 0
    OBVIOUS
  <2>3. 2 * half - 1 = root - 2 /\ 2 * half + 1 = root
    BY <1>4
  <2> QED BY <1>1, <1>2, <1>4, <2>1, <2>2, <2>3
<1>5. CASE 2 * half = root + 1
  <2>1. (root + 2) * (root + 2) = (root + 1) * (root + 1) + 2 * root + 3
    OBVIOUS
  <2>2. (root + 1) * (root + 1) \in Nat
    OBVIOUS
  <2>3. 2 * half - 1 = root /\ 2 * half + 1 = root + 2
    BY <1>5
  <2> QED BY <1>1, <1>5, <2>1, <2>2, <2>3
<1> QED BY <1>1, <1>3, <1>4, <1>5

LEMMA RootStartIs ==
  ASSUME NEW d \in Doubles, NEW whole \in BOOLEAN, SignBit(d) = 0, ~ IsZero(d)
  PROVE  \E t \in Nat, N0 \in Nat, N \in Nat, m \in Int :
           /\ Lifted(d, whole).m = Power(d) - t /\ m = Power(d) - t - Bias
           /\ t > 0 => Exponent(d) = 0
           /\ N0 = Significand(d) * 2 ^ t /\ N0 >= 2 ^ P /\ N0 < 2 * 2 ^ P
           /\ N = IF m % 2 = 1 THEN 4 * N0 ELSE 2 * N0
           /\ HighInv(RootStart(d, whole), 2 ^ (H + 2), 2 ^ (H + 1) * N)
<1>1. PICK g \in Nat, w \in Nat : g = 2 ^ H /\ g > 0 /\ w = Word /\ w > 0 /\ 2 ^ P = g * w
  <2>1. Word \in Nat /\ Word > 0
    BY WordIs
  <2> QED BY <2>1, Halfs
<1> DEFINE l == Lifted(d, whole)
           m == l.m - Bias
           s == [ix0 |-> 2 ^ H + (l.ix0 % 2 ^ H), ix1 |-> l.ix1, s0 |-> 0, s1 |-> 0, q |-> 0, q1 |-> 0]
<1>2. PICK t \in Nat :
        /\ l.m = Power(d) - t /\ l.ix0 \in Nat /\ l.ix1 \in 0 .. Word - 1
        /\ (2 ^ H + (l.ix0 % 2 ^ H)) * Word + l.ix1 = Significand(d) * 2 ^ t
        /\ t > 0 => Exponent(d) = 0
  BY LiftedIs
<1> HIDE DEF l
<1>3. PICK v \in Nat, i1 \in Nat : v = 2 ^ H + (l.ix0 % 2 ^ H) /\ i1 = l.ix1 /\ v >= g /\ v < 2 * g /\ i1 < w
  <2>1. l.ix0 % g \in 0 .. (g - 1)
    BY <1>1, <1>2, Quotients
  <2>2. l.ix1 \in Nat /\ l.ix1 < w
    BY <1>1, <1>2
  <2> QED BY <2>1, <2>2, <1>1
<1>4. PICK N0 \in Nat : N0 = Significand(d) * 2 ^ t /\ N0 = v * w + i1
  BY <1>1, <1>2, <1>3
<1>5. N0 >= 2 ^ P /\ N0 < 2 * 2 ^ P
  <2>1. g * w <= v * w /\ v * w \in Nat
    BY <1>1, <1>3, ProductGrows
  <2>2. v * w + w <= (2 * g) * w
    BY <1>1, <1>3, FactorsOrdered
  <2>3. (2 * g) * w = 2 * (g * w) /\ g * w \in Nat
    BY <1>1
  <2> QED BY <2>1, <2>2, <2>3, <1>1, <1>3, <1>4
<1>6. m \in Int /\ m = Power(d) - t - Bias
  BY <1>2, Widths, SignificandIs
<1>7. /\ s \in RootStates /\ s.ix1 \in 0 .. Word - 1 /\ s.ix0 >= 0 /\ s.s0 = 0 /\ s.s1 = 0 /\ s.q = 0 /\ s.q1 = 0
      /\ Left(s) = N0
  <2>1. s = [ix0 |-> v, ix1 |-> i1, s0 |-> 0, s1 |-> 0, q |-> 0, q1 |-> 0]
    BY <1>3
  <2>2. s \in RootStates
    BY <2>1 DEF RootStates
  <2>3. i1 \in 0 .. Word - 1
    BY <1>1, <1>3
  <2> QED BY <2>1, <2>2, <2>3, <1>1, <1>3, <1>4 DEF Left
<1> DEFINE once  == Doubled(s)
           twice == Doubled(once)
<1>8. RootStart(d, whole) = IF m % 2 = 1 THEN twice ELSE once
  BY DEF RootStart, l
<1> HIDE DEF s
<1>9. /\ once \in RootStates /\ once.ix1 \in 0 .. Word - 1 /\ once.ix0 >= 0
      /\ once.s0 = 0 /\ once.s1 = 0 /\ once.q = 0 /\ once.q1 = 0 /\ Left(once) = 2 * N0
  BY <1>7, DoubledIs
<1> HIDE DEF once
<1>10. /\ twice \in RootStates /\ twice.ix1 \in 0 .. Word - 1 /\ twice.ix0 >= 0
       /\ twice.s0 = 0 /\ twice.s1 = 0 /\ twice.q = 0 /\ twice.q1 = 0 /\ Left(twice) = 2 * (2 * N0)
  BY <1>9, DoubledIs
<1> HIDE DEF twice, m
<1>11. PICK N \in Nat : N = IF m % 2 = 1 THEN 4 * N0 ELSE 2 * N0
  OBVIOUS
<1> DEFINE start == RootStart(d, whole)
<1>12. /\ start \in RootStates /\ start.ix1 \in 0 .. Word - 1 /\ start.ix0 >= 0
       /\ start.s0 = 0 /\ start.s1 = 0 /\ start.q = 0 /\ start.q1 = 0 /\ Left(start) = N
  <2>1. 2 * (2 * N0) = 4 * N0
    OBVIOUS
  <2> QED BY <2>1, <1>8, <1>9, <1>10, <1>11
<1> HIDE DEF start
<1>13. PICK G \in Nat : G = 2 ^ (H + 1) /\ 2 ^ (H + 2) = 2 * G /\ G = 2 * g
  <2>1. H + 1 \in Nat /\ (H + 1) + 1 = H + 2 /\ H \in Nat
    BY Widths
  <2>2. 2 ^ ((H + 1) + 1) = 2 * 2 ^ (H + 1) /\ 2 ^ (H + 1) = 2 * 2 ^ H /\ 2 ^ (H + 1) \in Nat
    BY <2>1, PowerDoubles, PowerType
  <2> QED BY <2>1, <2>2, <1>1
<1>14. N * (2 * G) = 2 * (G * N - w * (0 * 0))
  BY <1>1
<1>15. N < (2 * w) * (2 * 0 + 2 * G)
  <2>1. N <= 4 * N0 /\ 4 * N0 < 8 * (g * w) /\ g * w \in Nat
    BY <1>1, <1>5, <1>11
  <2>2. (2 * w) * (2 * 0 + 2 * G) = 8 * (g * w)
    BY <1>13
  <2> QED BY <2>1, <2>2
<1>16. HighInv(start, 2 * G, G * N)
  BY <1>1, <1>12, <1>14, <1>15 DEF HighInv
<1> QED BY <1>2, <1>4, <1>5, <1>6, <1>11, <1>13, <1>16 DEF start, l

LEMMA SquaresOrdered ==
  ASSUME NEW u \in Nat, NEW v \in Nat, u * u < v * v
  PROVE  u < v
<1>1. SUFFICES ASSUME v <= u PROVE FALSE
  OBVIOUS
<1>2. v * v <= u * v /\ v * u <= u * u
  BY <1>1, ProductGrows
<1>3. u * v = v * u /\ u * v \in Nat /\ u * u \in Nat /\ v * v \in Nat
  OBVIOUS
<1> QED BY <1>2, <1>3

(* The significand of a root is one of a normal number. *)
LEMMA RootBounds ==
  ASSUME NEW pp \in Nat, pp > 0, NEW N0 \in Nat, N0 >= pp, N0 < 2 * pp,
         NEW bb \in {1, 2}, NEW D \in Nat, D = (4 * bb) * (pp * N0),
         NEW root \in Nat, root * root <= D, D < (root + 1) * (root + 1),
         NEW half \in Nat, half = (IF D = root * root THEN root ELSE root + (root % 2)) \div 2
  PROVE  /\ half >= pp /\ half < 2 * pp
         /\ (2 * half - 1) * (2 * half - 1) <= D /\ D <= (2 * half + 1) * (2 * half + 1)
<1>1. PICK sq \in Nat, pn \in Nat : sq = pp * pp /\ pn = pp * N0 /\ sq <= pn /\ pn + pp <= 2 * sq
  <2>1. pp * pp <= N0 * pp /\ N0 * pp = pp * N0 /\ pp * pp \in Nat /\ pp * N0 \in Nat
    BY ProductGrows
  <2>2. N0 * pp + pp <= (2 * pp) * pp /\ (2 * pp) * pp = 2 * (pp * pp)
    BY FactorsOrdered
  <2> QED BY <2>1, <2>2
<1>2. D >= 4 * sq /\ D <= 16 * sq - 8 * pp
  BY <1>1
<1>3. root >= 2 * pp
  <2>1. (2 * pp) * (2 * pp) = 4 * sq
    BY <1>1
  <2>2. (2 * pp) * (2 * pp) < (root + 1) * (root + 1)
    BY <2>1, <1>1, <1>2
  <2>3. 2 * pp < root + 1
    BY <2>2, SquaresOrdered
  <2> QED BY <2>3
<1>4. root < 4 * pp - 1
  <2>1. PICK v \in Nat : v = 4 * pp - 1
    OBVIOUS
  <2>2. v * v = 16 * sq - 8 * pp + 1
    <3>1. (4 * pp - 1) * (4 * pp - 1) = 16 * (pp * pp) - 8 * pp + 1
      OBVIOUS
    <3> QED BY <3>1, <2>1, <1>1
  <2>3. root * root < v * v
    <3>1. PICK rr \in Nat : rr = root * root
      OBVIOUS
    <3>2. rr <= D
      BY <3>1
    <3> QED BY <3>1, <3>2, <2>2, <1>1, <1>2
  <2>4. root < v
    BY <2>3, SquaresOrdered
  <2> QED BY <2>1, <2>4
<1>5. /\ (2 * half - 1) * (2 * half - 1) <= D /\ D <= (2 * half + 1) * (2 * half + 1)
      /\ 2 * half >= root - 1 /\ 2 * half <= root + 1
      /\ 2 * half = root + 1 => root % 2 = 1
  <2>1. root > 0
    BY <1>3
  <2> QED BY <2>1, HalfIsNearest
<1>6. half >= pp
  BY <1>3, <1>5
<1>7. half < 2 * pp
  <2>1. CASE 2 * half = root + 1
    BY <2>1, <1>4, <1>5
  <2>2. CASE 2 * half <= root
    BY <2>2, <1>4
  <2> QED BY <2>1, <2>2, <1>5
<1> QED BY <1>5, <1>6, <1>7

(* Its exponent is one, unless it is the root of too small a number. *)
LEMMA RootExponent ==
  ASSUME NEW d \in Doubles, finite(d), ~ IsZero(d),
         Exponent(d) > 0 \/ Bits(d) >= 2 ^ Max({0, P + 1 - Bias}),
         NEW t \in Nat, t > 0 => Exponent(d) = 0, Significand(d) * 2 ^ t < 2 * 2 ^ P,
         NEW m \in Int, m = Power(d) - t - Bias
  PROVE  Bias + (m \div 2) \in 1 .. MaxExp - 1 /\ t <= P
<1>1. PICK p \in Nat, c \in Nat, top \in Nat : p = P /\ c = Bias /\ c >= 4 /\ top = MaxExp /\ top = 2 * c + 1
  BY Widths
<1>2. PICK e \in Nat : e = Exponent(d) /\ e < top
  <2>1. Exponent(d) \in 0 .. MaxExp /\ Exponent(d) < MaxExp
    BY DoubleIs
  <2> QED BY <2>1, <1>1
<1>3. PICK pw \in Nat : pw = Power(d) /\ pw = IF e = 0 THEN 1 ELSE e
  BY <1>2, SignificandIs
<1>4. m = pw - t - c
  BY <1>1, <1>3
<1>5. CASE t = 0
  BY <1>1, <1>2, <1>3, <1>4, <1>5
<1>6. CASE t > 0
  <2>1. e = 0 /\ pw = 1 /\ Significand(d) = Bits(d)
    BY <1>2, <1>3, <1>6, SignificandIs
  <2>2. PICK u \in Nat : u = Max({0, P + 1 - Bias}) /\ u >= p + 1 - c
    <3>1. PICK v \in Int : v = P + 1 - Bias /\ v = p + 1 - c
      BY <1>1
    <3>2. CASE v >= 0
      <4>1. {0, v} \subseteq Nat /\ {0, v} # {} /\ IsFiniteSet({0, v})
        <5>1. IsFiniteSet({0}) /\ {0, v} = {0} \cup {v}
          BY FS_Singleton
        <5>2. IsFiniteSet({0} \cup {v})
          BY <5>1, FS_AddElement
        <5>3. v \in Nat /\ IsFiniteSet({0, v})
          BY <5>1, <5>2, <3>2
        <5>4. {0, v} \subseteq Nat /\ {0, v} # {}
          BY <5>3
        <5> QED BY <5>3, <5>4
      <4>2. Max({0, v}) \in {0, v} /\ \A j \in {0, v} : j <= Max({0, v})
        BY <4>1, MaxOf
      <4> QED BY <4>2, <3>1, <3>2
    <3>3. CASE v < 0
      <4>1. Max({0, v}) = 0
        <5>1. 0 \in {0, v} /\ \A k \in {0, v} : 0 >= k
          BY <3>3
        <5>2. \A z \in {0, v} : (\A k \in {0, v} : z >= k) => z = 0
          BY <3>3
        <5> QED BY <5>1, <5>2 DEF Max
      <4> QED BY <4>1, <3>1, <3>3
    <3> QED BY <3>1, <3>2, <3>3
  <2>3. PICK bits \in Nat : bits = Bits(d) /\ bits >= 2 ^ u
    BY <2>1, <2>2, <1>2, DoubleIs
  <2>4. 2 ^ (u + t) = 2 ^ u * 2 ^ t /\ 2 ^ u \in Nat /\ 2 ^ t \in Nat /\ 2 ^ (u + t) \in Nat
    <3>1. u + t \in Nat
      OBVIOUS
    <3>2. 2 ^ (u + t) = 2 ^ u * 2 ^ t
      BY PowerOfSum
    <3>3. 2 ^ u \in Nat /\ 2 ^ t \in Nat /\ 2 ^ (u + t) \in Nat
      BY <3>1, PowerType
    <3> QED BY <3>2, <3>3
  <2>5. 2 ^ u * 2 ^ t <= bits * 2 ^ t
    BY <2>3, <2>4, ProductGrows
  <2>6. bits * 2 ^ t < 2 * 2 ^ p /\ bits * 2 ^ t \in Nat
    BY <2>1, <2>3, <2>4, <1>1
  <2>7. 2 ^ (p + 1) = 2 * 2 ^ p /\ 2 ^ (p + 1) \in Nat
    BY PowerDoubles, PowerType
  <2>8. u + t < p + 1
    <3>1. SUFFICES ASSUME p + 1 <= u + t PROVE FALSE
      BY <2>2
    <3>2. p + 1 \in 0 .. u + t /\ u + t \in Nat
      BY <3>1, <2>2
    <3>3. 2 ^ (p + 1) <= 2 ^ (u + t)
      BY <3>2, PowerSplits
    <3> QED BY <3>3, <2>4, <2>5, <2>6, <2>7
  <2> QED BY <2>1, <2>2, <2>8, <1>1, <1>4, <1>6
<1> QED BY <1>5, <1>6

(* The double that a root is packed into. *)
LEMMA RootAssembled ==
  ASSUME NEW q \in Nat, NEW q1 \in 0 .. Word - 1,
         NEW half \in Nat, half = (q * Word + q1) \div 2, half >= 2 ^ P, half < 2 * 2 ^ P,
         NEW m \in Int, NEW k \in Nat, k = Bias + (m \div 2), k >= 1, k < MaxExp
  PROVE  LET r == Double(RootHigh(q, m), RootLow(q, q1))
         IN  /\ r \in Doubles /\ SignBit(r) = 0 /\ finite(r)
             /\ Significand(r) = half /\ Power(r) = k
<1>1. PICK h \in Nat, g \in Nat, w \in Nat, pp \in Nat, top \in Nat, c \in Nat :
        /\ w = Word /\ h = Word \div 2 /\ g = 2 ^ H /\ pp = 2 ^ P /\ top = MaxExp /\ c = Bias
        /\ w = 2 * h /\ h > 0 /\ g > 0 /\ h = (top + 1) * g /\ pp = g * w
  <2>1. MaxExp \in Nat /\ Bias \in Nat
    BY Widths
  <2>2. PICK h \in Nat, g \in Nat :
          /\ g = 2 ^ H /\ g > 0 /\ h = Word \div 2 /\ h > 0 /\ Word = 2 * h /\ Word \in Nat
          /\ h = (MaxExp + 1) * g /\ 2 ^ P = g * Word /\ 2 ^ P \in Nat
    BY Halfs
  <2> QED BY <2>1, <2>2
<1>2. PICK o \in Nat : o = q1 /\ o < w
  <2>1. q1 \in 0 .. w - 1
    BY <1>1
  <2> QED BY <2>1, <1>1
<1>3. w > 0 /\ pp > 0
  <2>1. 1 * w <= g * w
    BY <1>1, ProductGrows
  <2> QED BY <2>1, <1>1
<1>4. PICK qh \in Nat, qb \in {0, 1} : qh = q \div 2 /\ qb = q % 2 /\ q = 2 * qh + qb
  OBVIOUS
<1>5. PICK lo \in Nat : lo = (o \div 2) + qb * h /\ lo < w
  <2>1. qb * h \in {0, h}
    <3>1. 0 * h = 0 /\ 1 * h = h
      OBVIOUS
    <3> QED BY <3>1
  <2>2. o \div 2 \in Nat /\ o \div 2 < h
    BY <1>1, <1>2
  <2> QED BY <2>1, <2>2, <1>1
<1>6. RootLow(q, q1) = lo
  BY <1>1, <1>2, <1>4, <1>5 DEF RootLow
<1>7. half = qh * w + lo
  <2>1. half = (q * w + o) \div 2
    BY <1>1, <1>2
  <2>2. PICK qw \in Nat, qbh \in Nat : qw = qh * w /\ qbh = qb * h
    BY <1>4
  <2>3. q * w = 2 * qw + 2 * qbh
    <3>1. PICK j \in Nat : j = qb
      OBVIOUS
    <3>2. (2 * qh + j) * w = 2 * (qh * w) + j * w
      OBVIOUS
    <3>3. j * w = 2 * (j * h)
      BY <1>1
    <3> QED BY <3>1, <3>2, <3>3, <2>2, <1>4
  <2>4. (2 * qw + 2 * qbh + o) \div 2 = qw + qbh + (o \div 2)
    OBVIOUS
  <2> QED BY <2>1, <2>2, <2>3, <2>4, <1>5
<1>8. PICK kg \in Nat, hi \in Nat : kg = (k - 1) * g /\ hi = qh + kg
  <2>1. k - 1 \in Nat
    OBVIOUS
  <2>2. (k - 1) * g \in Nat
    BY <2>1
  <2> QED BY <2>2
<1>9. hi * w = qh * w + (k - 1) * pp
  <2>1. PICK j \in Nat : j = k - 1
    OBVIOUS
  <2>2. (qh + kg) * w = qh * w + kg * w
    OBVIOUS
  <2>3. (j * g) * w = j * (g * w)
    OBVIOUS
  <2>4. kg = j * g /\ pp = g * w /\ hi = qh + kg
    BY <2>1, <1>1, <1>8
  <2> QED BY <2>1, <2>2, <2>3, <2>4
<1>10. PICK bits \in Nat : bits = hi * w + lo /\ bits = half + (k - 1) * pp
  <2>1. hi * w + lo \in Nat
    BY <1>1
  <2> QED BY <2>1, <1>7, <1>9
<1>11. PICK f \in Nat : f = half - pp /\ f < pp /\ bits = k * pp + f
  <2>1. (k - 1) * pp = k * pp - pp /\ k * pp \in Nat
    BY <1>1
  <2> QED BY <2>1, <1>1, <1>10
<1>12. hi < h
  <2>1. k * pp + pp <= top * pp
    BY <1>1, FactorsOrdered
  <2>2. top * pp = (top * g) * w /\ h * w = (top * g) * w + g * w /\ (top * g) * w \in Nat
    BY <1>1
  <2>3. bits < h * w
    BY <2>1, <2>2, <1>1, <1>11
  <2>4. SUFFICES ASSUME h <= hi PROVE FALSE
    OBVIOUS
  <2>5. h * w <= hi * w /\ h * w \in Nat /\ hi * w \in Nat
    BY <2>4, ProductGrows
  <2> QED BY <2>3, <2>5, <1>10
<1>13. RootHigh(q, m) = hi
  <2>1. PICK mh \in Int : mh = m \div 2 /\ k = c + mh
    BY <1>1
  <2>2. (c - 1) * g + mh * g = (k - 1) * g
    BY <2>1
  <2>3. (q \div 2) + (Bias - 1) * 2 ^ H + (m \div 2) * 2 ^ H = hi
    <3>1. qh + (c - 1) * g + mh * g = hi
      BY <2>2, <1>8
    <3> QED BY <3>1, <2>1, <1>1, <1>4
  <2>4. hi % w = hi
    <3>1. hi \in 0 .. (w - 1)
      BY <1>1, <1>12
    <3> QED BY <3>1, <1>3, DividedSmall
  <2> QED BY <2>3, <2>4, <1>1 DEF RootHigh, Wrap
<1> DEFINE r == Double(RootHigh(q, m), RootLow(q, q1))
<1>14. r \in Doubles /\ SignBit(r) = 0 /\ Bits(r) = bits
  <2>1. 0 \in {0, Word \div 2} /\ hi < Word \div 2 /\ lo \in 0 .. Word - 1
    BY <1>1, <1>5, <1>12
  <2>2. LET u == Double(0 + hi, lo)
        IN  u \in Doubles /\ SignBit(u) = 0 /\ Bits(u) = hi * Word + lo
    BY <2>1, FromWords
  <2>3. 0 + hi = hi
    OBVIOUS
  <2> QED BY <2>2, <2>3, <1>1, <1>6, <1>10, <1>13
<1> HIDE DEF r
<1>15. bits \div pp = k /\ bits % pp = f
  BY <1>3, <1>11, DividedOnce
<1>16. Exponent(r) = k /\ Fraction(r) = f
  BY <1>1, <1>14, <1>15, DoubleIs
<1>17. finite(r)
  BY <1>14, <1>16, DoubleIs
<1>18. k # 0
  OBVIOUS
<1>19. Significand(r) = half /\ Power(r) = k
  <2>1. Power(r) = k /\ Significand(r) = pp + f
    BY <1>1, <1>14, <1>16, <1>18, SignificandIs
  <2> QED BY <2>1, <1>11
<1> QED BY <1>14, <1>17, <1>19 DEF r

(* The root is the number nearest to the square root. *)
LEMMA RootNearest ==
  ASSUME NEW d \in Doubles, finite(d), ~ IsZero(d), ~ Negative(d),
         Exponent(d) > 0 \/ Bits(d) >= 2 ^ Max({0, P + 1 - Bias}), NEW whole \in BOOLEAN
  PROVE  LET root  == sqrt(d, whole)
             twice == 2 * Significand(root)
             k     == Power(d) + P + Bias - 2 * Power(root)
         IN  /\ finite(root) /\ ~ Negative(root)
             /\ k \in 0 .. 2 * P + 2
             /\ (twice - 1) * (twice - 1) <= 4 * Significand(d) * 2 ^ k
             /\ 4 * Significand(d) * 2 ^ k <= (twice + 1) * (twice + 1)
<1>1. SignBit(d) = 0
  BY DEF Negative
<1>2. sqrt(d, whole) = PositiveRoot(d, whole)
  <2>1. ~ IsNaN(d)
    <3>1. Exponent(d) < MaxExp /\ MaxExp \in Nat /\ Exponent(d) \in 0 .. MaxExp
      BY DoubleIs, Widths
    <3>2. Exponent(d) # MaxExp
      BY <3>1
    <3> QED BY <3>2 DEF IsNaN
  <2>2. d # Infinity(0)
    <3>1. 0 \in {0, Word \div 2}
      OBVIOUS
    <3>2. ~ finite(Infinity(0))
      BY <3>1, InfinityIs
    <3> QED BY <3>2
  <2> QED BY <2>1, <2>2 DEF sqrt
<1>3. PICK t \in Nat, N0 \in Nat, N \in Nat, m \in Int :
        /\ Lifted(d, whole).m = Power(d) - t /\ m = Power(d) - t - Bias
        /\ t > 0 => Exponent(d) = 0
        /\ N0 = Significand(d) * 2 ^ t /\ N0 >= 2 ^ P /\ N0 < 2 * 2 ^ P
        /\ N = IF m % 2 = 1 THEN 4 * N0 ELSE 2 * N0
        /\ HighInv(RootStart(d, whole), 2 ^ (H + 2), 2 ^ (H + 1) * N)
  BY <1>1, RootStartIs
<1>4. PICK D1 \in Nat, D \in Nat : D1 = 2 ^ (H + 1) * N /\ D = D1 * Word
  <2>1. 2 ^ (H + 1) \in Nat
    BY Widths, PowerType
  <2>2. 2 ^ (H + 1) * N \in Nat
    BY <2>1
  <2> QED BY <2>2, WordIs
<1>5. LowInv(Roots(RootStart(d, whole)), 1, D) /\ Roots(RootStart(d, whole)).q1 \in 0 .. Word - 1
  BY <1>3, <1>4, RootsAre
<1> DEFINE t1 == RoundedRoot(Roots(RootStart(d, whole)))
<1>6. PICK root \in Nat, q \in Nat, q1 \in 0 .. Word - 1 :
        /\ root * root <= D /\ D < (root + 1) * (root + 1)
        /\ t1.q = q /\ t1.q1 = q1
        /\ q * Word + q1 = IF D = root * root THEN root ELSE root + (root % 2)
  BY <1>5, RoundedIs
<1>7. PICK half \in Nat : half = (IF D = root * root THEN root ELSE root + (root % 2)) \div 2
  OBVIOUS
<1>8. PICK pp \in Nat, bb \in {1, 2} :
        pp = 2 ^ P /\ pp > 0 /\ bb = (IF m % 2 = 1 THEN 2 ELSE 1) /\ D = (4 * bb) * (pp * N0)
  <2>1. PICK pp \in Nat, G \in Nat, w \in Nat : pp = 2 ^ P /\ pp > 0 /\ G = 2 ^ (H + 1) /\ w = Word /\ G * w = 2 * pp
    <3>1. PICK g \in Nat, w \in Nat : g = 2 ^ H /\ w = Word /\ 2 ^ P = g * w /\ 2 ^ P \in Nat /\ 2 ^ P > 0
      BY Halfs
    <3>2. 2 ^ (H + 1) = 2 * g
      BY <3>1, Widths, PowerDoubles
    <3>3. (2 * g) * w = 2 * (g * w) /\ 2 * g \in Nat
      BY <3>1
    <3> QED BY <3>1, <3>2, <3>3
  <2>2. PICK bb \in {1, 2} : bb = IF m % 2 = 1 THEN 2 ELSE 1
    OBVIOUS
  <2>3. N = 2 * (bb * N0)
    BY <1>3, <2>2
  <2>4. D = (G * N) * w
    BY <1>4, <2>1
  <2>5. (G * N) * w = (G * w) * N
    BY <2>1
  <2>6. PICK k \in Nat : k = bb
    OBVIOUS
  <2>7. (2 * pp) * (2 * (k * N0)) = (4 * k) * (pp * N0)
    OBVIOUS
  <2>8. D = (4 * bb) * (pp * N0)
    BY <2>1, <2>3, <2>4, <2>5, <2>6, <2>7
  <2> QED BY <2>1, <2>2, <2>8
<1>9. /\ half >= pp /\ half < 2 * pp
      /\ (2 * half - 1) * (2 * half - 1) <= D /\ D <= (2 * half + 1) * (2 * half + 1)
  <2>1. N0 >= pp /\ N0 < 2 * pp /\ pp > 0 /\ D = (4 * bb) * (pp * N0)
    BY <1>3, <1>8
  <2>2. root * root <= D /\ D < (root + 1) * (root + 1)
    BY <1>6
  <2> QED BY <1>7, <2>1, <2>2, RootBounds
<1>10. PICK X \in Nat : X = Bias + (m \div 2) /\ X >= 1 /\ X < MaxExp /\ t <= P
  <2>1. Bias + (m \div 2) \in 1 .. MaxExp - 1 /\ t <= P
    BY <1>3, RootExponent
  <2>2. MaxExp \in Nat
    BY Widths
  <2> QED BY <2>1, <2>2
<1> DEFINE r == Double(RootHigh(q, m), RootLow(q, q1))
<1>11. /\ r \in Doubles /\ SignBit(r) = 0 /\ finite(r)
       /\ Significand(r) = half /\ Power(r) = X
  <2>1. half = (q * Word + q1) \div 2 /\ half >= 2 ^ P /\ half < 2 * 2 ^ P
    BY <1>6, <1>7, <1>8, <1>9
  <2> QED BY <1>10, <2>1, RootAssembled
<1>12. PositiveRoot(d, whole) = r
  <2>1. Lifted(d, whole).m - Bias = m
    BY <1>3
  <2>2. PositiveRoot(d, whole) = Double(RootHigh(t1.q, Lifted(d, whole).m - Bias), RootLow(t1.q, t1.q1))
    BY PositiveRootIs
  <2> QED BY <2>1, <2>2, <1>6
<1> HIDE DEF r, t1
<1>13. ~ Negative(r)
  BY <1>11 DEF Negative
<1>14. PICK k \in Nat : k = Power(d) + P + Bias - 2 * Power(r) /\ k \in 0 .. 2 * P + 2 /\ k = t + P + (bb - 1)
  <2>1. PICK p \in Nat, c \in Nat, pw \in Nat : p = P /\ c = Bias /\ pw = Power(d)
    BY Widths, SignificandIs
  <2>2. PICK mh \in Int, mb \in {0, 1} : mh = m \div 2 /\ mb = m % 2 /\ m = 2 * mh + mb
    OBVIOUS
  <2>3. m = pw - t - c /\ X = c + mh /\ t <= p /\ bb = mb + 1
    BY <1>3, <1>8, <1>10, <2>1, <2>2
  <2>4. pw + p + c - 2 * X = t + p + (bb - 1) /\ t + p + (bb - 1) \in 0 .. 2 * p + 2
    BY <2>2, <2>3
  <2> QED BY <2>1, <2>4, <1>11
<1>15. 4 * Significand(d) * 2 ^ k = D
  <2>1. PICK T \in Nat, g \in Nat, p \in Nat, o \in {0, 1} :
          T = 2 ^ t /\ g = Significand(d) /\ p = P /\ o = bb - 1 /\ N0 = g * T /\ k = t + p + o
    <3>1. 2 ^ t \in Nat /\ Significand(d) \in Nat /\ P \in Nat /\ bb - 1 \in {0, 1}
      BY PowerType, SignificandIs, Widths
    <3> QED BY <3>1, <1>3, <1>14
  <2>2. 2 ^ o = bb
    <3>1. 2 ^ 0 = 1 /\ 2 ^ (0 + 1) = 2 * 2 ^ 0
      BY PowerOfZero, PowerDoubles
    <3>2. 2 ^ 1 = 2 /\ 2 ^ 0 = 1
      BY <3>1
    <3>3. (o = 0 /\ bb = 1) \/ (o = 1 /\ bb = 2)
      BY <2>1
    <3> QED BY <3>2, <3>3
  <2>3. 2 ^ (t + p + o) = T * pp * bb
    <3>1. 2 ^ (t + p) = T * pp
      BY <2>1, <1>8, PowerOfSum
    <3>2. t + p \in Nat /\ o \in Nat /\ 2 ^ ((t + p) + o) = 2 ^ (t + p) * 2 ^ o
      BY <2>1, PowerOfSum
    <3> QED BY <2>2, <3>1, <3>2
  <2>4. PICK j \in Nat : j = bb
    OBVIOUS
  <2>5. 4 * g * (T * pp * j) = (4 * j) * (pp * (g * T))
    OBVIOUS
  <2> QED BY <2>1, <2>3, <2>4, <2>5, <1>8
<1> QED BY <1>2, <1>9, <1>11, <1>12, <1>13, <1>14, <1>15

LEMMA NearestOnes == x \in Doubles => ResultsAreNearest
<1> SUFFICES ASSUME x \in Doubles, finite(x), ~ IsZero(x)
             PROVE  ScalingRoundsOnce /\ RootIsNearest
  BY DEF ResultsAreNearest
<1>1. ASSUME NEW exp \in Exponents
      PROVE  LET d == scalbn(x, exp)
             IN  /\ SignBit(d) = SignBit(x)
                 /\ IF Overflows(Units(x), exp) THEN d = Infinity(SignBit(x))
                    ELSE finite(d) /\ Units(d) = Scaled(Units(x), exp)
                 /\ RangeError(d) <=> Overflows(Units(x), exp) \/ Underflows(Units(x), exp)
  BY ScalesOnce
<1>2. ScalingRoundsOnce
  BY <1>1 DEF ScalingRoundsOnce
<1>3. ASSUME ~ Negative(x), RootIsNormal, NEW whole \in BOOLEAN
      PROVE  LET root  == sqrt(x, whole)
                 twice == 2 * Significand(root)
                 k     == Power(x) + P + Bias - 2 * Power(root)
             IN  /\ finite(root) /\ ~ Negative(root)
                 /\ k \in 0 .. 2 * P + 2
                 /\ (twice - 1) * (twice - 1) <= 4 * Significand(x) * 2 ^ k
                 /\ 4 * Significand(x) * 2 ^ k <= (twice + 1) * (twice + 1)
  <2>1. Exponent(x) > 0 \/ Bits(x) >= 2 ^ Max({0, P + 1 - Bias})
    BY <1>3 DEF RootIsNormal
  <2> QED BY <2>1, <1>3, RootNearest
<1>4. RootIsNearest
  BY <1>3 DEF RootIsNearest
<1> QED BY <1>2, <1>4

(***************************************************************************)
(* ResultsAreNearest: what scalbn and sqrt return is the double nearest to *)
(* the exact result, rounded once, or, where there is none, infinity, and  *)
(* ldexp reports what is out of range.                                     *)
(***************************************************************************)
THEOREM RoundsOnce == Spec => []ResultsAreNearest
<1>1. TypeOK => ResultsAreNearest
  <2>1. TypeOK => x \in Doubles
    BY DEF TypeOK
  <2> QED BY <2>1, NearestOnes
<1> QED BY <1>1, TypeCorrect, PTL

(***************************************************************************)
(* The remainder of fmod.  The words left of a number match units of it    *)
(* when they are the units, k places on.                                   *)
(***************************************************************************)
Matches(units, k, words) ==
  IF k >= 0 THEN words = units * 2 ^ k ELSE units = words * 2 ^ (-k)

LEMMA MatchesIs ==
  ASSUME NEW u \in Nat, NEW k \in Int, NEW w \in Nat, Matches(u, k, w)
  PROVE  w = ShiftUnits(u, k) /\ (w = 0 <=> u = 0)
<1>1. CASE k >= 0
  <2>1. PICK d \in Nat : d = 2 ^ k /\ d > 0
    BY <1>1, PowerType
  <2>2. w = u * d
    BY <2>1, <1>1 DEF Matches
  <2>3. w = 0 => u = 0
    BY <2>1, <2>2
  <2>4. u = 0 => w = 0
    BY <2>1, <2>2
  <2> QED BY <2>1, <2>2, <2>3, <2>4, <1>1 DEF ShiftUnits
<1>2. CASE ~ k >= 0
  <2>1. -k \in Nat
    BY <1>2
  <2>2. PICK d \in Nat : d = 2 ^ (-k) /\ d > 0
    BY <2>1, PowerType
  <2>3. u = w * d
    BY <2>2, <1>2 DEF Matches
  <2>4. u \div d = w
    <3>1. w \in Int
      OBVIOUS
    <3> QED BY <3>1, <2>2, <2>3, Multiple
  <2>5. w = 0 => u = 0
    BY <2>2, <2>3
  <2>6. u = 0 => w = 0
    BY <2>2, <2>3
  <2> QED BY <2>2, <2>4, <2>5, <2>6, <1>2 DEF ShiftUnits
<1> QED BY <1>1, <1>2

(* What matches two numbers has the remainder that matches theirs.         *)
LEMMA MatchesRest ==
  ASSUME NEW u \in Nat, NEW d \in Nat, d > 0, NEW k \in Int, NEW v \in Nat, NEW words \in Nat,
         Matches(u, k, v), Matches(d, k, words)
  PROVE  words > 0 /\ v % words \in Nat /\ v % words < words /\ Matches(u % d, k, v % words)
<1>1. words > 0
  <2>1. words # 0
    BY MatchesIs
  <2> QED BY <2>1
<1>2. v % words \in Nat /\ v % words < words
  BY <1>1, Quotients
<1>3. CASE k >= 0
  <2>1. PICK c \in Nat : c = 2 ^ k /\ c > 0
    BY <1>3, PowerType
  <2>2. v = u * c /\ words = d * c
    BY <2>1, <1>3 DEF Matches
  <2>3. (u * c) % (d * c) = (u % d) * c
    <3>1. u \in Int
      OBVIOUS
    <3> QED BY <3>1, <2>1, DividedScaled
  <2> QED BY <2>1, <2>2, <2>3, <1>1, <1>2, <1>3 DEF Matches
<1>4. CASE ~ k >= 0
  <2>1. -k \in Nat
    BY <1>4
  <2>2. PICK c \in Nat : c = 2 ^ (-k) /\ c > 0
    BY <2>1, PowerType
  <2>3. u = v * c /\ d = words * c
    BY <2>2, <1>4 DEF Matches
  <2>4. (v * c) % (words * c) = (v % words) * c
    <3>1. v \in Int
      OBVIOUS
    <3> QED BY <3>1, <2>2, <1>1, DividedScaled
  <2> QED BY <2>2, <2>3, <2>4, <1>1, <1>2, <1>4 DEF Matches
<1> QED BY <1>1, <1>2, <1>3, <1>4

(* One place more is twice the words.                                      *)
LEMMA MatchesTwice ==
  ASSUME NEW u \in Nat, NEW k \in Int, NEW w \in Nat, Matches(u, k, w)
  PROVE  Matches(u, k + 1, 2 * w)
<1>1. CASE k >= 0
  <2>1. PICK d \in Nat : d = 2 ^ k /\ 2 ^ (k + 1) = 2 * d
    BY <1>1, PowerType, PowerDoubles
  <2>2. w = u * d
    BY <2>1, <1>1 DEF Matches
  <2>3. u * (2 * d) = 2 * (u * d)
    OBVIOUS
  <2>4. k + 1 >= 0
    BY <1>1
  <2> QED BY <2>1, <2>2, <2>3, <2>4 DEF Matches
<1>2. CASE k + 1 = 0
  <2>1. 2 ^ (-k) = 2
    <3>1. 2 ^ (0 + 1) = 2 * 2 ^ 0
      BY PowerDoubles
    <3>2. 2 * 2 ^ 0 = 2
      BY PowerOfZero
    <3>3. -k = 0 + 1
      BY <1>2
    <3> QED BY <3>1, <3>2, <3>3
  <2>2. u = w * 2
    BY <2>1, <1>2 DEF Matches
  <2>4. 2 ^ (k + 1) = 1
    BY <1>2, PowerOfZero
  <2>5. 2 * w = u * 1
    BY <2>2
  <2> QED BY <2>4, <2>5, <1>2 DEF Matches
<1>3. CASE k + 1 < 0
  <2>1. PICK j \in Nat : j = -(k + 1) /\ -k = j + 1
    BY <1>3
  <2>2. PICK d \in Nat : d = 2 ^ j /\ 2 ^ (j + 1) = 2 * d
    BY PowerType, PowerDoubles
  <2>3. u = w * (2 * d)
    BY <2>1, <2>2, <1>3 DEF Matches
  <2>4. w * (2 * d) = (2 * w) * d
    OBVIOUS
  <2>5. ~ k + 1 >= 0
    BY <1>3
  <2> QED BY <2>1, <2>2, <2>3, <2>4, <2>5 DEF Matches
<1> QED BY <1>1, <1>2, <1>3

(* Of two numbers, the one with the larger bits is the larger one.         *)
LEMMA UnitsOrdered ==
  ASSUME NEW c \in Doubles, NEW d \in Doubles, Bits(c) < Bits(d)
  PROVE  Units(c) < Units(d)
<1>1. PICK pp \in Nat : pp = 2 ^ P /\ pp > 0
  BY Halfs
<1>2. PICK ec \in Nat, fc \in Nat :
        ec = Exponent(c) /\ fc = Fraction(c) /\ fc < pp /\ Bits(c) = ec * pp + fc
  <2>1. Exponent(c) \in Nat
    BY DoubleIs, Widths
  <2> QED BY <2>1, <1>1, DoubleIs
<1>3. PICK ed \in Nat, fd \in Nat :
        ed = Exponent(d) /\ fd = Fraction(d) /\ fd < pp /\ Bits(d) = ed * pp + fd
  <2>1. Exponent(d) \in Nat
    BY DoubleIs, Widths
  <2> QED BY <2>1, <1>1, DoubleIs
<1>4. ec <= ed
  <2> SUFFICES ASSUME ed < ec PROVE FALSE
    OBVIOUS
  <2>1. ed * pp + pp <= ec * pp /\ ed * pp \in Nat /\ ec * pp \in Nat
    BY FactorsOrdered
  <2> QED BY <2>1, <1>2, <1>3
<1>5. /\ ec = 0 => Units(c) = fc
      /\ ec > 0 => Units(c) = (pp + fc) * 2 ^ (ec - 1)
  <2>1. ec = 0 => Units(c) = ec * pp + fc
    BY <1>2, UnitsAre
  <2>2. ec > 0 => Units(c) = (pp + fc) * 2 ^ (ec - 1)
    BY <1>1, <1>2, UnitsAre
  <2> QED BY <2>1, <2>2
<1>6. /\ ed = 0 => Units(d) = fd
      /\ ed > 0 => Units(d) = (pp + fd) * 2 ^ (ed - 1)
  <2>1. ed = 0 => Units(d) = ed * pp + fd
    BY <1>3, UnitsAre
  <2>2. ed > 0 => Units(d) = (pp + fd) * 2 ^ (ed - 1)
    BY <1>1, <1>3, UnitsAre
  <2> QED BY <2>1, <2>2
<1>7. CASE ed = ec
  <2>1. fc < fd
    BY <1>2, <1>3, <1>7
  <2>2. CASE ec = 0
    BY <2>1, <2>2, <1>5, <1>6, <1>7
  <2>3. CASE ec > 0
    <3>1. PICK g \in Nat : g = 2 ^ (ec - 1) /\ g > 0
      <4>1. ec - 1 \in Nat
        BY <2>3
      <4> QED BY <4>1, PowerType
    <3>2. pp + fc < pp + fd
      BY <2>1
    <3>3. (pp + fc) * g + g <= (pp + fd) * g /\ (pp + fc) * g \in Int /\ (pp + fd) * g \in Int
      BY <3>2, FactorsOrdered
    <3> QED BY <3>1, <3>3, <2>3, <1>5, <1>6, <1>7
  <2> QED BY <2>2, <2>3
<1>8. CASE ec < ed
  <2>1. PICK k \in Nat, g \in Nat : k = ed - 1 /\ g = 2 ^ k /\ g > 0
    <3>1. ed - 1 \in Nat
      BY <1>8
    <3> QED BY <3>1, PowerType
  <2>2. pp * g <= Units(d) /\ pp * g \in Nat /\ Units(d) \in Nat
    <3>1. pp * g <= (pp + fd) * g /\ pp * g \in Nat
      BY ProductGrows
    <3> QED BY <3>1, <2>1, <1>6, <1>8, UnitsAre
  <2>3. CASE ec = 0
    <3>1. 1 * pp <= g * pp
      BY <2>1, ProductGrows
    <3> QED BY <3>1, <2>2, <2>3, <1>2, <1>5
  <2>4. CASE ec > 0
    <3>1. PICK j \in Nat, e \in Nat : j = ec - 1 /\ j < k /\ e = 2 ^ j /\ e > 0
      <4>1. ec - 1 \in Nat /\ ec - 1 < k
        BY <2>1, <2>4, <1>8
      <4> QED BY <4>1, PowerType
    <3>2. 2 * e <= g
      BY <2>1, <3>1, PowerSplits
    <3>3. (pp + fc) * e + e <= (2 * pp) * e /\ (pp + fc) * e \in Nat /\ (2 * pp) * e \in Nat
      <4>1. pp + fc < 2 * pp
        BY <1>2
      <4> QED BY <4>1, FactorsOrdered
    <3>4. (2 * e) * pp <= g * pp
      BY <3>2, ProductGrows
    <3>5. (2 * e) * pp = (2 * pp) * e /\ g * pp = pp * g
      OBVIOUS
    <3> QED BY <3>1, <3>3, <3>4, <3>5, <2>2, <2>4, <1>5
  <2> QED BY <2>3, <2>4
<1> QED BY <1>4, <1>7, <1>8

(* A low high word, as an int and as bits.                                 *)
LEMMA HighWordIs ==
  ASSUME NEW u \in Doubles, u.lo = 0, u.hi < 4 * 2 ^ H
  PROVE  Signed(u.hi) = u.hi /\ Bits(u) = u.hi * Word /\ Magnitude(u) = u.hi
<1>1. PICK h \in Nat, g \in Nat, m \in Nat :
        /\ g = 2 ^ H /\ g > 0 /\ h = Word \div 2 /\ h > 0 /\ m = MaxExp /\ m >= 9
        /\ h = (m + 1) * g
  <2>1. MaxExp \in Nat /\ MaxExp >= 9
    BY Widths
  <2> QED BY <2>1, Halfs
<1>2. u.hi < h
  <2>1. 4 * g <= (m + 1) * g
    BY <1>1, ProductGrows
  <2>2. u.hi < 4 * g /\ u.hi \in Nat
    BY <1>1, DoubleIs
  <2> QED BY <1>1, <2>1, <2>2
<1>3. u.hi \in 0 .. Word - 1 /\ u.hi \in Nat
  BY DoubleIs DEF Doubles
<1>4. Signed(u.hi) = u.hi
  BY <1>1, <1>2, <1>3, SignedIs
<1>5. Magnitude(u) = u.hi
  <2>1. u.hi \in 0 .. (h - 1)
    BY <1>2, <1>3
  <2>2. u.hi % h = u.hi
    BY <2>1, <1>1, DividedSmall
  <2> QED BY <2>2, <1>1 DEF Magnitude
<1>6. Bits(u) = u.hi * Word
  BY <1>3, <1>5, WordIs DEF Bits
<1> QED BY <1>4, <1>5, <1>6

(* A number whose low word is zero is one of high words.                   *)
LEMMA ShortIs ==
  ASSUME NEW d \in Doubles, d.lo = 0
  PROVE  \E s \in Nat, u \in Nat :
           /\ Significand(d) = s * Word /\ Units(d) = u * Word
           /\ s = IF Exponent(d) = 0 THEN Magnitude(d) ELSE 2 ^ H + (d.hi % 2 ^ H)
<1>1. PICK g \in Nat, w \in Nat, pp \in Nat : g = 2 ^ H /\ w = Word /\ pp = 2 ^ P /\ pp = g * w
  BY Halfs
<1>2. PICK f \in Nat, m \in Nat :
        /\ f = d.hi % 2 ^ H /\ m = Magnitude(d) /\ Fraction(d) = f * w /\ Bits(d) = m * w
  <2>1. PICK f \in Nat, m \in Nat : f = d.hi % 2 ^ H /\ m = Magnitude(d) /\ Bits(d) = m * Word + d.lo
    BY DoubleIs
  <2>2. Fraction(d) = f * w
    <3>1. f * w + 0 = f * w
      OBVIOUS
    <3> QED BY <3>1, <2>1, <1>1 DEF Fraction
  <2>3. m * w + 0 = m * w
    OBVIOUS
  <2> QED BY <2>1, <2>2, <2>3, <1>1
<1>3. PICK s \in Nat : /\ s = IF Exponent(d) = 0 THEN m ELSE g + f
                       /\ Significand(d) = s * w
  <2>1. CASE Exponent(d) = 0
    BY <2>1, <1>2, SignificandIs
  <2>2. CASE Exponent(d) # 0
    <3>1. Significand(d) = pp + f * w
      BY <2>2, <1>1, <1>2, SignificandIs
    <3>2. (g + f) * w = g * w + f * w
      OBVIOUS
    <3> QED BY <3>1, <3>2, <2>2, <1>1
  <2> QED BY <2>1, <2>2
<1>4. PICK e \in Nat : e = 2 ^ (Power(d) - 1)
  <2>1. Power(d) - 1 \in Nat
    BY SignificandIs
  <2> QED BY <2>1, PowerType
<1>5. Units(d) = (s * e) * w
  <2>1. Units(d) = (s * w) * e
    BY <1>3, <1>4, SignificandIs
  <2>2. (s * w) * e = (s * e) * w
    OBVIOUS
  <2> QED BY <2>1, <2>2
<1>6. s * e \in Nat
  OBVIOUS
<1> QED BY <1>1, <1>2, <1>3, <1>5, <1>6

(* Normalizing such a number puts its first bit in its place, c places on, *)
(* and takes them off its exponent.                                        *)
LEMMA NormalizedShort ==
  ASSUME NEW d \in Doubles, d.lo = 0, ~ IsZero(d)
  PROVE  \E c \in Nat, hi \in Nat :
           /\ LogB(Magnitude(d), d.lo) = Power(d) - Bias - c
           /\ Normalized(Magnitude(d), d.lo) = Double(hi, 0)
           /\ 2 ^ H <= hi /\ hi < 2 * 2 ^ H /\ hi * Word = Significand(d) * 2 ^ c
           /\ c > 0 => Exponent(d) = 0
<1>1. PICK g \in Nat, h \in Nat, w \in Nat, q \in Nat, m \in Nat :
        /\ g = 2 ^ H /\ g > 0 /\ w = Word /\ w > 0 /\ h = Word \div 2 /\ h > 0 /\ w = 2 * h /\ q = Bias
        /\ m = Magnitude(d) /\ m < h
  <2>1. PICK h \in Nat, g \in Nat, w \in Nat :
          g = 2 ^ H /\ g > 0 /\ h = Word \div 2 /\ h > 0 /\ w = Word /\ w = 2 * h
    BY Halfs
  <2>2. PICK m \in Nat : m = Magnitude(d) /\ m < h
    BY <2>1, DoubleIs
  <2>3. PICK q \in Nat : q = Bias
    BY Widths
  <2>4. w > 0
    BY <2>1
  <2> QED BY <2>1, <2>2, <2>3, <2>4
<1>2. PICK s \in Nat : Significand(d) = s * w /\ s = IF Exponent(d) = 0 THEN m ELSE g + (d.hi % 2 ^ H)
  BY <1>1, ShortIs
<1>3. PICK e \in Nat, f \in Nat :
        /\ e = Exponent(d) /\ f = d.hi % 2 ^ H /\ f < g /\ m = e * g + f
        /\ Power(d) = IF e = 0 THEN 1 ELSE e
  <2>1. Exponent(d) \in Nat
    BY DoubleIs, Widths
  <2> QED BY <2>1, <1>1, DoubleIs, SignificandIs
<1>4. m > 0
  <2>1. m # 0
    BY <1>1 DEF IsZero
  <2> QED BY <2>1
<1>5. m \div g = e /\ m % g = f
  <2>1. f \in 0 .. (g - 1) /\ g > 0
    BY <1>1, <1>3
  <2>2. m = e * g + f
    BY <1>3
  <2> QED BY <2>1, <2>2, Euclid
<1>6. CASE e > 0
  <2>1. m >= g
    <3>1. 1 * g <= e * g
      BY <1>6, ProductGrows
    <3> QED BY <3>1, <1>3
  <2>2. LogB(Magnitude(d), d.lo) = e - Bias
    BY <2>1, <1>1, <1>5 DEF LogB
  <2>3. PICK shift \in Int : shift = -(Bias - 1) - LogB(Magnitude(d), d.lo) /\ shift <= 0
    <3>1. -(q - 1) - (e - q) = 1 - e
      OBVIOUS
    <3> QED BY <3>1, <2>2, <1>1, <1>6
  <2>4. Normalized(Magnitude(d), d.lo) = Double(g + f, 0)
    <3>1. Normalized(Magnitude(d), d.lo) = Double(2 ^ H + (Magnitude(d) % 2 ^ H), d.lo)
      BY <2>3 DEF Normalized
    <3> QED BY <3>1, <1>1, <1>5
  <2>5. s = g + f
    BY <1>2, <1>3, <1>6
  <2>6. (g + f) * w = (s * w) * 1
    BY <2>5
  <2>7. LogB(Magnitude(d), d.lo) = Power(d) - Bias - 0
    <3>1. e - q - 0 = e - q
      OBVIOUS
    <3>2. Power(d) = e
      BY <1>3, <1>6
    <3>3. LogB(Magnitude(d), d.lo) = e - q /\ Bias = q
      BY <2>2, <1>1
    <3> QED BY <3>1, <3>2, <3>3
  <2>8. g <= g + f /\ g + f < 2 * g /\ g + f \in Nat
    <3>1. f < g
      BY <1>3
    <3> QED BY <3>1
  <2>9. (g + f) * Word = Significand(d) * 2 ^ 0
    BY <2>6, <1>1, <1>2, PowerOfZero
  <2>10. ~ 0 > 0 /\ 0 \in Nat
    OBVIOUS
  <2> QED BY <2>4, <2>7, <2>8, <2>9, <2>10, <1>1
<1>7. CASE e = 0
  <2>1. s = m /\ m < g
    BY <1>2, <1>3, <1>7
  <2>2. PICK k \in Nat : k = 2 ^ E /\ k > 0 /\ h = k * g
    <3>1. E \in Nat
      BY Widths
    <3>2. PICK k \in Nat : k = 2 ^ E /\ k > 0
      BY <3>1, PowerType
    <3>3. k = MaxExp + 1
      BY <3>2, Widths
    <3> QED BY <3>2, <3>3, <1>1, Halfs
  <2>3. PICK v \in Nat : v = m * k /\ v > 0 /\ v < h
    <3>1. m * k + k <= g * k /\ m * k \in Nat /\ g * k \in Nat
      BY <2>1, FactorsOrdered
    <3>2. 1 * k <= m * k
      BY <1>4, ProductGrows
    <3>3. g * k = k * g
      OBVIOUS
    <3> QED BY <3>1, <3>2, <3>3, <2>2
  <2>4. Shl(m, E) = v
    <3>1. v \in 0 .. (w - 1)
      BY <2>3, <1>1
    <3>2. v % w = v
      BY <3>1, <1>1, DividedSmall
    <3> QED BY <3>2, <2>2, <2>3, <1>1 DEF Shl, Wrap
  <2>5. PICK c \in Nat :
          /\ c = LeadingZeros(v) /\ c \in 0 .. W - 1 /\ v * 2 ^ c >= h
          /\ \A j \in 0 .. W - 1 : v * 2 ^ j >= h => c <= j
    <3>1. v \in 0 .. Word - 1
      BY <2>3, <1>1
    <3>2. LeadingZeros(v) \in Nat
      BY <3>1, LeadingZerosIs, Widths
    <3> QED BY <3>1, <3>2, <2>3, <1>1, LeadingZerosIs
  <2>6. ASSUME NEW j \in Nat PROVE v * 2 ^ j >= h <=> m * 2 ^ j >= g
    <3>1. PICK t \in Nat : t = 2 ^ j
      BY PowerType
    <3>2. PICK mt \in Nat : mt = m * t
      OBVIOUS
    <3>3. v * t = mt * k
      <4>1. (m * k) * t = (m * t) * k
        OBVIOUS
      <4> QED BY <4>1, <3>2, <2>3
    <3>4. mt >= g => mt * k >= g * k
      BY ProductGrows
    <3>5. mt < g => mt * k + k <= g * k /\ mt * k \in Nat /\ g * k \in Nat
      BY FactorsOrdered
    <3>6. mt * k >= g * k => mt >= g
      BY <3>5, <2>2
    <3>7. g * k = h
      BY <2>2
    <3> QED BY <3>1, <3>2, <3>3, <3>4, <3>6, <3>7
  <2>7. PICK hi \in Nat : hi = m * 2 ^ c /\ hi >= g
    <3>1. m * 2 ^ c \in Nat
      BY PowerType
    <3> QED BY <3>1, <2>5, <2>6
  <2>8. c > 0
    <3>1. c = 0 => m * 2 ^ c = m
      BY PowerOfZero
    <3> QED BY <3>1, <2>1, <2>7
  <2>9. hi < 2 * g
    <3>1. PICK j \in Nat, t \in Nat : j + 1 = c /\ j \in 0 .. W - 1 /\ t = 2 ^ j /\ 2 ^ c = 2 * t
      <4>1. c - 1 \in Nat /\ (c - 1) + 1 = c /\ c - 1 \in 0 .. W - 1
        BY <2>5, <2>8, Widths
      <4> QED BY <4>1, PowerType, PowerDoubles
    <3>2. ~ c <= j
      BY <3>1
    <3>3. ~ m * t >= g
      BY <3>1, <3>2, <2>5, <2>6
    <3>4. m * (2 * t) = 2 * (m * t)
      OBVIOUS
    <3> QED BY <3>1, <3>3, <3>4, <2>7
  <2>10. LogB(Magnitude(d), d.lo) = -(Bias - 1) - c
    <3>1. ~ m >= 2 ^ H /\ m # 0
      BY <2>1, <1>1, <1>4
    <3> QED BY <3>1, <2>4, <2>5, <1>1 DEF LogB
  <2>11. -(Bias - 1) - LogB(Magnitude(d), d.lo) = c
    <3>1. -(q - 1) - (-(q - 1) - c) = c
      OBVIOUS
    <3> QED BY <3>1, <2>10, <1>1
  <2>12. ~ c <= 0 /\ c < W
    BY <2>5, <2>8, Widths
  <2>13. Normalized(m, 0) = Double(BitOr(Shl(m, c), Sar(0, W - c)), Shl(0, c))
    BY <2>11, <2>12, <1>1 DEF Normalized
  <2>14. Sar(0, W - c) = 0 /\ Shl(0, c) = 0
    <3>1. 0 \in 0 .. (w - 1)
      BY <1>1
    <3>2. 0 % w = 0
      BY <3>1, <1>1, DividedSmall
    <3>3. PICK t \in Nat : t = 2 ^ (W - c) /\ t > 0
      <4>1. W - c \in Nat
        BY <2>12, Widths
      <4> QED BY <4>1, PowerType
    <3>4. 0 \div t = 0
      <4>1. 0 \in 0 .. (t - 1)
        BY <3>3
      <4> QED BY <4>1, <3>3, DividedSmall
    <3>5. Signed(0) = 0
      BY <1>1 DEF Signed
    <3>6. Sar(0, W - c) = 0
      BY <3>2, <3>3, <3>4, <3>5, <1>1 DEF Sar, Wrap
    <3>7. 0 * 2 ^ c = 0
      BY PowerType
    <3> QED BY <3>2, <3>6, <3>7, <1>1 DEF Shl, Wrap
  <2>15. hi < w
    <3>1. 1 * g <= k * g
      BY <2>2, ProductGrows
    <3> QED BY <3>1, <2>2, <2>9, <1>1
  <2>16. Shl(m, c) = hi
    <3>1. hi \in 0 .. (w - 1)
      BY <2>15
    <3>2. hi % w = hi
      BY <3>1, <1>1, DividedSmall
    <3> QED BY <3>2, <2>7, <1>1 DEF Shl, Wrap
  <2>17. BitOr(hi, 0) = hi
    <3>1. W \in 0 .. W
      BY Widths
    <3>2. 0 * 2 ^ W = 0 /\ hi < 2 ^ W /\ 0 < Word
      BY <2>15, <1>1, WordIs
    <3>3. 0 \in Nat
      OBVIOUS
    <3>4. BitOr(hi, 0 * 2 ^ W) = hi + 0 * 2 ^ W
      BY <3>1, <3>2, <3>3, OrDisjoint
    <3> QED BY <3>2, <3>4
  <2>18. Normalized(Magnitude(d), d.lo) = Double(hi, 0)
    BY <2>13, <2>14, <2>16, <2>17, <1>1
  <2>19. LogB(Magnitude(d), d.lo) = Power(d) - Bias - c
    <3>1. -(q - 1) - c = 1 - q - c
      OBVIOUS
    <3> QED BY <3>1, <2>10, <1>1, <1>3, <1>7
  <2>20. hi * Word = Significand(d) * 2 ^ c
    <3>1. PICK t \in Nat : t = 2 ^ c
      BY PowerType
    <3>2. (m * t) * w = (m * w) * t
      OBVIOUS
    <3> QED BY <3>1, <3>2, <2>1, <2>7, <1>1, <1>2
  <2> QED BY <2>7, <2>9, <2>18, <2>19, <2>20, <1>1, <1>3, <1>7
<1> QED BY <1>6, <1>7

(* Two numbers that fmod begins to divide. *)
Reducible(c, d) ==
  /\ finite(c) /\ finite(d) /\ ~ IsZero(d) /\ c.lo = 0 /\ d.lo = 0
  /\ Magnitude(d) < Magnitude(c)

(* When the loop begins, the words of both match the numbers they were     *)
(* made of, those of the dividend with the turns to come as places.        *)
LEMMA ReductionBegins ==
  ASSUME NEW c \in Doubles, NEW d \in Doubles, Reducible(c, d)
  PROVE  \E hc \in Nat, hd \in Nat, i \in Int, t \in Nat, k \in Int :
           /\ Normalized(Magnitude(c), c.lo) = Double(hc, 0)
           /\ Normalized(Magnitude(d), d.lo) = Double(hd, 0)
           /\ LogB(Magnitude(d), d.lo) = i /\ LogB(Magnitude(c), c.lo) = i + t
           /\ k = -(Bias - 1) - i /\ i + Bias < MaxExp
           /\ hc < 2 * 2 ^ H /\ 2 ^ H <= hd /\ hd < 2 * 2 ^ H
           /\ Matches(Units(d), k, hd * Word)
           /\ Matches(Units(c), k, (hc * Word) * 2 ^ t)
<1>1. PICK g \in Nat, w \in Nat, q \in Nat, top \in Nat :
        g = 2 ^ H /\ g > 0 /\ w = Word /\ w > 0 /\ q = Bias /\ top = MaxExp
  <2>1. Bias \in Nat /\ MaxExp \in Nat
    BY Widths
  <2>2. PICK g \in Nat : g = 2 ^ H /\ g > 0
    BY Halfs
  <2> QED BY <2>1, <2>2, WordIs
<1>2. ~ IsZero(c) /\ ~ IsZero(d) /\ c.lo = 0 /\ d.lo = 0
  <2>1. Magnitude(d) \in Nat /\ Magnitude(c) \in Nat
    BY DoubleIs
  <2> QED BY <2>1 DEF Reducible, IsZero
<1>3. PICK cc \in Nat, hc \in Nat :
        /\ LogB(Magnitude(c), c.lo) = Power(c) - Bias - cc
        /\ Normalized(Magnitude(c), c.lo) = Double(hc, 0)
        /\ 2 ^ H <= hc /\ hc < 2 * 2 ^ H /\ hc * Word = Significand(c) * 2 ^ cc
        /\ cc > 0 => Exponent(c) = 0
  BY <1>2, NormalizedShort
<1>4. PICK cd \in Nat, hd \in Nat :
        /\ LogB(Magnitude(d), d.lo) = Power(d) - Bias - cd
        /\ Normalized(Magnitude(d), d.lo) = Double(hd, 0)
        /\ 2 ^ H <= hd /\ hd < 2 * 2 ^ H /\ hd * Word = Significand(d) * 2 ^ cd
        /\ cd > 0 => Exponent(d) = 0
  BY <1>2, NormalizedShort
<1>5. PICK ec \in Nat, sc \in Nat, pc0 \in Nat :
        /\ ec = Exponent(c) /\ sc = Significand(c) /\ pc0 = Power(c)
        /\ pc0 = (IF ec = 0 THEN 1 ELSE ec) /\ Units(c) = sc * 2 ^ (pc0 - 1)
  <2>1. Exponent(c) \in Nat
    BY DoubleIs, Widths
  <2>2. Significand(c) \in Nat /\ Power(c) \in Nat
    BY SignificandIs
  <2> QED BY <2>1, <2>2, SignificandIs
<1>6. PICK ed \in Nat, sd \in Nat, pd \in Nat :
        /\ ed = Exponent(d) /\ sd = Significand(d) /\ pd = Power(d)
        /\ pd = (IF ed = 0 THEN 1 ELSE ed) /\ Units(d) = sd * 2 ^ (pd - 1) /\ ed < top
  <2>1. Exponent(d) \in Nat
    BY DoubleIs, Widths
  <2>2. Significand(d) \in Nat /\ Power(d) \in Nat
    BY SignificandIs
  <2>3. Exponent(d) < top
    BY <1>1, DoubleIs DEF Reducible
  <2> QED BY <2>1, <2>2, <2>3, SignificandIs
<1>7. Bits(d) < Bits(c) /\ ed <= ec /\ (ec = 0 => sd < sc)
  <2>1. PICK mc \in Nat, md \in Nat :
          mc = Magnitude(c) /\ md = Magnitude(d) /\ Bits(c) = mc * w /\ Bits(d) = md * w /\ md < mc
    <3>1. PICK mc \in Nat : mc = Magnitude(c) /\ Bits(c) = mc * w + 0
      BY <1>1, <1>2, DoubleIs
    <3>2. PICK md \in Nat : md = Magnitude(d) /\ Bits(d) = md * w + 0
      BY <1>1, <1>2, DoubleIs
    <3>3. md < mc
      BY <3>1, <3>2 DEF Reducible
    <3>4. mc * w + 0 = mc * w /\ md * w + 0 = md * w
      OBVIOUS
    <3> QED BY <3>1, <3>2, <3>3, <3>4
  <2>2. Bits(d) < Bits(c)
    <3>1. md * w + w <= mc * w /\ md * w \in Int /\ mc * w \in Int
      BY <2>1, FactorsOrdered
    <3> QED BY <3>1, <2>1, <1>1
  <2>3. ed <= ec
    <3>1. md \div g <= mc \div g
      BY <2>1, <1>1, QuotientsOrdered
    <3> QED BY <3>1, <2>1, <1>1, <1>5, <1>6 DEF Exponent
  <2>4. ec = 0 => sd < sc
    <3>1. ec = 0 => sc = Bits(c)
      BY <1>5, SignificandIs
    <3>2. ec = 0 => sd = Bits(d)
      BY <2>3, <1>6, SignificandIs
    <3> QED BY <3>1, <3>2, <2>2
  <2> QED BY <2>2, <2>3, <2>4
<1>8. PICK A \in Nat, B \in Nat :
        A = hc * w /\ A = sc * 2 ^ cc /\ B = hd * w /\ B = sd * 2 ^ cd
  <2>1. hc * w \in Nat /\ hd * w \in Nat
    OBVIOUS
  <2>2. hc * w = sc * 2 ^ cc
    BY <1>1, <1>3, <1>5
  <2>3. hd * w = sd * 2 ^ cd
    BY <1>1, <1>4, <1>6
  <2> QED BY <2>1, <2>2, <2>3
<1>9. PICK i \in Int, k \in Int :
        /\ i = pd - q - cd /\ k = 1 - pd + cd /\ k = -(q - 1) - i
        /\ LogB(Magnitude(d), d.lo) = i /\ i + q < top
  <2>1. pd - q - cd \in Int /\ 1 - pd + cd \in Int /\ 1 - pd + cd = -(q - 1) - (pd - q - cd)
    OBVIOUS
  <2>2. LogB(Magnitude(d), d.lo) = pd - q - cd
    BY <1>1, <1>4, <1>6
  <2>3. top >= 2
    BY <1>1, Widths
  <2>4. pd - q - cd + q < top
    BY <2>3, <1>6
  <2> QED BY <2>1, <2>2, <2>4
<1>10. LogB(Magnitude(c), c.lo) = pc0 - q - cc
  BY <1>1, <1>3, <1>5
<1>11. pd > 1 => cd = 0
  <2>1. pd > 1 => ed # 0
    BY <1>6
  <2> QED BY <2>1, <1>4, <1>6
<1>12. Matches(Units(d), k, B)
  <2>1. CASE pd = 1
    <3>1. k = cd /\ k >= 0 /\ pd - 1 = 0
      BY <2>1, <1>9
    <3>2. Units(d) = sd * 1
      BY <3>1, <1>6, PowerOfZero
    <3>3. Units(d) = sd
      BY <3>2
    <3> QED BY <3>1, <3>3, <1>8 DEF Matches
  <2>2. CASE pd # 1
    <3>1. pd > 1
      BY <2>2, <1>6
    <3>2. ~ k >= 0 /\ -k = pd - 1
      BY <3>1, <1>9, <1>11
    <3>3. B = sd * 1
      BY <3>1, <1>8, <1>11, PowerOfZero
    <3>4. B = sd
      BY <3>3
    <3> QED BY <3>2, <3>4, <1>6 DEF Matches
  <2> QED BY <2>1, <2>2
<1>13. \E t \in Nat : pc0 - q - cc = i + t /\ Matches(Units(c), k, A * 2 ^ t)
  <2>1. CASE ec > 0
    <3>1. cc = 0 /\ pc0 = ec
      <4>1. ec # 0
        BY <2>1
      <4> QED BY <4>1, <1>3, <1>5
    <3>2. A = sc
      <4>1. A = sc * 1
        BY <3>1, <1>8, PowerOfZero
      <4> QED BY <4>1
    <3>3. CASE pd = 1
      <4>1. PICK t \in Nat, j \in Nat : j = pc0 - 1 /\ t = j + cd
        <5>1. pc0 - 1 \in Nat
          BY <2>1, <3>1
        <5> QED BY <5>1
      <4>2. pc0 - q - cc = i + t
        BY <4>1, <3>1, <3>3, <1>9
      <4>3. k = cd /\ k >= 0
        BY <3>3, <1>9
      <4>4. PICK u \in Nat, v \in Nat : u = 2 ^ j /\ v = 2 ^ cd /\ 2 ^ t = u * v
        BY <4>1, PowerType, PowerOfSum
      <4>5. Units(c) = sc * u
        BY <4>1, <4>4, <1>5
      <4>6. A * (u * v) = (sc * u) * v
        BY <3>2
      <4> QED BY <4>2, <4>3, <4>4, <4>5, <4>6 DEF Matches
    <3>4. CASE pd # 1
      <4>1. pd > 1 /\ pd = ed /\ cd = 0
        <5>1. pd > 1
          BY <3>4, <1>6
        <5>2. pd = ed
          BY <3>4, <1>6
        <5> QED BY <5>1, <5>2, <1>11
      <4>2. PICK t \in Nat, j \in Nat : t = pc0 - pd /\ j = pd - 1 /\ pc0 - 1 = t + j
        <5>1. pc0 - pd \in Nat /\ pd - 1 \in Nat
          BY <4>1, <3>1, <1>7
        <5> QED BY <5>1
      <4>3. pc0 - q - cc = i + t
        BY <4>1, <4>2, <3>1, <1>9
      <4>4. ~ k >= 0 /\ -k = j
        BY <4>1, <4>2, <1>9
      <4>5. PICK u \in Nat, v \in Nat : u = 2 ^ t /\ v = 2 ^ j /\ 2 ^ (t + j) = u * v
        BY PowerType, PowerOfSum
      <4>6. Units(c) = sc * (u * v)
        BY <4>2, <4>5, <1>5
      <4>7. sc * (u * v) = (A * u) * v
        BY <3>2
      <4> QED BY <4>3, <4>4, <4>5, <4>6, <4>7 DEF Matches
    <3> QED BY <3>3, <3>4
  <2>2. CASE ec = 0
    <3>1. ed = 0 /\ pd = 1 /\ pc0 = 1 /\ sd < sc
      BY <2>2, <1>5, <1>6, <1>7
    <3>2. Units(c) = sc
      <4>1. Units(c) = sc * 1
        <5>1. pc0 - 1 = 0
          BY <3>1
        <5> QED BY <5>1, <1>5, PowerOfZero
      <4> QED BY <4>1
    <3>3. cc <= cd
      <4> SUFFICES ASSUME cd < cc PROVE FALSE
        OBVIOUS
      <4>1. PICK u \in Nat, v \in Nat : u = 2 ^ cd /\ v = 2 ^ cc /\ u > 0 /\ 2 * u <= v
        BY PowerType, PowerSplits
      <4>2. B = sd * u /\ A = sc * v
        BY <4>1, <1>8
      <4>3. (2 * u) * sc <= v * sc
        BY <4>1, ProductGrows
      <4>4. sd * u <= sc * u /\ sd * u \in Nat /\ sc * u \in Nat
        BY <3>1, ProductGrows
      <4>5. 2 * (sd * u) <= sc * v
        <5>1. (2 * u) * sc = 2 * (sc * u) /\ v * sc = sc * v
          OBVIOUS
        <5> QED BY <5>1, <4>3, <4>4
      <4>6. hc < 2 * hd
        BY <1>1, <1>3, <1>4
      <4>7. hc * w + w <= (2 * hd) * w
        BY <4>6, FactorsOrdered
      <4>8. (2 * hd) * w = 2 * (hd * w)
        OBVIOUS
      <4> QED BY <4>2, <4>5, <4>7, <4>8, <1>1, <1>8
    <3>4. PICK t \in Nat : t = cd - cc
      BY <3>3
    <3>5. pc0 - q - cc = i + t
      BY <3>1, <3>4, <1>9
    <3>6. k = cd /\ k >= 0
      BY <3>1, <1>9
    <3>7. PICK u \in Nat, v \in Nat : u = 2 ^ cc /\ v = 2 ^ t /\ 2 ^ cd = u * v
      <4>1. cd = cc + t
        BY <3>4
      <4> QED BY <4>1, PowerType, PowerOfSum
    <3>8. A = sc * u
      BY <3>7, <1>8
    <3>9. (sc * u) * v = sc * (u * v)
      OBVIOUS
    <3> QED BY <3>2, <3>5, <3>6, <3>7, <3>8, <3>9 DEF Matches
  <2> QED BY <2>1, <2>2
<1>14. PICK t \in Nat : pc0 - q - cc = i + t /\ Matches(Units(c), k, A * 2 ^ t)
  BY <1>13
<1> QED BY <1>1, <1>3, <1>4, <1>8, <1>9, <1>10, <1>12, <1>14

(* There are no bits in a low word of zero to shift into the high one.     *)
LEMMA NoBits ==
  ASSUME NEW k \in Nat
  PROVE  Sar(0, k) = 0 /\ Shl(0, k) = 0 /\ Shr(0, k) = 0
<1>1. PICK w \in Nat, h \in Nat : w = Word /\ h = Word \div 2 /\ w > 0 /\ h > 0
  BY Halfs
<1>2. PICK t \in Nat : t = 2 ^ k /\ t > 0
  BY PowerType
<1>3. 0 % w = 0 /\ 0 \div t = 0
  <2>1. 0 \in 0 .. (w - 1) /\ 0 \in 0 .. (t - 1)
    BY <1>1, <1>2
  <2> QED BY <2>1, <1>1, <1>2, DividedSmall
<1>4. Signed(0) = 0
  BY <1>1 DEF Signed
<1>5. 0 * t = 0
  OBVIOUS
<1> QED BY <1>1, <1>2, <1>3, <1>4, <1>5 DEF Sar, Shl, Shr, Wrap

LEMMA MinusIs ==
  ASSUME NEW u \in Doubles, NEW v \in Doubles, u.lo = 0, v.lo = 0, u.hi < 4 * 2 ^ H, v.hi < 4 * 2 ^ H
  PROVE  LET z == Minus(u, v)
         IN  /\ z \in Doubles /\ z.lo = 0 /\ Signed(z.hi) = u.hi - v.hi
             /\ u.hi >= v.hi => z.hi = u.hi - v.hi
<1>1. PICK g \in Nat, h \in Nat, w \in Nat, m \in Nat :
        /\ g = 2 ^ H /\ g > 0 /\ h = Word \div 2 /\ w = Word /\ w = 2 * h /\ m = MaxExp /\ m >= 9
        /\ h = (m + 1) * g
  <2>1. MaxExp \in Nat /\ MaxExp >= 9
    BY Widths
  <2>2. PICK g \in Nat, h \in Nat :
          /\ g = 2 ^ H /\ g > 0 /\ h = Word \div 2 /\ Word = 2 * h /\ h = (MaxExp + 1) * g
    BY Halfs
  <2> QED BY <2>1, <2>2
<1>2. PICK uh \in Nat, vh \in Nat : uh = u.hi /\ vh = v.hi /\ uh < 4 * g /\ vh < 4 * g
  BY <1>1, DoubleIs
<1>3. 4 * g <= h
  <2>1. 4 * g <= (m + 1) * g
    BY <1>1, ProductGrows
  <2> QED BY <2>1, <1>1
<1>4. Minus(u, v) = Double(Wrap(uh - vh), Wrap(0))
  <2>1. ~ Less(0, 0)
    <3>1. PICK s \in Int : s = Signed(0)
      BY <1>1 DEF Signed
    <3>2. ~ s < s
      OBVIOUS
    <3> QED BY <3>1, <3>2 DEF Less
  <2>2. uh - vh - 0 = uh - vh /\ 0 - 0 = 0
    OBVIOUS
  <2> QED BY <2>1, <2>2, <1>2 DEF Minus
<1>5. Wrap(0) = 0
  <2>1. 0 \in 0 .. (w - 1) /\ w > 0
    BY <1>1, <1>3
  <2> QED BY <2>1, <1>1, DividedSmall DEF Wrap
<1>6. Wrap(uh - vh) \in 0 .. Word - 1 /\ 0 \in 0 .. Word - 1
  <2>1. uh - vh \in Int
    OBVIOUS
  <2> QED BY <2>1, <1>5, WrapType
<1>7. Signed(Wrap(uh - vh)) = uh - vh
  <2>1. uh - vh \in -h .. h - 1
    BY <1>2, <1>3
  <2>2. uh - vh \in Ints
    BY <2>1, <1>1 DEF Ints
  <2> QED BY <2>2, AsIntSame DEF AsInt
<1>8. uh >= vh => Wrap(uh - vh) = uh - vh
  <2> SUFFICES ASSUME uh >= vh PROVE Wrap(uh - vh) = uh - vh
    OBVIOUS
  <2>1. PICK r \in 0 .. (w - 1) : r = uh - vh /\ w > 0
    BY <1>1, <1>2, <1>3
  <2>2. r % w = r
    BY <2>1, DividedSmall
  <2> QED BY <2>1, <2>2, <1>1 DEF Wrap
<1> QED BY <1>2, <1>4, <1>5, <1>6, <1>7, <1>8 DEF Double, Doubles

LEMMA TwiceIs ==
  ASSUME NEW u \in Doubles, u.lo = 0, u.hi < 2 * 2 ^ H
  PROVE  /\ Twice(u, Sar(u.lo, W - 1)) = Double(2 * u.hi, 0)
         /\ Twice(u, TopBit(u.lo)) = Double(2 * u.hi, 0)
         /\ Double(2 * u.hi, 0) \in Doubles
<1>1. PICK g \in Nat, h \in Nat, w \in Nat, m \in Nat :
        /\ g = 2 ^ H /\ g > 0 /\ w = Word /\ w = 2 * h /\ m = MaxExp /\ m >= 9
        /\ h = (m + 1) * g
  <2>1. MaxExp \in Nat /\ MaxExp >= 9
    BY Widths
  <2>2. PICK g \in Nat, h \in Nat :
          /\ g = 2 ^ H /\ g > 0 /\ Word = 2 * h /\ Word \in Nat /\ h = (MaxExp + 1) * g
    BY Halfs
  <2> QED BY <2>1, <2>2
<1>2. PICK uh \in Nat : uh = u.hi /\ uh < 2 * g
  BY <1>1, DoubleIs
<1>3. 2 * uh \in 0 .. (w - 1) /\ w > 0
  <2>1. 4 * g <= (m + 1) * g
    BY <1>1, ProductGrows
  <2> QED BY <2>1, <1>1, <1>2
<1>4. Wrap(2 * uh + 0) = 2 * uh
  <2>1. 2 * uh + 0 = 2 * uh
    OBVIOUS
  <2>2. (2 * uh) % w = 2 * uh
    BY <1>3, DividedSmall
  <2> QED BY <2>1, <2>2, <1>1 DEF Wrap
<1>5. Sar(0, W - 1) = 0 /\ TopBit(0) = 0 /\ Shl(0, 1) = 0
  <2>1. W - 1 \in Nat /\ 1 \in Nat
    BY Widths
  <2> QED BY <2>1, NoBits DEF TopBit
<1>6. 0 \in 0 .. Word - 1 /\ 2 * uh \in 0 .. Word - 1
  BY <1>1, <1>3
<1> QED BY <1>2, <1>4, <1>5, <1>6 DEF Twice, Double, Doubles

(***************************************************************************)
(* What fmod has on its way, where the low words are zero.  While it       *)
(* reduces, the words left have, the turns to come ahead, the remainder of *)
(* the words that match x; while it renormalizes, they match the remainder *)
(* of x and y, so that a turn, which takes them and the exponent one place *)
(* further, changes neither.                                               *)
(***************************************************************************)
Places == -(Bias - 1) - iy

ReduceInv ==
  /\ b = Normalized(Magnitude(y), y.lo) /\ iy = LogB(Magnitude(y), y.lo)
  /\ a.lo = 0 /\ a.hi < 2 * b.hi /\ n >= 0
  /\ \E v \in Nat : /\ Matches(Units(x), Places, v)
                    /\ v % Bits(b) = (Bits(a) * 2 ^ n) % Bits(b)

RenormalizeInv ==
  /\ a.lo = 0 /\ 0 < a.hi /\ a.hi < 2 * 2 ^ H /\ iy + Bias < MaxExp
  /\ Matches(Units(x) % Units(y), Places, Bits(a))

FmodInv ==
  /\ pc # "idle" => x.lo = 0 /\ y.lo = 0
  /\ pc \in {"reduce", "renormalize"} => Reducible(x, y)
  /\ pc = "reduce" => ReduceInv
  /\ pc = "renormalize" => RenormalizeInv

(* What RemainderIsExact says of a step that answers. *)
AnswersRemainder ==
  Answered /\ finite(x) /\ finite(y) /\ ~ IsZero(y) =>
    finite(x') /\ SignBit(x') = SignBit(x) /\ Units(x') = Units(x) % Units(y)

LEMMA UnitsOfDivisor ==
  ASSUME NEW d \in Doubles, ~ IsZero(d)
  PROVE  Units(d) \in Nat /\ Units(d) > 0
<1>1. Bits(Zero(0)) = 0 /\ Zero(0) \in Doubles /\ Units(Zero(0)) = 0
  <2>1. 0 \in {0, Word \div 2}
    OBVIOUS
  <2> QED BY <2>1, ZeroIs
<1>2. Bits(Zero(0)) < Bits(d)
  <2>1. Bits(d) \in Nat /\ Bits(d) # 0
    BY DoubleIs
  <2> QED BY <2>1, <1>1
<1>3. 0 < Units(d)
  BY <1>1, <1>2, UnitsOrdered
<1> QED BY <1>3, UnitsAre

(* What a turn of the first loop has to go by. *)
LEMMA ReducingIs ==
  ASSUME TypeOK, Reducible(x, y), ReduceInv
  PROVE  \E ha \in Nat, hb \in Nat, t \in Nat, v \in Nat, w \in Nat, k \in Int :
           /\ a.hi = ha /\ b.hi = hb /\ a.lo = 0 /\ b.lo = 0 /\ n = t /\ Places = k
           /\ w = Word /\ w > 0 /\ Bits(a) = ha * w /\ Bits(b) = hb * w
           /\ 2 ^ H <= hb /\ hb < 2 * 2 ^ H /\ ha < 2 * hb /\ iy \in Int /\ iy + Bias < MaxExp
           /\ Matches(Units(x), k, v) /\ Matches(Units(y), k, hb * w)
           /\ v % (hb * w) = ((ha * w) * 2 ^ t) % (hb * w)
<1>1. /\ x \in Doubles /\ y \in Doubles /\ a \in Doubles /\ b \in Doubles /\ n \in Int /\ iy \in Int
  BY SignedRange DEF TypeOK, Ints
<1>2. PICK hc \in Nat, hb \in Nat, i \in Int, j \in Nat, k \in Int :
        /\ Normalized(Magnitude(y), y.lo) = Double(hb, 0)
        /\ LogB(Magnitude(y), y.lo) = i
        /\ k = -(Bias - 1) - i /\ i + Bias < MaxExp
        /\ 2 ^ H <= hb /\ hb < 2 * 2 ^ H
        /\ Matches(Units(y), k, hb * Word)
  BY <1>1, ReductionBegins
<1>3. b = Double(hb, 0) /\ iy = i /\ Places = k
  BY <1>2 DEF ReduceInv, Places
<1>4. b.hi = hb /\ b.lo = 0
  BY <1>3 DEF Double
<1>5. PICK g \in Nat, w \in Nat : g = 2 ^ H /\ w = Word /\ w > 0
  BY Halfs, WordIs
<1>6. PICK ha \in Nat : ha = a.hi /\ a.lo = 0 /\ ha < 2 * hb
  BY <1>1, <1>4, DoubleIs DEF ReduceInv
<1>7. ha < 4 * g /\ hb < 4 * g
  BY <1>2, <1>5, <1>6
<1>8. Bits(a) = ha * w /\ Bits(b) = hb * w
  BY <1>1, <1>4, <1>5, <1>6, <1>7, HighWordIs
<1>9. PICK t \in Nat : n = t
  BY <1>1 DEF ReduceInv
<1>10. PICK v \in Nat : Matches(Units(x), Places, v) /\ v % Bits(b) = (Bits(a) * 2 ^ n) % Bits(b)
  BY DEF ReduceInv
<1>11. Matches(Units(x), k, v) /\ v % (hb * w) = ((ha * w) * 2 ^ t) % (hb * w)
  BY <1>3, <1>8, <1>9, <1>10
<1>12. iy + Bias < MaxExp /\ Matches(Units(y), k, hb * w)
  BY <1>2, <1>3, <1>5
<1>13. a.hi = ha /\ b.hi = hb /\ a.lo = 0 /\ b.lo = 0 /\ n = t /\ Places = k
  BY <1>3, <1>4, <1>6, <1>9
<1>14. 2 ^ H <= hb /\ hb < 2 * 2 ^ H /\ ha < 2 * hb /\ iy \in Int
  BY <1>1, <1>2, <1>6
<1> QED BY <1>5, <1>8, <1>11, <1>12, <1>13, <1>14

LEMMA InvIsKept ==
  ASSUME TypeOK, FmodInv
  PROVE  RemainderIsKept
<1>1. x \in Doubles /\ y \in Doubles /\ a \in Doubles /\ b \in Doubles
  BY DEF TypeOK
<1>2. ASSUME pc = "reduce"
      PROVE  /\ n >= 0 /\ Bits(a) < 2 * Bits(b)
             /\ ShiftUnits(Units(x), -(Bias - 1) - iy) % Bits(b) = (Bits(a) * 2 ^ n) % Bits(b)
  <2>1. Reducible(x, y) /\ ReduceInv
    BY <1>2 DEF FmodInv
  <2>2. PICK ha \in Nat, hb \in Nat, t \in Nat, v \in Nat, w \in Nat, k \in Int :
           /\ a.hi = ha /\ b.hi = hb /\ a.lo = 0 /\ b.lo = 0 /\ n = t /\ Places = k
           /\ w = Word /\ w > 0 /\ Bits(a) = ha * w /\ Bits(b) = hb * w
           /\ 2 ^ H <= hb /\ hb < 2 * 2 ^ H /\ ha < 2 * hb /\ iy \in Int /\ iy + Bias < MaxExp
           /\ Matches(Units(x), k, v) /\ Matches(Units(y), k, hb * w)
           /\ v % (hb * w) = ((ha * w) * 2 ^ t) % (hb * w)
    BY <2>1, ReducingIs
  <2>3. ha * w < 2 * (hb * w)
    <3>1. ha * w + w <= (2 * hb) * w /\ ha * w \in Nat
      BY <2>2, FactorsOrdered
    <3>2. (2 * hb) * w = 2 * (hb * w) /\ (2 * hb) * w \in Nat
      OBVIOUS
    <3> QED BY <3>1, <3>2, <2>2
  <2>4. v = ShiftUnits(Units(x), k)
    <3>1. Units(x) \in Nat
      BY <1>1, UnitsAre
    <3> QED BY <3>1, <2>2, MatchesIs
  <2>5. -(Bias - 1) - iy = k
    BY <2>2 DEF Places
  <2> QED BY <2>2, <2>3, <2>4, <2>5
<1>3. ASSUME pc = "renormalize"
      PROVE  Bits(a) = ShiftUnits(Units(x) % Units(y), -(Bias - 1) - iy)
  <2>1. Reducible(x, y) /\ RenormalizeInv
    BY <1>3 DEF FmodInv
  <2>2. PICK u \in Nat : u = Units(x) % Units(y)
    <3>1. Units(y) \in Nat /\ Units(y) > 0
      BY <1>1, <2>1, UnitsOfDivisor DEF Reducible
    <3>2. Units(x) \in Nat
      BY <1>1, UnitsAre
    <3> QED BY <3>1, <3>2, Quotients
  <2>3. PICK k \in Int, w \in Nat : k = Places /\ w = Bits(a)
    <3>1. iy \in Int /\ Bias \in Nat
      BY Widths, SignedRange DEF TypeOK, Ints
    <3> QED BY <3>1, <1>1, DoubleIs DEF Places
  <2>4. Matches(u, k, w)
    BY <2>1, <2>2, <2>3 DEF RenormalizeInv
  <2>5. w = ShiftUnits(u, k)
    BY <2>4, MatchesIs
  <2> QED BY <2>2, <2>3, <2>5 DEF Places
<1> QED BY <1>2, <1>3 DEF RemainderIsKept

(* Every answer ends the call.                                             *)
LEMMA AnswerRight ==
  ASSUME NEW d, Answer(d),
         finite(x) /\ finite(y) /\ ~ IsZero(y) =>
           finite(d) /\ SignBit(d) = SignBit(x) /\ Units(d) = Units(x) % Units(y)
  PROVE  FmodInv' /\ AnswersRemainder
<1>1. x' = d /\ pc' = "idle"
  BY DEF Answer
<1>2. FmodInv'
  BY <1>1 DEF FmodInv
<1>3. AnswersRemainder
  BY <1>1 DEF AnswersRemainder
<1> QED BY <1>2, <1>3

(* fmod answers at once, or begins to reduce.                              *)
LEMMA StartRight ==
  ASSUME TypeOK, FmodInv, Start
  PROVE  FmodInv' /\ AnswersRemainder
<1>1. x \in Doubles /\ y \in Doubles /\ x.lo = 0 /\ y.lo = 0
  BY DEF TypeOK, Start, FmodInv
<1>2. PICK hx \in Nat, hy \in Nat : hx = Magnitude(x) /\ hy = Magnitude(y)
  BY <1>1, DoubleIs
<1>3. PICK w \in Nat : w = Word /\ w > 0 /\ Bits(x) = hx * w /\ Bits(y) = hy * w
  <2>1. PICK w \in Nat : w = Word /\ w > 0
    BY WordIs
  <2>2. Bits(x) = hx * w + 0 /\ Bits(y) = hy * w + 0
    BY <2>1, <1>1, <1>2 DEF Bits
  <2>3. hx * w + 0 = hx * w /\ hy * w + 0 = hy * w
    OBVIOUS
  <2> QED BY <2>1, <2>2, <2>3
<1>4. ~ Less(x.lo, y.lo)
  <2>1. PICK s \in Int : s = Signed(0)
    BY <1>3 DEF Signed
  <2>2. ~ s < s
    OBVIOUS
  <2> QED BY <2>1, <2>2, <1>1 DEF Less
<1>5. PICK ux \in Nat, uy \in Nat : ux = Units(x) /\ uy = Units(y)
  BY <1>1, UnitsAre
<1>6. ~ IsZero(y) => uy > 0
  BY <1>1, <1>5, UnitsOfDivisor
<1>7. Invalid(x, y) => ~ (finite(x) /\ finite(y) /\ ~ IsZero(y))
  <2>1. PICK top \in Nat : top = MaxExp * 2 ^ H
    <3>1. PICK m \in Nat, g \in Nat : m = MaxExp /\ g = 2 ^ H
      BY Widths, Halfs
    <3>2. m * g \in Nat
      OBVIOUS
    <3> QED BY <3>1, <3>2
  <2>2. ~ (hy > top /\ hy < top)
    OBVIOUS
  <2> QED BY <2>1, <2>2, <1>2 DEF Invalid, finite
<1>8. CASE Invalid(x, y)
  <2>1. Answer(NaN)
    BY <1>8 DEF Start
  <2> QED BY <2>1, <1>7, <1>8, AnswerRight
<1>9. CASE ~ Invalid(x, y) /\ hx < hy
  <2>1. ~ (hx = hy)
    BY <1>9
  <2>2. Answer(x)
    BY <2>1, <1>2, <1>9 DEF Start
  <2>3. ux < uy
    <3>1. hx * w + w <= hy * w /\ hx * w \in Int /\ hy * w \in Int
      BY <1>9, FactorsOrdered
    <3>2. Bits(x) < Bits(y)
      BY <3>1, <1>3
    <3> QED BY <3>2, <1>1, <1>5, UnitsOrdered
  <2>4. ux % uy = ux
    <3>1. ux \in 0 .. (uy - 1) /\ uy > 0
      BY <2>3
    <3> QED BY <3>1, DividedSmall
  <2> QED BY <2>2, <2>4, <1>5, AnswerRight
<1>10. CASE ~ Invalid(x, y) /\ hx = hy
  <2>1. ~ (hx < hy)
    BY <1>10
  <2>2. Answer(Zero(SignBit(x)))
    BY <2>1, <1>1, <1>2, <1>4, <1>10 DEF Start
  <2>3. ux = uy
    <3>1. Bits(x) = Bits(y)
      BY <1>3, <1>10
    <3> QED BY <3>1, <1>1, <1>5, UnitsAre
  <2>4. ~ IsZero(y) => ux % uy = 0
    <3> SUFFICES ASSUME ~ IsZero(y) PROVE ux % uy = 0
      OBVIOUS
    <3>1. 1 \in Int /\ uy > 0 /\ 1 * uy = ux
      BY <2>3, <1>6
    <3> QED BY <3>1, Multiple
  <2>5. LET zero == Zero(SignBit(x))
        IN  finite(zero) /\ SignBit(zero) = SignBit(x) /\ Units(zero) = 0
    <3>1. SignBit(x) \in {0, Word \div 2}
      BY <1>1, DoubleIs
    <3> QED BY <3>1, ZeroIs
  <2> QED BY <2>2, <2>4, <2>5, <1>5, AnswerRight
<1>11. CASE ~ Invalid(x, y) /\ hy < hx
  <2>1. ~ (hx < hy) /\ ~ (hx = hy)
    BY <1>11
  <2>2. /\ a' = Normalized(Magnitude(x), x.lo) /\ b' = Normalized(Magnitude(y), y.lo)
        /\ iy' = LogB(Magnitude(y), y.lo)
        /\ n' = LogB(Magnitude(x), x.lo) - LogB(Magnitude(y), y.lo)
        /\ pc' = "reduce" /\ x' = x /\ y' = y
    BY <2>1, <1>2, <1>11 DEF Start
  <2>3. finite(x) /\ ~ IsZero(y)
    BY <1>11 DEF Invalid
  <2>4. finite(y)
    <3>1. PICK top \in Nat : top = MaxExp * 2 ^ H
      <4>1. PICK m \in Nat, g \in Nat : m = MaxExp /\ g = 2 ^ H
        BY Widths, Halfs
      <4>2. m * g \in Nat
        OBVIOUS
      <4> QED BY <4>1, <4>2
    <3>2. hx < top
      BY <2>3, <3>1, <1>2 DEF finite
    <3>3. hy < top
      BY <3>2, <1>11
    <3> QED BY <3>1, <3>3, <1>2 DEF finite
  <2>5. Reducible(x, y)
    BY <2>3, <2>4, <1>1, <1>2, <1>11 DEF Reducible
  <2>6. PICK hc \in Nat, hd \in Nat, i \in Int, t \in Nat, k \in Int :
          /\ Normalized(Magnitude(x), x.lo) = Double(hc, 0)
          /\ Normalized(Magnitude(y), y.lo) = Double(hd, 0)
          /\ LogB(Magnitude(y), y.lo) = i /\ LogB(Magnitude(x), x.lo) = i + t
          /\ k = -(Bias - 1) - i /\ i + Bias < MaxExp
          /\ hc < 2 * 2 ^ H /\ 2 ^ H <= hd /\ hd < 2 * 2 ^ H
          /\ Matches(Units(y), k, hd * Word)
          /\ Matches(Units(x), k, (hc * Word) * 2 ^ t)
    BY <2>5, <1>1, ReductionBegins
  <2>7. PICK v \in Nat : v = (hc * w) * 2 ^ t /\ Matches(ux, k, v)
    <3>1. (hc * w) * 2 ^ t \in Nat
      BY PowerType
    <3> QED BY <3>1, <2>6, <1>3, <1>5
  <2>8. a' = Double(hc, 0) /\ a'.lo = 0 /\ a'.hi = hc /\ b'.hi = hd /\ n' = t
    <3>1. a' = Double(hc, 0) /\ b' = Double(hd, 0)
      BY <2>2, <2>6
    <3>2. n' = (i + t) - i
      BY <2>2, <2>6
    <3>3. (i + t) - i = t
      OBVIOUS
    <3> QED BY <3>1, <3>2, <3>3 DEF Double
  <2>9. PICK g \in Nat : g = 2 ^ H
    BY Halfs
  <2>10. a' \in Doubles
    <3>1. Normalized(Magnitude(x), x.lo) \in Doubles
      <4>1. hx \in Nat /\ hx < Word \div 2 /\ x.lo \in 0 .. Word - 1
        BY <1>1, <1>2, DoubleIs DEF Doubles
      <4> QED BY <4>1, <1>2, NormalizedType
    <3> QED BY <3>1, <2>2
  <2>11. Bits(Double(hc, 0)) = hc * w
    <3>1. hc < 4 * g
      BY <2>6, <2>9
    <3>2. Double(hc, 0) \in Doubles /\ Double(hc, 0).lo = 0 /\ Double(hc, 0).hi = hc
      BY <2>8, <2>10 DEF Double
    <3> QED BY <3>1, <3>2, <2>9, <1>3, HighWordIs
  <2>12. (Bits(a) * 2 ^ n)' = v
    BY <2>7, <2>8, <2>11 DEF Bits, Magnitude
  <2>13. Places' = k
    BY <2>2, <2>6 DEF Places
  <2>14. a'.hi < 2 * b'.hi
    BY <2>6, <2>8, <2>9
  <2>15. ReduceInv'
    <3>1. n' >= 0
      BY <2>8
    <3>2. Matches(Units(x'), k, v)
      BY <2>2, <2>7, <1>5
    <3>3. /\ Matches(Units(x'), Places', v)
          /\ v % Bits(b') = (Bits(a') * 2 ^ n') % Bits(b')
      BY <3>2, <2>12, <2>13
    <3>4. b' = Normalized(Magnitude(y'), y'.lo) /\ iy' = LogB(Magnitude(y'), y'.lo)
      BY <2>2
    <3> QED BY <3>1, <3>3, <3>4, <2>8, <2>14 DEF ReduceInv
  <2>16. FmodInv'
    BY <2>2, <2>5, <2>15, <1>1 DEF FmodInv
  <2>17. AnswersRemainder
    BY <2>2 DEF AnswersRemainder, Answered
  <2> QED BY <2>16, <2>17
<1>12. hx < hy \/ hx = hy \/ hy < hx
  OBVIOUS
<1> QED BY <1>8, <1>9, <1>10, <1>11, <1>12

(* Nothing left of the words is nothing left of the remainder.             *)
LEMMA NothingLeft ==
  ASSUME NEW u \in Nat, NEW d \in Nat, d > 0, NEW k \in Int, NEW v \in Nat, NEW words \in Nat,
         Matches(u, k, v), Matches(d, k, words), v % words = 0
  PROVE  u % d = 0
<1>1. Matches(u % d, k, v % words)
  BY MatchesRest
<1>2. PICK r \in Nat, q \in Nat : r = u % d /\ q = v % words
  <2>1. u % d \in Nat
    BY Quotients
  <2> QED BY <2>1, MatchesRest
<1>3. Matches(r, k, q)
  BY <1>1, <1>2
<1>4. q = 0 => r = 0
  BY <1>3, MatchesIs
<1> QED BY <1>2, <1>4

(* A turn subtracts a multiple of the words of y, or nothing, and doubles  *)
(* what is left, for which there is one turn less to come.                 *)
LEMMA ReduceRight ==
  ASSUME TypeOK, FmodInv, Reduce
  PROVE  FmodInv' /\ AnswersRemainder
<1>1. /\ x \in Doubles /\ y \in Doubles /\ a \in Doubles /\ b \in Doubles /\ n \in Ints /\ n # 0
      /\ pc = "reduce" /\ Reducible(x, y) /\ ReduceInv /\ x.lo = 0 /\ y.lo = 0
  BY DEF TypeOK, Reduce, FmodInv, Ints
<1>2. PICK ha \in Nat, hb \in Nat, t \in Nat, v \in Nat, w \in Nat, k \in Int :
           /\ a.hi = ha /\ b.hi = hb /\ a.lo = 0 /\ b.lo = 0 /\ n = t /\ Places = k
           /\ w = Word /\ w > 0 /\ Bits(a) = ha * w /\ Bits(b) = hb * w
           /\ 2 ^ H <= hb /\ hb < 2 * 2 ^ H /\ ha < 2 * hb /\ iy \in Int /\ iy + Bias < MaxExp
           /\ Matches(Units(x), k, v) /\ Matches(Units(y), k, hb * w)
           /\ v % (hb * w) = ((ha * w) * 2 ^ t) % (hb * w)
  BY <1>1, ReducingIs
<1>3. PICK g \in Nat : g = 2 ^ H /\ g > 0
  BY Halfs
<1>4. ha < 4 * g /\ hb < 4 * g /\ hb < 2 * g /\ hb > 0 /\ ha < 2 * hb
  BY <1>2, <1>3
<1>5. PICK B \in Nat : B = hb * w /\ B > 0
  <2>1. 1 * w <= hb * w
    <3>1. 1 <= hb
      BY <1>4
    <3> QED BY <3>1, ProductGrows
  <2> QED BY <2>1, <1>2
<1>6. PICK ux \in Nat, uy \in Nat : ux = Units(x) /\ uy = Units(y) /\ uy > 0
  BY <1>1, UnitsAre, UnitsOfDivisor DEF Reducible
<1>7. PICK j \in Nat, T \in Nat : j = t - 1 /\ T = 2 ^ j /\ 2 ^ t = 2 * T
  <2>1. t - 1 \in Nat /\ (t - 1) + 1 = t
    BY <1>1, <1>2
  <2> QED BY <2>1, PowerType, PowerDoubles
<1> DEFINE z == Minus(a, b)
<1>8. z \in Doubles /\ z.lo = 0 /\ Signed(z.hi) = ha - hb /\ (ha >= hb => z.hi = ha - hb)
  BY <1>1, <1>2, <1>3, <1>4, MinusIs
<1>9. CASE Signed(z.hi) >= 0 /\ Exhausted(z)
  <2>1. Answer(Zero(SignBit(x)))
    BY <1>9 DEF Reduce
  <2>2. ha = hb
    <3>1. z.hi = 0
      BY <1>9 DEF Exhausted, Zero, Double
    <3> HIDE DEF z
    <3> QED BY <3>1, <1>8, <1>9
  <2>3. v % B = 0
    <3>1. (ha * w) * 2 ^ t = (2 * T) * B
      BY <2>2, <1>5, <1>7
    <3>2. ((2 * T) * B) % B = 0
      <4>1. 2 * T \in Int
        OBVIOUS
      <4> QED BY <4>1, <1>5, Multiple
    <3> QED BY <3>1, <3>2, <1>2, <1>5
  <2>4. ux % uy = 0
    BY <2>3, <1>2, <1>5, <1>6, NothingLeft
  <2>5. LET zero == Zero(SignBit(x))
        IN  finite(zero) /\ SignBit(zero) = SignBit(x) /\ Units(zero) = 0
    <3>1. SignBit(x) \in {0, Word \div 2}
      BY <1>1, DoubleIs
    <3> QED BY <3>1, ZeroIs
  <2> QED BY <2>1, <2>4, <2>5, <1>6, AnswerRight
<1>10. CASE ~ (Signed(z.hi) >= 0 /\ Exhausted(z))
  <2>1. /\ a' = IF Signed(z.hi) < 0 THEN Twice(a, Sar(a.lo, W - 1)) ELSE Twice(z, TopBit(z.lo))
        /\ n' = AsInt(n - 1) /\ x' = x /\ pc' = "reduce" /\ y' = y /\ b' = b /\ iy' = iy
    BY <1>1, <1>10 DEF Reduce
  <2>2. PICK hn \in Nat :
          /\ a' = Double(hn, 0) /\ Double(hn, 0) \in Doubles /\ hn < 2 * hb
          /\ v % B = ((hn * w) * T) % B
    <3>1. CASE ha < hb
      <4>1. Signed(z.hi) < 0
        <5>1. ha - hb < 0
          BY <3>1
        <5> HIDE DEF z
        <5> QED BY <5>1, <1>8
      <4>2. a' = Double(2 * ha, 0) /\ Double(2 * ha, 0) \in Doubles
        <5>1. a' = Twice(a, Sar(a.lo, W - 1))
          BY <4>1, <2>1
        <5>2. a.lo = 0 /\ a.hi < 2 * 2 ^ H
          BY <3>1, <1>2, <1>3, <1>4
        <5> QED BY <5>1, <5>2, <1>1, <1>2, TwiceIs
      <4>3. 2 * ha < 2 * hb /\ 2 * ha \in Nat
        BY <3>1
      <4>4. ((2 * ha) * w) * T = (ha * w) * (2 * T)
        OBVIOUS
      <4>5. v % B = (((2 * ha) * w) * T) % B
        BY <4>4, <1>2, <1>5, <1>7
      <4> QED BY <4>2, <4>3, <4>5
    <3>2. CASE ha >= hb
      <4>1. ~ Signed(z.hi) < 0
        <5>1. ~ ha - hb < 0
          BY <3>2
        <5> HIDE DEF z
        <5> QED BY <5>1, <1>8
      <4>2. PICK r \in Nat : r = ha - hb /\ r < hb /\ ha = r + hb
        BY <3>2, <1>4
      <4>3. a' = Double(2 * r, 0) /\ Double(2 * r, 0) \in Doubles
        <5>1. a' = Twice(z, TopBit(z.lo))
          BY <4>1, <2>1
        <5> HIDE DEF z
        <5>2. z.lo = 0 /\ z.hi = r
          BY <3>2, <4>2, <1>8
        <5>3. z.hi < 2 * 2 ^ H
          BY <5>2, <4>2, <1>3, <1>4
        <5> QED BY <5>1, <5>2, <5>3, <1>8, TwiceIs
      <4>4. 2 * r < 2 * hb /\ 2 * r \in Nat
        BY <4>2
      <4>5. (ha * w) * (2 * T) = (2 * T) * (hb * w) + ((2 * r) * w) * T
        <5>1. ((r + hb) * w) * (2 * T) = (2 * T) * (hb * w) + ((2 * r) * w) * T
          OBVIOUS
        <5> QED BY <5>1, <4>2
      <4>6. ((2 * T) * B + ((2 * r) * w) * T) % B = (((2 * r) * w) * T) % B
        <5>1. 2 * T \in Int /\ ((2 * r) * w) * T \in Int
          OBVIOUS
        <5> QED BY <5>1, <1>5, DividedMore
      <4>7. v % B = (((2 * r) * w) * T) % B
        BY <4>5, <4>6, <1>2, <1>5, <1>7
      <4> QED BY <4>3, <4>4, <4>7
    <3> QED BY <3>1, <3>2
  <2>3. n' = j
    <3>1. j \in Ints
      <4>1. PICK h \in Nat : h = Word \div 2
        BY Halfs
      <4>2. t < h
        BY <4>1, <1>1, <1>2 DEF Ints
      <4> QED BY <4>1, <4>2, <1>7 DEF Ints
    <3>2. n - 1 = j
      BY <1>2, <1>7
    <3> QED BY <3>1, <3>2, <2>1, AsIntSame
  <2>4. Bits(Double(hn, 0)) = hn * w
    <3>1. Double(hn, 0).lo = 0 /\ Double(hn, 0).hi = hn
      BY DEF Double
    <3>2. hn < 4 * 2 ^ H
      BY <2>2, <1>3, <1>4
    <3> QED BY <3>1, <3>2, <2>2, <1>2, HighWordIs
  <2>5. ReduceInv'
    <3>1. a'.lo = 0 /\ a'.hi = hn
      BY <2>2 DEF Double
    <3>2. Bits(a') = hn * w /\ Bits(b') = B
      BY <2>1, <2>2, <2>4, <1>2, <1>5
    <3>3. 2 ^ n' = T
      BY <2>3, <1>7
    <3>4. v % Bits(b') = (Bits(a') * 2 ^ n') % Bits(b')
      BY <3>2, <3>3, <2>2
    <3>5. Matches(Units(x'), Places', v)
      BY <2>1, <1>2 DEF Places
    <3>6. n' >= 0 /\ a'.hi < 2 * b'.hi
      BY <3>1, <2>1, <2>2, <2>3, <1>2
    <3>7. b' = Normalized(Magnitude(y'), y'.lo) /\ iy' = LogB(Magnitude(y'), y'.lo)
      BY <2>1, <1>1 DEF ReduceInv
    <3> QED BY <3>1, <3>4, <3>5, <3>6, <3>7 DEF ReduceInv
  <2>6. FmodInv'
    BY <2>1, <2>5, <1>1 DEF FmodInv
  <2>7. AnswersRemainder
    BY <2>1 DEF AnswersRemainder, Answered
  <2> QED BY <2>6, <2>7
<1> QED BY <1>9, <1>10

(* After the last turn, the words left are the remainder of the words.     *)
LEMMA EndReductionRight ==
  ASSUME TypeOK, FmodInv, EndReduction
  PROVE  FmodInv' /\ AnswersRemainder
<1>1. /\ x \in Doubles /\ y \in Doubles /\ a \in Doubles /\ b \in Doubles /\ n = 0
      /\ pc = "reduce" /\ Reducible(x, y) /\ ReduceInv /\ x.lo = 0 /\ y.lo = 0
  BY DEF TypeOK, EndReduction, FmodInv
<1>2. PICK ha \in Nat, hb \in Nat, t \in Nat, v \in Nat, w \in Nat, k \in Int :
           /\ a.hi = ha /\ b.hi = hb /\ a.lo = 0 /\ b.lo = 0 /\ n = t /\ Places = k
           /\ w = Word /\ w > 0 /\ Bits(a) = ha * w /\ Bits(b) = hb * w
           /\ 2 ^ H <= hb /\ hb < 2 * 2 ^ H /\ ha < 2 * hb /\ iy \in Int /\ iy + Bias < MaxExp
           /\ Matches(Units(x), k, v) /\ Matches(Units(y), k, hb * w)
           /\ v % (hb * w) = ((ha * w) * 2 ^ t) % (hb * w)
  BY <1>1, ReducingIs
<1>3. PICK g \in Nat : g = 2 ^ H /\ g > 0
  BY Halfs
<1>4. ha < 4 * g /\ hb < 4 * g /\ hb < 2 * g /\ hb > 0 /\ ha < 2 * hb
  BY <1>2, <1>3
<1>5. PICK B \in Nat : B = hb * w /\ B > 0
  <2>1. 1 * w <= hb * w
    <3>1. 1 <= hb
      BY <1>4
    <3> QED BY <3>1, ProductGrows
  <2> QED BY <2>1, <1>2
<1>6. PICK ux \in Nat, uy \in Nat : ux = Units(x) /\ uy = Units(y) /\ uy > 0
  BY <1>1, UnitsAre, UnitsOfDivisor DEF Reducible
<1> DEFINE z == Minus(a, b)
           l == LastSubtraction
<1>7. z \in Doubles /\ z.lo = 0 /\ Signed(z.hi) = ha - hb /\ (ha >= hb => z.hi = ha - hb)
  BY <1>1, <1>2, <1>3, <1>4, MinusIs
<1>8. v % B = (ha * w) % B
  <2>1. 2 ^ t = 1
    BY <1>1, <1>2, PowerOfZero
  <2>2. (ha * w) * 1 = ha * w
    OBVIOUS
  <2> QED BY <2>1, <2>2, <1>2, <1>5
<1>9. PICK hl \in Nat : l \in Doubles /\ l.lo = 0 /\ l.hi = hl /\ hl < hb /\ v % B = hl * w
  <2>1. CASE ha < hb
    <3>1. l = a
      <4>1. ~ ha - hb >= 0
        BY <2>1
      <4>2. ~ Signed(z.hi) >= 0
        <5> HIDE DEF z
        <5> QED BY <4>1, <1>7
      <4> QED BY <4>2 DEF LastSubtraction
    <3>2. (ha * w) % B = ha * w
      <4>1. ha * w + w <= hb * w /\ ha * w \in Nat
        BY <2>1, FactorsOrdered
      <4>2. ha * w \in 0 .. (B - 1)
        BY <4>1, <1>2, <1>5
      <4> QED BY <4>2, <1>5, DividedSmall
    <3> HIDE DEF l
    <3> QED BY <3>1, <3>2, <2>1, <1>1, <1>2, <1>8
  <2>2. CASE ha >= hb
    <3>1. l = z
      <4>1. ha - hb >= 0
        BY <2>2
      <4>2. Signed(z.hi) >= 0
        <5> HIDE DEF z
        <5> QED BY <4>1, <1>7
      <4> QED BY <4>2 DEF LastSubtraction
    <3>2. PICK r \in Nat : r = ha - hb /\ r < hb /\ ha = hb + r
      BY <2>2, <1>4
    <3>3. (ha * w) % B = r * w
      <4>1. r * w + w <= hb * w /\ r * w \in Nat
        BY <3>2, FactorsOrdered
      <4>2. r * w \in 0 .. (B - 1)
        BY <4>1, <1>2, <1>5
      <4>3. (hb + r) * w = 1 * (hb * w) + r * w
        OBVIOUS
      <4>4. ha * w = 1 * B + r * w /\ 1 \in Int /\ ha * w \in Int
        BY <4>3, <3>2, <1>5
      <4> QED BY <4>2, <4>4, <1>5, DividedOnce
    <3>4. z.hi = r
      <4> HIDE DEF z
      <4> QED BY <3>2, <2>2, <1>7
    <3> HIDE DEF l, z
    <3> QED BY <3>1, <3>2, <3>3, <3>4, <1>7, <1>8
  <2> QED BY <2>1, <2>2
<1> HIDE DEF z
<1>10. CASE Exhausted(l)
  <2>1. Answer(Zero(SignBit(x)))
    BY <1>10 DEF EndReduction
  <2>2. hl = 0
    BY <1>9, <1>10 DEF Exhausted, Zero, Double
  <2>3. v % B = 0
    BY <2>2, <1>9
  <2>4. ux % uy = 0
    BY <2>3, <1>2, <1>5, <1>6, NothingLeft
  <2>5. LET zero == Zero(SignBit(x))
        IN  finite(zero) /\ SignBit(zero) = SignBit(x) /\ Units(zero) = 0
    <3>1. SignBit(x) \in {0, Word \div 2}
      BY <1>1, DoubleIs
    <3> QED BY <3>1, ZeroIs
  <2> QED BY <2>1, <2>4, <2>5, <1>6, AnswerRight
<1>11. CASE ~ Exhausted(l)
  <2>1. a' = l /\ pc' = "renormalize" /\ x' = x /\ y' = y /\ b' = b /\ iy' = iy
    BY <1>11 DEF EndReduction
  <2> HIDE DEF l
  <2>2. hl > 0
    <3>1. hl = 0 => l = Zero(0)
      BY <1>9 DEF Doubles, Zero, Double
    <3>2. l # Zero(0)
      BY <1>11 DEF Exhausted
    <3> QED BY <3>1, <3>2
  <2>3. hl < 4 * g /\ hl < 2 * g
    BY <1>4, <1>9
  <2>4. Bits(l) = hl * w
    BY <2>3, <1>2, <1>3, <1>9, HighWordIs
  <2>5. Matches(ux % uy, k, v % B)
    BY <1>2, <1>5, <1>6, MatchesRest
  <2>6. RenormalizeInv'
    <3>1. a'.lo = 0 /\ a'.hi = hl /\ Bits(a') = hl * w
      BY <2>1, <2>4, <1>9
    <3>2. Matches(Units(x') % Units(y'), Places', Bits(a'))
      BY <3>1, <2>1, <2>5, <1>2, <1>6, <1>9 DEF Places
    <3>3. iy' + Bias < MaxExp
      BY <2>1, <1>2
    <3> QED BY <3>1, <3>2, <3>3, <2>2, <2>3, <1>3 DEF RenormalizeInv
  <2>7. FmodInv'
    BY <2>1, <2>6, <1>1 DEF FmodInv
  <2>8. AnswersRemainder
    BY <2>1 DEF AnswersRemainder, Answered
  <2> QED BY <2>7, <2>8
<1> QED BY <1>10, <1>11

(* What the second loop, and the return after it, have to go by.           *)
LEMMA RenormalizingIs ==
  ASSUME TypeOK, Reducible(x, y), RenormalizeInv
  PROVE  \E ha \in Nat, rest \in Nat, w \in Nat, g \in Nat, k \in Int :
           /\ a.hi = ha /\ Signed(a.hi) = ha /\ a.lo = 0 /\ 0 < ha /\ ha < 2 * g /\ g = 2 ^ H
           /\ w = Word /\ w > 0 /\ Bits(a) = ha * w
           /\ Places = k /\ iy \in Int /\ iy + Bias < MaxExp
           /\ rest = Units(x) % Units(y) /\ rest > 0 /\ Matches(rest, k, ha * w)
           /\ k < P + 2
<1>1. x \in Doubles /\ y \in Doubles /\ a \in Doubles /\ iy \in Int
  BY SignedRange DEF TypeOK, Ints
<1>2. PICK g \in Nat, w \in Nat : g = 2 ^ H /\ g > 0 /\ w = Word /\ w > 0 /\ 2 ^ P = g * w
  BY Halfs, WordIs
<1>3. PICK ha \in Nat : ha = a.hi /\ a.lo = 0 /\ 0 < ha /\ ha < 2 * g
  BY <1>1, <1>2, DoubleIs DEF RenormalizeInv
<1>4. Signed(a.hi) = ha /\ Bits(a) = ha * w
  <2>1. ha < 4 * g
    BY <1>3
  <2> QED BY <2>1, <1>1, <1>2, <1>3, HighWordIs
<1>5. PICK k \in Int : k = Places
  <2>1. Bias \in Nat
    BY Widths
  <2> QED BY <2>1, <1>1 DEF Places
<1>6. PICK rest \in Nat : rest = Units(x) % Units(y)
  <2>1. Units(y) \in Nat /\ Units(y) > 0
    BY <1>1, UnitsOfDivisor DEF Reducible
  <2>2. Units(x) \in Nat
    BY <1>1, UnitsAre
  <2> QED BY <2>1, <2>2, Quotients
<1>7. PICK words \in Nat : words = ha * w /\ words > 0 /\ words < 2 * 2 ^ P
  <2>1. 1 * w <= ha * w
    BY <1>3, ProductGrows
  <2>2. ha * w + w <= (2 * g) * w
    BY <1>3, FactorsOrdered
  <2>3. (2 * g) * w = 2 * (g * w)
    OBVIOUS
  <2> QED BY <2>1, <2>2, <2>3, <1>2
<1>8. Matches(rest, k, words)
  BY <1>4, <1>5, <1>6, <1>7 DEF RenormalizeInv
<1>9. rest > 0
  <2>1. words # 0
    BY <1>7
  <2>2. rest # 0
    BY <2>1, <1>8, MatchesIs
  <2> QED BY <2>2
<1>10. k < P + 2
  <2> SUFFICES ASSUME k >= P + 2 PROVE FALSE
    BY Widths
  <2>1. P \in Nat /\ P < k /\ k \in Nat
    BY Widths
  <2>2. PICK c \in Nat : c = 2 ^ k /\ 2 * 2 ^ P <= c
    BY <2>1, PowerType, PowerSplits
  <2>3. words = rest * c
    BY <2>1, <2>2, <1>8 DEF Matches
  <2>4. 1 * c <= rest * c
    BY <1>9, ProductGrows
  <2>5. PICK pp \in Nat : pp = 2 ^ P
    BY <2>1, PowerType
  <2> QED BY <2>2, <2>3, <2>4, <2>5, <1>7
<1>11. iy + Bias < MaxExp
  BY DEF RenormalizeInv
<1> QED BY <1>1, <1>2, <1>3, <1>4, <1>5, <1>6, <1>7, <1>8, <1>9, <1>10, <1>11

(* A turn of the second loop takes words and exponent one place further.   *)
LEMMA RenormalizeRight ==
  ASSUME TypeOK, FmodInv, Renormalize
  PROVE  FmodInv' /\ AnswersRemainder
<1>1. /\ x \in Doubles /\ y \in Doubles /\ a \in Doubles /\ iy \in Ints
      /\ pc = "renormalize" /\ Reducible(x, y) /\ RenormalizeInv /\ x.lo = 0 /\ y.lo = 0
  BY DEF TypeOK, Renormalize, FmodInv, Ints
<1>2. PICK ha \in Nat, rest \in Nat, w \in Nat, g \in Nat, k \in Int :
           /\ a.hi = ha /\ Signed(a.hi) = ha /\ a.lo = 0 /\ 0 < ha /\ ha < 2 * g /\ g = 2 ^ H
           /\ w = Word /\ w > 0 /\ Bits(a) = ha * w
           /\ Places = k /\ iy \in Int /\ iy + Bias < MaxExp
           /\ rest = Units(x) % Units(y) /\ rest > 0 /\ Matches(rest, k, ha * w)
           /\ k < P + 2
  BY <1>1, RenormalizingIs
<1>3. /\ a' = Twice(a, Sar(a.lo, W - 1)) /\ iy' = AsInt(iy - 1)
      /\ x' = x /\ y' = y /\ pc' = "renormalize"
  BY <1>1 DEF Renormalize
<1>4. ha < g
  BY <1>2 DEF Renormalize
<1>5. a' = Double(2 * ha, 0) /\ Double(2 * ha, 0) \in Doubles
  BY <1>1, <1>2, <1>3, TwiceIs
<1>6. PICK q \in Nat, m \in Nat, p \in Nat, h \in Nat :
        /\ q = Bias /\ m = MaxExp /\ p = P /\ m = 2 * q + 1 /\ p + 2 < m
        /\ h = Word \div 2 /\ h >= 2 * (m + 1)
  <2>1. PICK q \in Nat, m \in Nat, p \in Nat, j \in Nat :
          q = Bias /\ m = MaxExp /\ p = P /\ m = 2 * q + 1 /\ p + 2 < m /\ j = H /\ j >= 1
    BY Widths
  <2>2. PICK h \in Nat : h = Word \div 2 /\ h = (m + 1) * g
    BY <2>1, <1>2, Halfs
  <2>3. 2 * (m + 1) <= g * (m + 1)
    <3>1. j < 2 ^ j
      BY PowerType
    <3>2. 2 <= g
      BY <3>1, <2>1, <1>2
    <3> QED BY <3>2, ProductGrows
  <2>4. (m + 1) * g = g * (m + 1)
    OBVIOUS
  <2>5. h >= 2 * (m + 1)
    BY <2>2, <2>3, <2>4
  <2> QED BY <2>1, <2>2, <2>5
<1>7. PICK i \in Int : i = iy /\ k = -(q - 1) - i /\ i < h /\ -h <= i
  <2>1. PICK i \in Int : i = iy
    BY <1>2
  <2> QED BY <2>1, <1>1, <1>2, <1>6 DEF Places, Ints
<1>8. iy' = i - 1
  <2>1. i - 1 \in -h .. h - 1
    BY <1>2, <1>6, <1>7
  <2>2. i - 1 \in Ints
    BY <2>1, <1>6 DEF Ints
  <2> QED BY <2>2, <1>3, <1>7, AsIntSame
<1>9. Places' = k + 1 /\ iy' + Bias < MaxExp
  <2>1. -(q - 1) - (i - 1) = k + 1
    BY <1>7
  <2>2. i + q < m
    BY <1>2, <1>6, <1>7
  <2>3. (i - 1) + q < m
    BY <2>2
  <2> QED BY <2>1, <2>3, <1>6, <1>8 DEF Places
<1>10. 2 * ha < 2 * g /\ 2 * ha < 4 * g /\ 0 < 2 * ha
  BY <1>2, <1>4
<1>11. Bits(Double(2 * ha, 0)) = 2 * (ha * w)
  <2>1. Double(2 * ha, 0).lo = 0 /\ Double(2 * ha, 0).hi = 2 * ha
    BY DEF Double
  <2>2. Bits(Double(2 * ha, 0)) = (2 * ha) * w
    BY <2>1, <1>2, <1>5, <1>10, HighWordIs
  <2>3. (2 * ha) * w = 2 * (ha * w)
    OBVIOUS
  <2> QED BY <2>2, <2>3
<1>12. Matches(rest, k + 1, 2 * (ha * w))
  <2>1. ha * w \in Nat
    OBVIOUS
  <2> QED BY <2>1, <1>2, MatchesTwice
<1>13. RenormalizeInv'
  <2>1. a'.lo = 0 /\ a'.hi = 2 * ha /\ Bits(a') = 2 * (ha * w)
    BY <1>5, <1>11 DEF Double
  <2>2. Matches(Units(x') % Units(y'), Places', Bits(a'))
    BY <2>1, <1>2, <1>3, <1>9, <1>12
  <2> QED BY <2>1, <2>2, <1>2, <1>9, <1>10 DEF RenormalizeInv
<1>14. FmodInv'
  BY <1>1, <1>3, <1>13 DEF FmodInv
<1>15. AnswersRemainder
  BY <1>3 DEF AnswersRemainder, Answered
<1> QED BY <1>14, <1>15

(* The sign is put in front of a magnitude.                                *)
LEMMA SignOr ==
  ASSUME NEW m \in Nat, m < Word \div 2, NEW sign \in {0, Word \div 2}
  PROVE  BitOr(m, sign) = sign + m
<1>1. PICK h \in Nat, w \in Nat : h = Word \div 2 /\ h > 0 /\ w = Word /\ w = 2 * h /\ h = 2 ^ (W - 1)
  BY Halfs
<1>2. PICK c \in Nat : sign = c * h /\ c * h < w
  <2>1. 0 * h = 0 /\ 1 * h = h
    OBVIOUS
  <2>2. CASE sign = 0
    BY <2>1, <2>2, <1>1
  <2>3. CASE sign = h
    BY <2>1, <2>3, <1>1
  <2> QED BY <2>2, <2>3, <1>1
<1>3. W - 1 \in 0 .. W
  BY Widths
<1>4. m < 2 ^ (W - 1) /\ c * 2 ^ (W - 1) < Word
  BY <1>1, <1>2
<1>5. BitOr(m, c * 2 ^ (W - 1)) = m + c * 2 ^ (W - 1)
  BY <1>3, <1>4, OrDisjoint
<1>6. m + c * h = c * h + m
  OBVIOUS
<1> QED BY <1>1, <1>2, <1>5, <1>6

(* Packed puts the words back behind an exponent, or, where there is none  *)
(* that small, shifts them to where a subnormal number has them.           *)
LEMMA PackedIs ==
  ASSUME NEW sx \in {0, Word \div 2}, NEW u \in Doubles, u.lo = 0, 2 ^ H <= u.hi, u.hi < 2 * 2 ^ H,
         NEW e \in Int, e + Bias < MaxExp, NEW k \in Int, k = -(Bias - 1) - e,
         NEW r0 \in Nat, r0 > 0, Matches(r0 * Word, k, u.hi * Word)
  PROVE  LET d == Packed(sx, u, e)
         IN  finite(d) /\ SignBit(d) = sx /\ Units(d) = r0 * Word
<1>1. PICK h \in Nat, g \in Nat, w \in Nat, pp \in Nat, m \in Nat, q \in Nat :
        /\ w = Word /\ h = Word \div 2 /\ g = 2 ^ H /\ pp = 2 ^ P /\ m = MaxExp /\ q = Bias
        /\ w = 2 * h /\ h > 0 /\ g > 0 /\ h = (m + 1) * g /\ pp = g * w /\ m >= 2
  <2>1. PICK m \in Nat, q \in Nat : m = MaxExp /\ q = Bias /\ m >= 2
    BY Widths
  <2>2. PICK h \in Nat, g \in Nat :
          /\ g = 2 ^ H /\ g > 0 /\ h = Word \div 2 /\ h > 0 /\ Word = 2 * h /\ Word \in Nat
          /\ h = (MaxExp + 1) * g /\ 2 ^ P = g * Word /\ 2 ^ P \in Nat
    BY Halfs
  <2> QED BY <2>1, <2>2
<1>2. PICK ha \in Nat : ha = u.hi /\ g <= ha /\ ha < 2 * g
  BY <1>1, DoubleIs
<1>3. w > 0 /\ g < h /\ g < w
  <2>1. 2 * g <= (m + 1) * g
    BY <1>1, ProductGrows
  <2> QED BY <2>1, <1>1
<1>4. PICK rest \in Nat, words \in Nat :
        rest = r0 * w /\ words = ha * w /\ rest > 0 /\ Matches(rest, k, words)
  <2>1. PICK rest \in Nat, words \in Nat : rest = r0 * w /\ words = ha * w
    OBVIOUS
  <2>2. 1 * w <= r0 * w
    BY ProductGrows
  <2> QED BY <2>1, <2>2, <1>1, <1>2, <1>3
<1>5. H \in 0 .. W /\ W \in Nat /\ H \in Nat
  BY Widths
<1> DEFINE d == Packed(sx, u, e)
<1>6. ASSUME NEW top \in Nat, top < h, d = Double(sx + top, 0)
      PROVE  d \in Doubles /\ SignBit(d) = sx /\ Bits(d) = top * w
  <2>1. top < Word \div 2 /\ 0 \in 0 .. Word - 1
    BY <1>1, <1>3, <1>6
  <2>2. LET c == Double(sx + top, 0)
        IN  c \in Doubles /\ SignBit(c) = sx /\ Bits(c) = top * Word + 0
    BY <2>1, FromWords
  <2>3. top * w + 0 = top * w
    OBVIOUS
  <2> HIDE DEF d
  <2> QED BY <2>2, <2>3, <1>1, <1>6
<1>7. CASE k <= 0
  <2>1. PICK j \in Nat, f \in Nat, ex \in Nat :
          j = -k /\ j + k = 0 /\ f = ha - g /\ f < g /\ ha = g + f /\ ex = j + 1 /\ ex = e + q /\ ex < m
    <3>1. -k \in Nat /\ ha - g \in Nat
      BY <1>2, <1>7
    <3>2. e + q = -k + 1
      BY <1>1
    <3>3. e + q < m
      BY <1>1
    <3> QED BY <3>1, <3>2, <3>3, <1>2
  <2>2. rest = words * 2 ^ j
    <3>1. CASE k = 0
      <4>1. k >= 0 /\ 2 ^ k = 1
        <5>1. 2 ^ k = 1
          BY <3>1, PowerOfZero
        <5> QED BY <5>1, <3>1
      <4>2. words = rest * 1
        BY <4>1, <1>4 DEF Matches
      <4>3. words * 1 = rest
        BY <4>2
      <4>4. j + k = 0
        BY <2>1
      <4>5. j = 0
        BY <4>4, <3>1
      <4> QED BY <4>3, <4>5, PowerOfZero
    <3>2. CASE k # 0
      <4>1. ~ k >= 0
        BY <3>2, <1>7
      <4> QED BY <4>1, <2>1, <1>4 DEF Matches
    <3> QED BY <3>1, <3>2
  <2>3. PICK eg \in Nat : eg = ex * g /\ eg + g <= m * g /\ m * g + g = h /\ m * g \in Nat
    <3>1. ex * g + g <= m * g /\ ex * g \in Nat /\ m * g \in Nat
      BY <2>1, FactorsOrdered
    <3>2. (m + 1) * g = m * g + g
      OBVIOUS
    <3> QED BY <3>1, <3>2, <1>1
  <2>4. PICK top \in Nat : top = f + eg /\ top < h /\ eg < w
    <3>1. f + eg < h
      BY <2>1, <2>3
    <3>2. eg < w
      BY <2>3, <1>1, <1>3
    <3> QED BY <3>1, <3>2
  <2>5. Wrap(ha - g) = f
    <3>1. f \in 0 .. (w - 1)
      BY <2>1, <1>3
    <3>2. f % w = f
      BY <3>1, <1>3, DividedSmall
    <3> QED BY <3>2, <2>1, <1>1 DEF Wrap
  <2>6. Wrap(ex * g) = ex * 2 ^ H
    <3>1. eg \in 0 .. (w - 1)
      BY <2>4
    <3>2. eg % w = eg
      BY <3>1, <1>3, DividedSmall
    <3> QED BY <3>2, <2>3, <1>1 DEF Wrap
  <2>7. BitOr(f, ex * 2 ^ H) = top
    <3>1. f < 2 ^ H /\ ex * 2 ^ H < Word
      BY <2>1, <2>3, <2>4, <1>1
    <3>2. BitOr(f, ex * 2 ^ H) = f + ex * 2 ^ H
      BY <3>1, <1>5, OrDisjoint
    <3> QED BY <3>2, <2>3, <2>4, <1>1
  <2>8. BitOr(top, sx) = sx + top
    BY <2>4, <1>1, SignOr
  <2>9. d = Double(sx + top, 0)
    <3>1. d = Double(BitOr(BitOr(Wrap(u.hi - 2 ^ H), Wrap((e + Bias) * 2 ^ H)), sx), u.lo)
      BY <1>7 DEF Packed
    <3>2. Wrap(u.hi - 2 ^ H) = f /\ Wrap((e + Bias) * 2 ^ H) = ex * 2 ^ H
      BY <2>1, <2>5, <2>6, <1>1, <1>2
    <3> QED BY <3>1, <3>2, <2>7, <2>8
  <2>10. d \in Doubles /\ SignBit(d) = sx /\ Bits(d) = top * w
    BY <2>4, <2>9, <1>6
  <2> HIDE DEF d
  <2>11. PICK fw \in Nat : fw = f * w /\ fw < pp /\ Bits(d) = ex * pp + fw /\ words = pp + fw
    <3>1. f * w + w <= g * w /\ f * w \in Nat /\ g * w \in Nat
      BY <2>1, FactorsOrdered
    <3>2. (f + ex * g) * w = ex * (g * w) + f * w
      OBVIOUS
    <3>3. (g + f) * w = g * w + f * w
      OBVIOUS
    <3> QED BY <3>1, <3>2, <3>3, <2>1, <2>3, <2>4, <2>10, <1>1, <1>3, <1>4
  <2>12. UnitsOf(ex * 2 ^ P + fw) = (2 ^ P + fw) * 2 ^ (ex - 1)
    <3>1. fw \in 0 .. 2 ^ P /\ ex >= 1
      BY <2>1, <2>11, <1>1
    <3> QED BY <3>1, UnitsNormal
  <2>13. Units(d) = rest
    <3>1. ex - 1 = j
      BY <2>1
    <3> QED BY <3>1, <2>2, <2>10, <2>11, <2>12, <1>1, UnitsAre
  <2>14. finite(d)
    <3>1. ex * pp + pp <= m * pp /\ ex * pp \in Nat /\ m * pp \in Nat
      BY <2>1, FactorsOrdered
    <3>2. Bits(d) < MaxExp * 2 ^ P
      BY <3>1, <2>11, <1>1
    <3> QED BY <3>2, <2>10, FiniteIs
  <2> QED BY <2>10, <2>13, <2>14, <1>1, <1>4 DEF d
<1>8. CASE k > 0
  <2>1. PICK t \in Nat : t = 2 ^ k /\ t > 0 /\ ha = r0 * t
    <3>1. k \in Nat
      BY <1>8
    <3>2. PICK t \in Nat : t = 2 ^ k /\ t > 0
      BY <3>1, PowerType
    <3>3. words = rest * t
      BY <3>2, <1>4, <1>8 DEF Matches
    <3>4. (r0 * w) * t = (r0 * t) * w
      OBVIOUS
    <3>5. ha * w = (r0 * t) * w
      BY <3>3, <3>4, <1>4
    <3>6. ha \in Int /\ r0 * t \in Int
      OBVIOUS
    <3> QED BY <3>2, <3>5, <3>6, <1>3, Cancelled
  <2>2. k <= H
    <3> SUFFICES ASSUME k > H PROVE FALSE
      BY <1>5
    <3>1. 2 * g <= t
      <4>1. H \in 0 .. k /\ H < k /\ k \in Nat
        BY <1>5, <1>8
      <4> QED BY <4>1, <2>1, <1>1, PowerSplits
    <3>2. 1 * t <= r0 * t
      BY ProductGrows
    <3> QED BY <3>1, <3>2, <2>1, <1>2
  <2>3. r0 < g
    <3>1. 2 <= t
      <4>1. k < 2 ^ k
        <5>1. k \in Nat
          BY <1>8
        <5> QED BY <5>1, PowerType
      <4> QED BY <4>1, <2>1, <1>8
    <3>2. 2 * r0 <= t * r0
      BY <3>1, ProductGrows
    <3>3. t * r0 = r0 * t
      OBVIOUS
    <3> QED BY <3>2, <3>3, <2>1, <1>2
  <2>4. Shr(ha, k) = r0
    <3>1. r0 \in Int
      OBVIOUS
    <3>2. (r0 * t) \div t = r0
      BY <3>1, <2>1, Multiple
    <3> QED BY <3>2, <2>1 DEF Shr
  <2>5. Shl(ha, W - k) = 0
    <3>1. k \in 0 .. W
      BY <2>2, <1>5, <1>8
    <3>2. PICK s \in Nat : s = 2 ^ (W - k) /\ w = t * s
      <4>1. W - k \in Nat /\ 2 ^ W = 2 ^ k * 2 ^ (W - k)
        BY <3>1, <1>5, PowerSplits
      <4> QED BY <4>1, <2>1, <1>1, PowerType, WordIs
    <3>3. (r0 * t) * s = r0 * (t * s)
      OBVIOUS
    <3>4. (r0 * w) % w = 0
      <4>1. r0 \in Int
        OBVIOUS
      <4> QED BY <4>1, <1>3, Multiple
    <3> QED BY <3>2, <3>3, <3>4, <2>1, <1>1 DEF Shl, Wrap
  <2>6. Sar(0, k) = 0
    <3>1. k \in Nat
      BY <1>8
    <3> QED BY <3>1, NoBits
  <2>7. BitOr(0, 0) = 0
    <3>1. 0 < Word \div 2 /\ 0 \in {0, Word \div 2} /\ 0 \in Nat
      BY <1>1
    <3>2. BitOr(0, 0) = 0 + 0
      BY <3>1, SignOr
    <3> QED BY <3>2
  <2>8. BitOr(r0, sx) = sx + r0
    <3>1. r0 < Word \div 2
      BY <2>3, <1>1, <1>3
    <3> QED BY <3>1, SignOr
  <2>9. d = Double(sx + r0, 0)
    <3>1. ~ k <= 0
      BY <1>8
    <3>2. d = Double(BitOr(Shr(u.hi, k), sx), BitOr(Sar(u.lo, k), Shl(u.hi, W - k)))
      BY <3>1, <2>2 DEF Packed
    <3> QED BY <3>2, <2>4, <2>5, <2>6, <2>7, <2>8, <1>2
  <2>10. d \in Doubles /\ SignBit(d) = sx /\ Bits(d) = r0 * w
    BY <2>3, <2>9, <1>3, <1>6
  <2> HIDE DEF d
  <2>11. rest < pp
    <3>1. r0 * w + w <= g * w
      BY <2>3, FactorsOrdered
    <3> QED BY <3>1, <1>1, <1>3, <1>4
  <2>12. Units(d) = rest
    <3>1. rest < 2 * 2 ^ P
      BY <2>11, <1>1
    <3>2. UnitsOf(rest) = rest
      BY <3>1, UnitsSmall
    <3> QED BY <3>2, <2>10, <1>4, UnitsAre
  <2>13. finite(d)
    <3>1. 2 * pp <= m * pp
      BY <1>1, ProductGrows
    <3>2. Bits(d) < MaxExp * 2 ^ P
      BY <3>1, <2>10, <2>11, <1>1, <1>4
    <3> QED BY <3>2, <2>10, FiniteIs
  <2> QED BY <2>10, <2>12, <2>13, <1>1, <1>4 DEF d
<1> QED BY <1>7, <1>8

LEMMA PackRight ==
  ASSUME TypeOK, FmodInv, Pack
  PROVE  FmodInv' /\ AnswersRemainder
<1>1. /\ x \in Doubles /\ y \in Doubles /\ a \in Doubles /\ Reducible(x, y) /\ RenormalizeInv
      /\ x.lo = 0 /\ y.lo = 0 /\ Answer(Packed(SignBit(x), a, iy))
  BY DEF TypeOK, Pack, FmodInv
<1>2. PICK ha \in Nat, rest \in Nat, w \in Nat, g \in Nat, k \in Int :
           /\ a.hi = ha /\ Signed(a.hi) = ha /\ a.lo = 0 /\ 0 < ha /\ ha < 2 * g /\ g = 2 ^ H
           /\ w = Word /\ w > 0 /\ Bits(a) = ha * w
           /\ Places = k /\ iy \in Int /\ iy + Bias < MaxExp
           /\ rest = Units(x) % Units(y) /\ rest > 0 /\ Matches(rest, k, ha * w)
           /\ k < P + 2
  BY <1>1, RenormalizingIs
<1>3. g <= ha
  BY <1>2 DEF Pack
<1>4. PICK r0 \in Nat : rest = r0 * w /\ r0 > 0
  <2>1. PICK ux0 \in Nat : Units(x) = ux0 * w
    BY <1>1, <1>2, ShortIs
  <2>2. PICK uy0 \in Nat : Units(y) = uy0 * w
    BY <1>1, <1>2, ShortIs
  <2>3. uy0 > 0
    <3>1. Units(y) > 0
      BY <1>1, UnitsOfDivisor DEF Reducible
    <3>2. uy0 = 0 => uy0 * w = 0
      OBVIOUS
    <3> QED BY <3>1, <3>2, <2>2
  <2>4. (ux0 * w) % (uy0 * w) = (ux0 % uy0) * w
    <3>1. ux0 \in Int
      OBVIOUS
    <3> QED BY <3>1, <2>3, <1>2, DividedScaled
  <2>5. PICK r0 \in Nat : r0 = ux0 % uy0
    BY <2>3, Quotients
  <2>6. rest = r0 * w
    BY <2>1, <2>2, <2>4, <2>5, <1>2
  <2>7. r0 = 0 => r0 * w = 0
    OBVIOUS
  <2> QED BY <2>5, <2>6, <2>7, <1>2
<1>5. LET d == Packed(SignBit(x), a, iy)
      IN  finite(d) /\ SignBit(d) = SignBit(x) /\ Units(d) = r0 * Word
  <2>1. SignBit(x) \in {0, Word \div 2}
    BY <1>1, DoubleIs
  <2>2. 2 ^ H <= a.hi /\ a.hi < 2 * 2 ^ H /\ k = -(Bias - 1) - iy
    BY <1>2, <1>3 DEF Places
  <2>3. Matches(r0 * Word, k, a.hi * Word)
    BY <1>2, <1>4
  <2> QED BY <2>1, <2>2, <2>3, <1>1, <1>2, <1>4, PackedIs
<1>6. LET d == Packed(SignBit(x), a, iy)
      IN  finite(d) /\ SignBit(d) = SignBit(x) /\ Units(d) = Units(x) % Units(y)
  BY <1>2, <1>4, <1>5
<1> QED BY <1>1, <1>6, AnswerRight

LEMMA NextRight ==
  ASSUME \A d \in Dividends \cup Divisors : d.lo = 0,
         TypeOK, FmodInv, [Next]_vars
  PROVE  FmodInv' /\ AnswersRemainder
<1>1. CASE CallOne
  <2>1. pc = "idle" /\ pc' = "idle"
    BY <1>1 DEF CallOne, fmodVars
  <2> QED BY <2>1 DEF FmodInv, AnswersRemainder, Answered
<1>2. CASE CallFmod
  <2>1. pc' = "start" /\ x' = x /\ x \in Dividends /\ y' \in Divisors
    BY <1>2 DEF CallFmod
  <2>2. x'.lo = 0 /\ y'.lo = 0
    BY <2>1
  <2> QED BY <2>1, <2>2 DEF FmodInv, AnswersRemainder, Answered
<1>3. CASE Start
  BY <1>3, StartRight
<1>4. CASE Reduce
  BY <1>4, ReduceRight
<1>5. CASE EndReduction
  BY <1>5, EndReductionRight
<1>6. CASE Renormalize
  BY <1>6, RenormalizeRight
<1>7. CASE Pack
  BY <1>7, PackRight
<1>8. CASE UNCHANGED vars
  <2>1. /\ x' = x /\ pc' = pc /\ y' = y /\ a' = a /\ b' = b /\ iy' = iy /\ n' = n
    BY <1>8 DEF vars, fmodVars
  <2>2. AnswersRemainder
    BY <2>1 DEF AnswersRemainder, Answered
  <2>3. ReduceInv => ReduceInv'
    BY <2>1 DEF ReduceInv, Places
  <2>4. RenormalizeInv => RenormalizeInv'
    BY <2>1 DEF RenormalizeInv, Places
  <2>5. FmodInv'
    BY <2>1, <2>3, <2>4 DEF FmodInv
  <2> QED BY <2>2, <2>5
<1> QED BY <1>1, <1>2, <1>3, <1>4, <1>5, <1>6, <1>7, <1>8 DEF Next, fmod

(***************************************************************************)
(* RemainderIsExact, of all numbers whose low words are zero: fmod keeps   *)
(* the remainder from turn to turn, and what it answers is the remainder   *)
(* of the magnitudes, with the sign of x.  Of other numbers that is not    *)
(* so, as the low words have a sign there.                                 *)
(***************************************************************************)
THEOREM KeepsRemainder ==
  ASSUME \A d \in Dividends \cup Divisors : d.lo = 0
  PROVE  Spec => RemainderIsExact
<1>1. Init => FmodInv
  BY DEF Init, FmodInv
<1>2. TypeOK /\ FmodInv /\ [Next]_vars => FmodInv'
  BY NextRight
<1>3. TypeOK /\ FmodInv /\ [Next]_vars =>
        [/\ RemainderIsKept
         /\ Answered /\ finite(x) /\ finite(y) /\ ~ IsZero(y) =>
              finite(x') /\ SignBit(x') = SignBit(x) /\ Units(x') = Units(x) % Units(y)]_vars
  <2> SUFFICES ASSUME TypeOK, FmodInv, [Next]_vars
               PROVE  /\ RemainderIsKept
                      /\ Answered /\ finite(x) /\ finite(y) /\ ~ IsZero(y) =>
                           finite(x') /\ SignBit(x') = SignBit(x) /\ Units(x') = Units(x) % Units(y)
    OBVIOUS
  <2>1. RemainderIsKept
    BY InvIsKept
  <2>2. AnswersRemainder
    BY NextRight
  <2> QED BY <2>1, <2>2 DEF AnswersRemainder
<1> QED BY <1>1, <1>2, <1>3, TypeCorrect, PTL DEF Spec, RemainderIsExact
=============================================================================
