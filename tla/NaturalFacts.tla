---------------------------- MODULE NaturalFacts ----------------------------
(***************************************************************************)
(* Facts about natural numbers and finite sets that several proofs of this *)
(* project cite.                                                           *)
(***************************************************************************)
EXTENDS Integers, FiniteSets, FiniteSetTheorems, WellFoundedInduction, TLAPS

(* Every non-empty set of natural numbers has a least element.  The sets   *)
(* 0 .. x for the x of S are well-founded under inclusion, so that one of  *)
(* them is minimal.                                                        *)
LEMMA LeastElement ==
  ASSUME NEW S, S \subseteq Nat, S # {}
  PROVE  \E m \in S : \A y \in S : m =< y
<1>1. PICK b \in S : TRUE
  OBVIOUS
<1> DEFINE Upto(x) == 0 .. x
           D == 0 .. b
           T == {Upto(x) : x \in {y \in S : y =< b}}
<1>2. IsWellFoundedOn(StrictSubsetOrdering(D), FiniteSubsetsOf(D))
  BY <1>1, FS_Interval, FS_StrictSubsetOrderingWellFounded
<1>3. T \subseteq FiniteSubsetsOf(D)
  <2>1. \A x \in S : x =< b => Upto(x) \subseteq D
    OBVIOUS
  <2>2. \A x \in S : IsFiniteSet(Upto(x))
    BY FS_Interval
  <2> QED BY <2>1, <2>2 DEF FiniteSubsetsOf
<1>4. T # {}
  OBVIOUS
<1>5. PICK t \in T : \A u \in T : <<u, t>> \notin StrictSubsetOrdering(D)
  <2> HIDE DEF T, D
  <2> QED BY <1>2, <1>3, <1>4, WFMin
<1>6. PICK m \in S : m =< b /\ t = Upto(m)
  OBVIOUS
<1>7. ASSUME NEW y \in S, y < m PROVE FALSE
  <2>1. Upto(y) \in T
    BY <1>6, <1>7
  <2>2. Upto(y) \subseteq Upto(m) /\ Upto(y) # Upto(m)
    BY <1>6, <1>7
  <2>3. <<Upto(y), t>> \in StrictSubsetOrdering(D)
    BY <2>2, <1>6 DEF StrictSubsetOrdering
  <2> QED BY <2>1, <2>3, <1>5
<1> QED BY <1>7

(* A finite non-empty set of natural numbers has a greatest element: the   *)
(* sets of what is greater are well-founded under inclusion.               *)
LEMMA GreatestElement ==
  ASSUME NEW S, S \subseteq Nat, S # {}, IsFiniteSet(S)
  PROVE  \E m \in S : \A y \in S : y =< m
<1> DEFINE Above(x) == {y \in S : x < y}
           T == {Above(x) : x \in S}
<1>1. IsWellFoundedOn(StrictSubsetOrdering(S), FiniteSubsetsOf(S))
  BY FS_StrictSubsetOrderingWellFounded
<1>2. T \subseteq FiniteSubsetsOf(S)
  <2> SUFFICES ASSUME NEW x \in S PROVE Above(x) \in FiniteSubsetsOf(S)
    OBVIOUS
  <2>1. Above(x) \subseteq S
    OBVIOUS
  <2>2. IsFiniteSet(Above(x))
    <3> HIDE DEF Above
    <3> QED BY <2>1, FS_Subset
  <2> QED BY <2>1, <2>2 DEF FiniteSubsetsOf
<1>3. T # {}
  OBVIOUS
<1>4. PICK t \in T : \A u \in T : <<u, t>> \notin StrictSubsetOrdering(S)
  <2> HIDE DEF T
  <2> QED BY <1>1, <1>2, <1>3, WFMin
<1>5. PICK m \in S : t = Above(m)
  OBVIOUS
<1>6. ASSUME NEW y \in S, m < y PROVE FALSE
  <2>1. Above(y) \in T
    OBVIOUS
  <2>2. Above(y) \subseteq Above(m) /\ Above(y) # Above(m)
    <3>1. y \in Above(m) /\ y \notin Above(y)
      BY <1>6
    <3>2. \A z \in Above(y) : z \in Above(m)
      BY <1>6
    <3> QED BY <3>1, <3>2
  <2>3. <<Above(y), t>> \in StrictSubsetOrdering(S)
    BY <2>2, <1>5 DEF StrictSubsetOrdering
  <2> QED BY <2>1, <2>3, <1>4
<1> QED BY <1>6

(* The size of a union of disjoint finite sets. *)
LEMMA DisjointUnion ==
  ASSUME NEW A, NEW B, IsFiniteSet(A), IsFiniteSet(B), A \cap B = {}
  PROVE  /\ IsFiniteSet(A \cup B)
         /\ Cardinality(A \cup B) = Cardinality(A) + Cardinality(B)
<1>1. Cardinality(A) \in Nat /\ Cardinality(B) \in Nat
  BY FS_CardinalityType
<1>2. Cardinality(A \cap B) = 0
  BY FS_EmptySet
<1>3. /\ IsFiniteSet(A \cup B)
      /\ Cardinality(A \cup B)
           = Cardinality(A) + Cardinality(B) - Cardinality(A \cap B)
  BY FS_Union
<1> QED BY <1>1, <1>2, <1>3

(* The size of what is left of a finite set without a subset of it. *)
LEMMA RemoveSubset ==
  ASSUME NEW A, NEW B, IsFiniteSet(A), B \subseteq A
  PROVE  /\ IsFiniteSet(A \ B)
         /\ Cardinality(A \ B) = Cardinality(A) - Cardinality(B)
         /\ Cardinality(B) \in Nat
<1>1. A \cap B = B
  OBVIOUS
<1>2. IsFiniteSet(B)
  BY FS_Subset
<1> QED BY <1>1, <1>2, FS_Difference, FS_CardinalityType

(* What holds before the first round and is kept by every round holds      *)
(* after each.                                                             *)
LEMMA EveryRound ==
  ASSUME NEW n \in Nat, NEW S, 0 \in S, \A k \in 0 .. n - 1 : k \in S => k + 1 \in S
  PROVE  \A k \in 0 .. n : k \in S
<1> DEFINE Bad == {k \in 0 .. n : k \notin S}
<1> SUFFICES ASSUME Bad # {} PROVE FALSE
  OBVIOUS
<1>1. Bad \subseteq Nat
  OBVIOUS
<1>2. PICK k \in Bad : \A j \in Bad : k =< j
  <2> HIDE DEF Bad
  <2> QED BY <1>1, LeastElement
<1>3. k \in 1 .. n /\ k \notin S
  OBVIOUS
<1>4. k - 1 \notin Bad /\ k - 1 \in 0 .. n - 1
  BY <1>2, <1>3
<1>5. k - 1 \in S /\ (k - 1) + 1 = k
  BY <1>4, <1>3
<1> QED
  BY <1>3, <1>4, <1>5
(* What is computed in n rounds, each from the one before, exists.         *)
Rounds(n, S, first, step, f) ==
  f \in [0 .. n -> S] /\ f[0] = first /\ \A j \in 1 .. n : f[j] = step[j][f[j - 1]]

LEMMA RoundsExist ==
  ASSUME NEW n \in Nat, NEW S, NEW s \in S, NEW step \in [1 .. n -> [S -> S]]
  PROVE  \E f : Rounds(n, S, s, step, f)
<1> DEFINE Upto(k) == \E u \in [0 .. k -> S] : u[0] = s /\ \A j \in 1 .. k : u[j] = step[j][u[j - 1]]
           Good == {k \in 0 .. n : Upto(k)}
<1>1. 0 \in Good
  <2> DEFINE f == [j \in 0 .. 0 |-> s]
  <2>1. f \in [0 .. 0 -> S] /\ f[0] = s /\ \A j \in 1 .. 0 : f[j] = step[j][f[j - 1]]
    OBVIOUS
  <2>2. Upto(0)
    BY <2>1
  <2> QED BY <2>2
<1>2. \A k \in 0 .. n - 1 : k \in Good => k + 1 \in Good
  <2> SUFFICES ASSUME NEW k \in 0 .. n - 1, k \in Good PROVE k + 1 \in Good
    OBVIOUS
  <2>1. PICK f \in [0 .. k -> S] : f[0] = s /\ \A j \in 1 .. k : f[j] = step[j][f[j - 1]]
    OBVIOUS
  <2>2. k + 1 \in 1 .. n /\ k \in 0 .. k
    OBVIOUS
  <2>3. step[k + 1][f[k]] \in S
    BY <2>2
  <2> DEFINE g == [j \in 0 .. k + 1 |-> IF j = k + 1 THEN step[k + 1][f[k]] ELSE f[j]]
  <2>4. g \in [0 .. k + 1 -> S]
    BY <2>3
  <2>5. g[0] = s
    BY <2>1
  <2>6. ASSUME NEW j \in 1 .. k + 1 PROVE g[j] = step[j][g[j - 1]]
    <3>1. j - 1 \in 0 .. k /\ g[j - 1] = f[j - 1]
      OBVIOUS
    <3>2. CASE j = k + 1
      BY <3>1, <3>2
    <3>3. CASE j \in 1 .. k
      <4>1. g[j] = f[j]
        BY <3>3
      <4> QED BY <2>1, <3>1, <3>3, <4>1
    <3> QED BY <3>2, <3>3
  <2>7. \E u \in [0 .. k + 1 -> S] :
            u[0] = s /\ \A j \in 1 .. k + 1 : u[j] = step[j][u[j - 1]]
    <3> HIDE DEF g
    <3> QED BY <2>4, <2>5, <2>6
  <2>8. k + 1 \in 0 .. n
    BY <2>2
  <2>9. Upto(k + 1)
    BY <2>7, Zenon
  <2> HIDE DEF Upto
  <2> QED BY <2>8, <2>9
<1>3. n \in Good
  <2> HIDE DEF Good, Upto
  <2>1. \A k \in 0 .. n : k \in Good
    BY <1>1, <1>2, EveryRound
  <2>2. n \in 0 .. n
    OBVIOUS
  <2> QED BY <2>1, <2>2
<1> QED BY <1>3 DEF Rounds
-----------------------------------------------------------------------------
(***************************************************************************)
(* Products and quotients.                                                 *)
(***************************************************************************)
(* A product does not get smaller with its factor.                         *)
LEMMA ProductGrows ==
  ASSUME NEW x \in Nat, NEW y \in Nat, NEW d \in Nat, x =< y
  PROVE  x * d \in Nat /\ y * d \in Nat /\ x * d =< y * d
OBVIOUS

LEMMA Quotients ==
  ASSUME NEW n \in Nat, NEW d \in Nat, d > 0
  PROVE  /\ n \div d \in Nat /\ n % d \in 0 .. (d - 1)
         /\ n = (n \div d) * d + (n % d)
OBVIOUS

(* There is only one way to divide with a remainder.                       *)
LEMMA Euclid ==
  ASSUME NEW d \in Nat, d > 0, NEW q \in Nat, NEW r \in 0 .. (d - 1),
         NEW n \in Nat, n = q * d + r
  PROVE  n \div d = q /\ n % d = r
<1> DEFINE p == n \div d
           m == n % d
<1>1. p \in Nat /\ m \in 0 .. (d - 1) /\ n = p * d + m
  BY Quotients
<1> HIDE DEF p, m
<1>2. ~ (p < q)
  <2> SUFFICES ASSUME p < q PROVE FALSE
    OBVIOUS
  <2>1. (p + 1) * d =< q * d
    BY <1>1, ProductGrows
  <2>2. (p + 1) * d = p * d + d
    BY <1>1
  <2>3. p * d \in Nat /\ q * d \in Nat
    BY <1>1
  <2> QED BY <1>1, <2>1, <2>2, <2>3
<1>3. ~ (q < p)
  <2> SUFFICES ASSUME q < p PROVE FALSE
    OBVIOUS
  <2>1. (q + 1) * d =< p * d
    BY <1>1, ProductGrows
  <2>2. (q + 1) * d = q * d + d
    BY <1>1
  <2>3. p * d \in Nat /\ q * d \in Nat
    BY <1>1
  <2> QED BY <1>1, <2>1, <2>2, <2>3
<1>4. p = q
  BY <1>1, <1>2, <1>3
<1>5. m = r
  <2>1. p * d \in Nat
    BY <1>1
  <2> QED BY <1>1, <1>4, <2>1
<1> QED BY <1>4, <1>5 DEF p, m
-----------------------------------------------------------------------------
(***************************************************************************)
(* Powers of two.  The provers know nothing of them but that a set of n    *)
(* members has 2 ^ n subsets (FS_SUBSET), from which the rest follows.     *)
(***************************************************************************)
LEMMA Subsets ==
  ASSUME NEW n \in Nat
  PROVE  /\ IsFiniteSet(SUBSET (1 .. n))
         /\ 2 ^ n = Cardinality(SUBSET (1 .. n)) /\ 2 ^ n \in Nat
<1>1. IsFiniteSet(1 .. n) /\ Cardinality(1 .. n) = n
  BY FS_Interval
<1>2. IsFiniteSet(SUBSET (1 .. n)) /\ Cardinality(SUBSET (1 .. n)) = 2 ^ n
  BY <1>1, FS_SUBSET
<1> QED BY <1>2, FS_CardinalityType

LEMMA PowerOfZero == 2 ^ 0 = 1
<1>1. 1 .. 0 = {} /\ SUBSET {} = {{}}
  OBVIOUS
<1>2. Cardinality({{}}) = 1
  BY FS_Singleton
<1>3. 2 ^ 0 = Cardinality(SUBSET (1 .. 0))
  BY Subsets
<1> QED BY <1>1, <1>2, <1>3

(* A member more doubles the subsets: each of them with it, and without.   *)
LEMMA PowerDoubles ==
  ASSUME NEW n \in Nat
  PROVE  2 ^ (n + 1) = 2 * 2 ^ n
<1> DEFINE A == SUBSET (1 .. n)
           B == {T \cup {n + 1} : T \in A}
           f == [T \in A |-> T \cup {n + 1}]
<1>1. SUBSET (1 .. n + 1) = A \cup B
  <2>1. ASSUME NEW T \in SUBSET (1 .. n + 1) PROVE T \in A \cup B
    <3>1. CASE n + 1 \in T
      <4>1. T \ {n + 1} \in A
        OBVIOUS
      <4>2. T = (T \ {n + 1}) \cup {n + 1}
        BY <3>1
      <4> QED BY <4>1, <4>2
    <3>2. CASE n + 1 \notin T
      <4>1. T \in A
        BY <3>2
      <4> QED BY <4>1
    <3> QED BY <3>1, <3>2
  <2>2. ASSUME NEW T \in A \cup B PROVE T \in SUBSET (1 .. n + 1)
    OBVIOUS
  <2> QED BY <2>1, <2>2
<1>2. A \cap B = {}
  OBVIOUS
<1>3. IsFiniteSet(A) /\ Cardinality(A) = 2 ^ n /\ 2 ^ n \in Nat
  BY Subsets
<1>4. f \in Bijection(A, B)
  <2>1. f \in [A -> B]
    OBVIOUS
  <2>2. \A S, T \in A : f[S] = f[T] => S = T
    OBVIOUS
  <2>3. \A U \in B : \E T \in A : f[T] = U
    OBVIOUS
  <2> HIDE DEF f, A, B
  <2> QED BY <2>1, <2>2, <2>3 DEF Bijection, Injection, IsInjective, Surjection
<1>5. IsFiniteSet(B) /\ Cardinality(B) = Cardinality(A)
  <2> HIDE DEF f, A, B
  <2>1. ExistsBijection(A, B)
    BY <1>4 DEF ExistsBijection
  <2> QED BY <1>3, <2>1, FS_Bijection
<1>6. Cardinality(A \cup B) = 2 ^ n + 2 ^ n
  <2> HIDE DEF A, B
  <2> QED BY <1>2, <1>3, <1>5, DisjointUnion
<1>7. 2 ^ (n + 1) = Cardinality(A \cup B)
  <2>1. n + 1 \in Nat
    OBVIOUS
  <2>2. 2 ^ (n + 1) = Cardinality(SUBSET (1 .. n + 1))
    BY <2>1, Subsets
  <2> QED BY ONLY <1>1, <2>2
<1> QED
  <2> HIDE DEF A, B
  <2>1. PICK p \in Nat : p = 2 ^ n
    BY <1>3
  <2> QED BY ONLY <1>6, <1>7, <2>1

LEMMA PowerType ==
  ASSUME NEW n \in Nat
  PROVE  2 ^ n \in Nat /\ 2 ^ n > 0 /\ n < 2 ^ n
<1> DEFINE S == {k \in 0 .. n : k < 2 ^ k}
<1>1. 0 \in S
  BY PowerOfZero
<1>2. ASSUME NEW k \in 0 .. n - 1, k \in S PROVE k + 1 \in S
  <2>1. k \in Nat /\ k + 1 \in 0 .. n /\ k < 2 ^ k
    BY <1>2
  <2>2. PICK p \in Nat : p = 2 ^ k
    BY <2>1, Subsets
  <2>3. 2 ^ (k + 1) = 2 * p
    BY <2>1, <2>2, PowerDoubles
  <2> QED BY <2>1, <2>2, <2>3
<1>3. n \in S
  <2>1. n \in 0 .. n
    OBVIOUS
  <2> HIDE DEF S
  <2> QED BY <1>1, <1>2, <2>1, EveryRound
<1> QED BY <1>3, Subsets

LEMMA PowerOfSum ==
  ASSUME NEW m \in Nat, NEW n \in Nat
  PROVE  2 ^ (m + n) = 2 ^ m * 2 ^ n
<1> DEFINE S == {k \in 0 .. n : 2 ^ (m + k) = 2 ^ m * 2 ^ k}
<1>1. PICK p \in Nat : p = 2 ^ m
  BY PowerType
<1>2. 0 \in S
  <2>1. m + 0 = m /\ p * 1 = p
    BY <1>1
  <2> QED BY <1>1, <2>1, PowerOfZero
<1>3. ASSUME NEW k \in 0 .. n - 1, k \in S PROVE k + 1 \in S
  <2>1. k \in Nat /\ k + 1 \in 0 .. n /\ m + k \in Nat /\ m + (k + 1) = (m + k) + 1
    BY <1>3
  <2>2. PICK q \in Nat, r \in Nat : q = 2 ^ k /\ r = 2 ^ (m + k)
    BY <2>1, PowerType
  <2>3. r = p * q
    BY <1>1, <1>3, <2>2
  <2>4. 2 ^ (k + 1) = 2 * q /\ 2 ^ ((m + k) + 1) = 2 * r
    BY <2>1, <2>2, PowerDoubles
  <2>5. p * (2 * q) = 2 * (p * q)
    OBVIOUS
  <2>6. 2 ^ (m + (k + 1)) = p * (2 * q)
    BY <2>1, <2>3, <2>4, <2>5
  <2> QED BY <1>1, <2>1, <2>4, <2>6
<1>4. n \in S
  <2>1. n \in 0 .. n
    OBVIOUS
  <2> HIDE DEF S
  <2> QED BY <1>2, <1>3, <2>1, EveryRound
<1> QED BY <1>4

LEMMA PowerSplits ==
  ASSUME NEW n \in Nat, NEW m \in 0 .. n
  PROVE  /\ n - m \in Nat /\ 2 ^ n = 2 ^ m * 2 ^ (n - m)
         /\ 2 ^ m <= 2 ^ n
         /\ m < n => 2 * 2 ^ m <= 2 ^ n
<1>1. n - m \in Nat /\ m \in Nat /\ m + (n - m) = n
  OBVIOUS
<1>2. PICK p \in Nat, q \in Nat : p = 2 ^ m /\ q = 2 ^ (n - m) /\ q > 0
  BY <1>1, PowerType
<1>3. 2 ^ n = p * q
  BY <1>1, <1>2, PowerOfSum
<1>4. 1 * p =< q * p
  BY <1>2, ProductGrows
<1>5. m < n => 2 * p =< q * p
  <2> SUFFICES ASSUME m < n PROVE 2 * p =< q * p
    OBVIOUS
  <2>1. n - m - 1 \in Nat /\ (n - m - 1) + 1 = n - m
    BY <1>1
  <2>2. PICK r \in Nat : r = 2 ^ (n - m - 1) /\ r > 0
    BY <2>1, PowerType
  <2>3. q = 2 * r
    BY <1>2, <2>1, <2>2, PowerDoubles
  <2>4. 2 =< q
    BY <2>2, <2>3
  <2> QED BY <1>2, <2>4, ProductGrows
<1>6. p * q = q * p /\ 1 * p = p
  OBVIOUS
<1> QED BY <1>1, <1>2, <1>3, <1>4, <1>5, <1>6
-----------------------------------------------------------------------------
(***************************************************************************)
(* Quotients and remainders of integers, also of those below zero.         *)
(***************************************************************************)
LEMMA Divided ==
  ASSUME NEW v \in Int, NEW d \in Nat, d > 0
  PROVE  /\ v \div d \in Int /\ v % d \in 0 .. (d - 1)
         /\ v = (v \div d) * d + (v % d)
         /\ v >= 0 => v \div d >= 0
OBVIOUS

(* Products of integers compare as their first factors do.                 *)
LEMMA FactorsOrdered ==
  ASSUME NEW p \in Int, NEW q \in Int, NEW d \in Nat, p < q
  PROVE  p * d \in Int /\ q * d \in Int /\ p * d + d =< q * d
<1>1. PICK k \in Nat : q = p + 1 + k
  <2>1. q - p - 1 \in Nat /\ q = p + 1 + (q - p - 1)
    OBVIOUS
  <2> QED BY <2>1
<1>2. k * d \in Nat
  OBVIOUS
<1>3. q * d = p * d + d + k * d
  BY <1>1
<1> QED BY <1>2, <1>3

LEMMA DividedOnce ==
  ASSUME NEW v \in Int, NEW d \in Nat, d > 0, NEW q \in Int, NEW r \in 0 .. (d - 1),
         v = q * d + r
  PROVE  v \div d = q /\ v % d = r
<1>1. PICK p \in Int, m \in 0 .. (d - 1) : p = v \div d /\ m = v % d /\ v = p * d + m
  BY Divided
<1>2. p * d \in Int /\ q * d \in Int /\ p * d + m = q * d + r
  BY <1>1
<1>3. ~ (p < q)
  <2> SUFFICES ASSUME p < q PROVE FALSE
    OBVIOUS
  <2>1. p * d + d =< q * d
    BY FactorsOrdered
  <2> QED BY <1>2, <2>1
<1>4. ~ (q < p)
  <2> SUFFICES ASSUME q < p PROVE FALSE
    OBVIOUS
  <2>1. q * d + d =< p * d
    BY FactorsOrdered
  <2> QED BY <1>2, <2>1
<1>5. p = q
  BY <1>3, <1>4
<1> QED BY <1>1, <1>2, <1>5

LEMMA DividedTwice ==
  ASSUME NEW v \in Int, NEW c \in Nat, c > 0, NEW d \in Nat, d > 0
  PROVE  /\ c * d \in Nat /\ c * d > 0
         /\ v \div (c * d) = (v \div c) \div d
         /\ v % (c * d) = ((v \div c) % d) * c + (v % c)
<1>1. PICK h \in Int, r \in 0 .. (c - 1) : h = v \div c /\ r = v % c /\ v = h * c + r
  BY Divided
<1>2. PICK q \in Int, e \in 0 .. (d - 1) : q = h \div d /\ e = h % d /\ h = q * d + e
  BY Divided
<1>3. PICK m \in Nat : m = c * d /\ m > 0
  <2>1. 1 * d =< c * d /\ 1 * d = d /\ c * d \in Nat
    BY ProductGrows
  <2> QED BY <2>1
<1>4. v = q * m + (e * c + r)
  <2>1. v = (q * d + e) * c + r
    BY <1>1, <1>2
  <2>2. (q * d + e) * c = q * (c * d) + e * c
    OBVIOUS
  <2> QED BY <1>3, <2>1, <2>2
<1>5. e * c + r \in 0 .. (m - 1)
  <2>1. e * c =< (d - 1) * c /\ e * c \in Nat /\ (d - 1) * c \in Nat
    BY ProductGrows
  <2>2. (d - 1) * c = c * d - c
    OBVIOUS
  <2> QED BY <1>3, <2>1, <2>2
<1>6. v \div m = q /\ v % m = e * c + r
  <2>1. PICK s \in 0 .. (m - 1) : s = e * c + r
    BY <1>5
  <2>2. v = q * m + s
    BY <1>4, <2>1
  <2> QED BY <1>3, <2>1, <2>2, DividedOnce
<1>7. v \div m = (v \div c) \div d /\ v % m = ((v \div c) % d) * c + (v % c)
  <2>1. h \div d = q /\ (h % d) * c + r = e * c + r
    BY ONLY <1>2
  <2>2. v \div m = h \div d /\ v % m = (h % d) * c + r
    BY ONLY <1>6, <2>1
  <2>3. v \div c = h /\ v % c = r
    BY <1>1, Zenon
  <2> QED BY ONLY <2>2, <2>3, Zenon
<1> QED BY <1>3, <1>7, Zenon

LEMMA DividedScaled ==
  ASSUME NEW v \in Int, NEW c \in Nat, c > 0, NEW d \in Nat, d > 0
  PROVE  /\ (v * c) \div (d * c) = v \div d
         /\ (v * c) % (d * c) = (v % d) * c
<1>1. PICK q \in Int, r \in 0 .. (d - 1) : q = v \div d /\ r = v % d /\ v = q * d + r
  BY Divided
<1>2. PICK m \in Nat : m = d * c /\ m > 0
  <2>1. 1 * c =< d * c /\ 1 * c = c /\ d * c \in Nat
    BY ProductGrows
  <2> QED BY <2>1
<1>3. r * c \in 0 .. (m - 1)
  <2>1. r * c =< (d - 1) * c /\ r * c \in Nat /\ (d - 1) * c \in Nat
    BY ProductGrows
  <2>2. (d - 1) * c = d * c - c
    OBVIOUS
  <2> QED BY <1>2, <2>1, <2>2
<1>4. PICK s \in 0 .. (m - 1) : s = r * c
  BY <1>3
<1>5. v * c = q * m + s
  <2>1. v * c = (q * d + r) * c
    BY <1>1
  <2>2. (q * d + r) * c = q * (d * c) + r * c
    OBVIOUS
  <2> QED BY <1>2, <1>4, <2>1, <2>2
<1>6. PICK u \in Int : u = v * c
  OBVIOUS
<1>7. u \div m = q /\ u % m = s
  BY <1>2, <1>5, <1>6, DividedOnce
<1> QED BY <1>1, <1>2, <1>4, <1>6, <1>7

LEMMA DividedMore ==
  ASSUME NEW v \in Int, NEW d \in Nat, d > 0, NEW q \in Int
  PROVE  /\ q * d + v \in Int
         /\ (q * d + v) \div d = q + (v \div d)
         /\ (q * d + v) % d = v % d
<1>1. PICK p \in Int, r \in 0 .. (d - 1) : p = v \div d /\ r = v % d /\ v = p * d + r
  BY Divided
<1>2. PICK u \in Int : u = q * d + v
  OBVIOUS
<1>3. PICK s \in Int : s = q + p
  OBVIOUS
<1>4. u = s * d + r
  <2>1. (q + p) * d = q * d + p * d
    OBVIOUS
  <2> QED BY <1>1, <1>2, <1>3, <2>1
<1>5. u \div d = s /\ u % d = r
  BY <1>4, DividedOnce
<1> QED BY <1>1, <1>2, <1>3, <1>5

LEMMA QuotientBelow ==
  ASSUME NEW v \in Int, NEW d \in Nat, d > 0, NEW q \in Int
  PROVE  (v < q * d <=> v \div d < q) /\ (v >= q * d <=> v \div d >= q)
<1>1. PICK p \in Int, r \in 0 .. (d - 1) : p = v \div d /\ r = v % d /\ v = p * d + r
  BY Divided
<1>2. p * d \in Int /\ q * d \in Int
  OBVIOUS
<1>3. p < q => p * d + d =< q * d
  BY FactorsOrdered
<1>4. q < p => q * d + d =< p * d
  BY FactorsOrdered
<1>5. CASE p < q
  BY <1>1, <1>2, <1>3, <1>5
<1>6. CASE q < p
  BY <1>1, <1>2, <1>4, <1>6
<1>7. CASE p = q
  BY <1>1, <1>2, <1>7
<1> QED BY <1>5, <1>6, <1>7

LEMMA QuotientsOrdered ==
  ASSUME NEW v \in Int, NEW w \in Int, v =< w, NEW d \in Nat, d > 0
  PROVE  v \div d =< w \div d
<1>1. PICK q \in Int, r \in 0 .. (d - 1) : q = v \div d /\ r = v % d /\ v = q * d + r
  BY Divided
<1>2. w >= q * d
  <2>1. q * d \in Int
    OBVIOUS
  <2> QED BY <1>1, <2>1
<1>3. w \div d >= q
  BY <1>2, QuotientBelow
<1> QED BY <1>1, <1>3, Divided

(* What is small enough is its own remainder, and the opposite of it       *)
(* counts down from the divisor.                                           *)
LEMMA DividedSmall ==
  ASSUME NEW d \in Nat, d > 0, NEW v \in 0 .. (d - 1)
  PROVE  /\ v \div d = 0 /\ v % d = v
         /\ v > 0 => (0 - v) % d = d - v /\ (0 - v) \div d = -1
<1>1. v = 0 * d + v /\ 0 - v = (-1) * d + (d - v)
  OBVIOUS
<1>2. v \div d = 0 /\ v % d = v
  BY <1>1, DividedOnce
<1>3. ASSUME v > 0 PROVE (0 - v) % d = d - v /\ (0 - v) \div d = -1
  <2>1. PICK u \in Int, r \in 0 .. (d - 1) : u = 0 - v /\ r = d - v
    BY <1>3
  <2>2. u = (-1) * d + r
    BY <1>1, <2>1
  <2> QED BY <2>1, <2>2, DividedOnce
<1> QED BY <1>2, <1>3

(* A product with a factor that d divides is divided by d.                 *)
LEMMA Multiple ==
  ASSUME NEW q \in Int, NEW d \in Nat, d > 0
  PROVE  q * d \in Int /\ (q * d) \div d = q /\ (q * d) % d = 0
<1>1. PICK u \in Int : u = q * d
  OBVIOUS
<1>2. u = q * d + 0
  BY <1>1
<1>3. 0 \in 0 .. (d - 1)
  OBVIOUS
<1> QED BY <1>1, <1>2, <1>3, DividedOnce

(* Up to, or down to, a multiple of what also divides the bound stays      *)
(* within the bound.                                                       *)
LEMMA CutOff ==
  ASSUME NEW v \in Nat, NEW d \in Nat, d > 0, NEW k \in Nat, v < k * d
  PROVE  /\ v % d \in 0 .. (d - 1) /\ v - (v % d) \in Nat
         /\ v - (v % d) + d \in Nat /\ v - (v % d) + d <= k * d
<1>1. PICK q \in Nat, r \in 0 .. (d - 1) : q = v \div d /\ r = v % d /\ v = q * d + r
  BY Divided
<1>2. q < k
  <2>1. v \div d < k
    BY QuotientBelow
  <2> QED BY <1>1, <2>1
<1>3. q * d + d =< k * d /\ q * d \in Nat /\ k * d \in Nat
  BY <1>2, FactorsOrdered
<1> QED BY <1>1, <1>3

LEMMA Cancelled ==
  ASSUME NEW v \in Int, NEW w \in Int, NEW d \in Nat, d > 0, v * d = w * d
  PROVE  v = w
<1>1. (v * d) \div d = v /\ (w * d) \div d = w
  BY Multiple
<1> QED BY <1>1
=============================================================================
