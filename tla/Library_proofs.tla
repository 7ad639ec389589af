--------------------------- MODULE Library_proofs ---------------------------
(***************************************************************************)
(* The C library.  bsearch finds what is there, for arrays of any size;    *)
(* strtol and strtoul read exactly, for every width of a long, every base  *)
(* and every text; itoa writes every number; and the functions of string.c *)
(* move, append, split, compare and search as they should, in every        *)
(* memory.                                                                 *)
(***************************************************************************)
EXTENDS Stdlib, Strings, NaturalFacts, SequenceTheorems

(* The callers of the library take turns, so that each function runs as it *)
(* does alone.                                                             *)
LEMMA SpecImplementsAll == Spec => SearchSpec /\ ConversionSpec /\ DigitsSpec
<1>1. Init => InitSearch /\ InitConversion /\ InitDigits
  BY DEF Init
<1>2. [Next]_vars => [NextSearch]_searchVars /\ [NextConversion]_conversionVars
                       /\ [NextDigits]_digitVars
  BY DEF Next, vars, Bsearch, Strto, Itoa
<1> QED
  BY <1>1, <1>2, PTL DEF Spec, SearchSpec, ConversionSpec, DigitsSpec
-----------------------------------------------------------------------------
(* The middle splits what is left.                                         *)
LEMMA Halves ==
  ASSUME NEW n \in Nat, n # 0
  PROVE  /\ n \div 2 \in Nat /\ UpperHalf(n) \in Nat
         /\ n \div 2 + 1 + UpperHalf(n) = n
  BY DEF UpperHalf

(* The probe is one of the members that are left, and those in front of    *)
(* it and behind it are what the two halves stand for.                     *)
LEMMA ProbeIsInside ==
  ASSUME SearchTypeOK, KeyIsLeft, searching = "probing", limit # 0
  PROVE  /\ pointer \in 0 .. nmemb - 1 /\ start <= pointer
         /\ start + limit \div 2 = pointer /\ limit \div 2 \in Nat
         /\ pointer + 1 + UpperHalf(limit) = start + limit /\ UpperHalf(limit) \in Nat
<1>1. limit \in Nat /\ start \in Nat /\ nmemb \in Nat /\ start + limit <= nmemb
  BY MembersAssumption DEF SearchTypeOK, KeyIsLeft
<1>2. /\ limit \div 2 \in Nat /\ UpperHalf(limit) \in Nat
      /\ limit \div 2 + 1 + UpperHalf(limit) = limit
  BY <1>1, Halves
<1> QED
  BY <1>1, <1>2 DEF pointer

LEMMA SearchInitially == InitSearch => SearchInv
  BY MembersAssumption
     DEF InitSearch, SearchInv, SearchTypeOK, KeyIsLeft, ReturnsKey, NotFound

LEMMA SearchStep == SearchInv /\ [NextSearch]_searchVars => SearchInv'
<1> SUFFICES ASSUME SearchInv, [NextSearch]_searchVars
             PROVE  SearchInv'
  OBVIOUS
<1>1. SearchTypeOK /\ KeyIsLeft
  BY DEF SearchInv
<1>2. CASE CallBsearch
  <2>1. SearchTypeOK'
    BY <1>1, <1>2, MembersAssumption DEF CallBsearch, SearchTypeOK
  <2>2. KeyIsLeft'
    <3>1. /\ nmemb' \in Nat /\ equal' \in Nat /\ behind' \in Nat
          /\ equal' <= behind' /\ behind' <= nmemb'
          /\ start' \in Nat /\ limit' \in Nat
      BY <2>1, MembersAssumption DEF SearchTypeOK
    <3>2. start' = 0 /\ limit' = nmemb'
      BY <1>2 DEF CallBsearch
    <3>3. start' + limit' = 0 + nmemb' /\ 0 + nmemb' = nmemb'
      <4>1. start' + limit' = 0 + nmemb'
        BY <3>2, Zenon
      <4>2. \A n \in Nat : 0 + n = n
        OBVIOUS
      <4> QED
        BY <3>1, <4>1, <4>2, Zenon
    <3>4. nmemb' <= nmemb' /\ (equal' < behind' => nmemb' # 0 /\ equal' < nmemb' /\ 0 < behind')
      BY <3>1
    <3> QED
      BY <3>2, <3>3, <3>4 DEF KeyIsLeft
  <2>3. ReturnsKey'
    BY <1>2 DEF CallBsearch, ReturnsKey
  <2> QED
    BY <2>1, <2>2, <2>3 DEF SearchInv
<1>3. CASE Probe
  <2>1. /\ searching = "probing" /\ limit # 0
        /\ pointer \in 0 .. nmemb - 1 /\ start <= pointer
        /\ start + limit \div 2 = pointer /\ limit \div 2 \in Nat
        /\ pointer + 1 + UpperHalf(limit) = start + limit /\ UpperHalf(limit) \in Nat
    BY <1>1, <1>3, ProbeIsInside DEF Probe
  <2>2. /\ nmemb \in 0 .. MaxMembers /\ equal \in 0 .. nmemb /\ behind \in equal .. nmemb
        /\ start \in Nat /\ limit \in Nat /\ MaxMembers \in Nat
        /\ start + limit <= nmemb
        /\ comparison = "ordered" /\ equal < behind => limit # 0 /\ equal < start + limit /\ start < behind
    BY <1>1, <2>1, MembersAssumption DEF SearchTypeOK, KeyIsLeft
  <2>3. pointer \in Nat
    BY <2>1, <2>2
  <2>4. CASE ProbeHits
    <3>1. comparison = "ordered" => equal <= pointer /\ pointer < behind
      BY <2>2, <2>3, <2>4 DEF ProbeHits, Comparison
    <3>2. SearchTypeOK'
      BY <1>1, <2>1, <2>2, <2>4 DEF ProbeHits, ReturnMember, SearchTypeOK
    <3>3. KeyIsLeft'
      BY <2>4 DEF ProbeHits, ReturnMember, KeyIsLeft
    <3>4. ReturnsKey'
      BY <2>2, <2>3, <2>4, <3>1 DEF ProbeHits, ReturnMember, ReturnsKey
    <3> QED
      BY <3>2, <3>3, <3>4 DEF SearchInv
  <2>5. CASE ProbeGoesUp
    <3>1. comparison = "ordered" => pointer < equal
      BY <2>2, <2>3, <2>5 DEF ProbeGoesUp, Comparison
    <3>2. start' \in Nat /\ limit' \in Nat /\ start' + limit' = start + limit /\ start' = pointer + 1
      BY <2>1, <2>2, <2>3, <2>5 DEF ProbeGoesUp
    <3>3. SearchTypeOK'
      BY <1>1, <2>2, <2>5, <3>2 DEF ProbeGoesUp, SearchTypeOK
    <3>4. KeyIsLeft'
      BY <2>2, <2>3, <2>5, <3>1, <3>2 DEF ProbeGoesUp, KeyIsLeft
    <3>5. ReturnsKey'
      BY <2>1, <2>5 DEF ProbeGoesUp, ReturnsKey
    <3> QED
      BY <3>3, <3>4, <3>5 DEF SearchInv
  <2>6. CASE ProbeGoesDown
    <3>1. comparison = "ordered" => behind <= pointer
      BY <2>2, <2>3, <2>6 DEF ProbeGoesDown, Comparison
    <3>2. start' = start /\ limit' \in Nat /\ start' + limit' = pointer
      BY <2>1, <2>2, <2>6 DEF ProbeGoesDown
    <3>3. SearchTypeOK'
      BY <1>1, <2>2, <2>6, <3>2 DEF ProbeGoesDown, SearchTypeOK
    <3>4. KeyIsLeft'
      BY <2>1, <2>2, <2>3, <2>6, <3>1, <3>2 DEF ProbeGoesDown, KeyIsLeft
    <3>5. ReturnsKey'
      BY <2>1, <2>6 DEF ProbeGoesDown, ReturnsKey
    <3> QED
      BY <3>3, <3>4, <3>5 DEF SearchInv
  <2> QED
    BY <1>3, <2>4, <2>5, <2>6 DEF Probe
<1>4. CASE GiveUp
  <2>1. comparison = "ordered" => equal = behind
    <3>1. /\ start \in Nat /\ equal \in Nat /\ behind \in Nat /\ equal <= behind
      BY <1>1, MembersAssumption DEF SearchTypeOK
    <3>2. searching = "probing" /\ limit = 0
      BY <1>4 DEF GiveUp
    <3>3. comparison = "ordered" => ~ (equal < behind)
      BY <1>1, <3>1, <3>2 DEF KeyIsLeft
    <3> QED
      BY <3>1, <3>3
  <2>2. SearchTypeOK'
    BY <1>1, <1>4 DEF GiveUp, ReturnMember, SearchTypeOK
  <2>3. KeyIsLeft'
    BY <1>4 DEF GiveUp, ReturnMember, KeyIsLeft
  <2>4. ReturnsKey'
    BY <1>4, <2>1 DEF GiveUp, ReturnMember, ReturnsKey
  <2> QED
    BY <2>2, <2>3, <2>4 DEF SearchInv
<1>5. CASE EndBsearch
  BY <1>5, MembersAssumption
     DEF EndBsearch, SearchInv, SearchTypeOK, KeyIsLeft, ReturnsKey, NotFound
<1>6. CASE UNCHANGED searchVars
  BY <1>6 DEF searchVars, SearchInv, SearchTypeOK, KeyIsLeft, ReturnsKey
<1> QED
  BY <1>2, <1>3, <1>4, <1>5, <1>6 DEF NextSearch

(* The members that bsearch has left hold the key if any of the array      *)
(* does, and it returns one that is equal to the key exactly when there is *)
(* one; it looks at members only, whatever the comparison answers.         *)
THEOREM SearchInvariance == SearchSpec => []SearchInv
  BY SearchInitially, SearchStep, PTL DEF SearchSpec

(* What the run checks of bsearch, for every number of members.            *)
THEOREM SearchCorrect == Spec => []FindsKey
<1>1. SearchInv => FindsKey
  BY ProbeIsInside DEF SearchInv, FindsKey, ProbesMembers
<1> QED
  BY <1>1, SpecImplementsAll, SearchInvariance, PTL
-----------------------------------------------------------------------------
LEMMA Division ==
  ASSUME NEW m \in Nat, NEW b \in Nat, b > 0
  PROVE  /\ m \div b \in Nat /\ m % b \in 0 .. b - 1
         /\ m = (m \div b) * b + (m % b)
  OBVIOUS

(* A product does not get smaller with its factor.                         *)
LEMMA Product ==
  ASSUME NEW x \in Nat, NEW y \in Nat, NEW b \in Nat, x <= y
  PROVE  x * b \in Nat /\ y * b \in Nat /\ x * b <= y * b
  OBVIOUS

(* The cutoff and the limit of the last digit tell whether one more digit  *)
(* takes the number beyond the largest.                                    *)
LEMMA Cutoff ==
  ASSUME NEW m \in Nat, NEW b \in Nat, b > 0, NEW a \in Nat, NEW d \in 0 .. b - 1
  PROVE  /\ a * b + d \in Nat
         /\ a > m \div b \/ (a = m \div b /\ d > m % b) <=> a * b + d > m
<1> DEFINE q == m \div b
           r == m % b
<1>1. q \in Nat /\ r \in 0 .. b - 1 /\ m = q * b + r
  BY Division
<1>2. a * b \in Nat /\ q * b \in Nat
  BY <1>1, Product
<1> HIDE DEF q, r
<1>3. CASE a > q
  <2>1. (q + 1) * b <= a * b
    BY <1>1, <1>3, Product
  <2>2. (q + 1) * b = q * b + b
    BY <1>1
  <2> QED
    BY <1>1, <1>2, <1>3, <2>1, <2>2 DEF q, r
<1>4. CASE a = q
  BY <1>1, <1>2, <1>4 DEF q, r
<1>5. CASE a < q
  <2>1. (a + 1) * b <= q * b
    BY <1>1, <1>5, Product
  <2>2. (a + 1) * b = a * b + b
    OBVIOUS
  <2> QED
    BY <1>1, <1>2, <1>5, <2>1, <2>2 DEF q, r
<1> QED
  BY <1>1, <1>3, <1>4, <1>5

(* A number that is beyond the largest stays there.                        *)
LEMMA Beyond ==
  ASSUME NEW m \in Nat, NEW b \in Nat, b > 0, NEW n \in Nat, NEW d \in Nat, n > m
  PROVE  n * b + d \in Nat /\ n * b + d > m
<1>1. n * b >= n * 1
  BY Product
<1> QED
  BY <1>1, Product

LEMMA Small ==
  ASSUME NEW w \in Nat, NEW x \in Nat, x < w
  PROVE  x % w = x
  OBVIOUS

LEMMA Opposite ==
  ASSUME NEW w \in Nat, NEW x \in Nat, x < w
  PROVE  (0 - x) % w = IF x = 0 THEN 0 ELSE w - x
  OBVIOUS

LEMMA Ranges ==
  ASSUME ConversionTypeOK
  PROVE  /\ LONG_MAX \in Nat /\ LONG_MAX >= 1
         /\ ULONG_MAX \in Nat /\ Words \in Nat /\ ULONG_MAX < Words
         /\ Words = 2 * LONG_MAX + 2 /\ ULONG_MAX = 2 * LONG_MAX + 1
         /\ Largest \in Nat /\ Largest <= ULONG_MAX
         /\ function = "strtoul" => Largest = ULONG_MAX
         /\ function = "strtol" => Largest = LONG_MAX + negative
  BY LongAssumption DEF ConversionTypeOK, Largest, Words, ULONG_MAX

(* A character that is no terminator has another one behind it.            *)
LEMMA MoreFollows ==
  ASSUME NEW t \in Texts, NEW i \in 1 .. Len(t), t[i] # Terminator
  PROVE  i + 1 \in 1 .. Len(t)
<1>1. Len(t) \in Nat /\ t[Len(t)] = Terminator
  BY TextsAssumption
<1> QED
  BY <1>1

LEMMA ConversionInitially == InitConversion => ConversionInv
  BY LongAssumption
     DEF InitConversion, ConversionInv, ConversionTypeOK, AccumulatorIsExact, ReadsExactly,
         ULONG_MAX

LEMMA TypeStep ==
  ConversionTypeOK /\ AccumulatorIsExact /\ [NextConversion]_conversionVars => ConversionTypeOK'
<1> SUFFICES ASSUME ConversionTypeOK, AccumulatorIsExact, [NextConversion]_conversionVars
             PROVE  ConversionTypeOK'
  OBVIOUS
<1>1. ASSUME NEW name \in {"strtol", "strtoul"}, Call(name)
      PROVE  ConversionTypeOK'
  <2>1. text' \in Texts /\ 1 \in 1 .. Len(text')
    BY <1>1, TextsAssumption DEF Call
  <2> QED
    BY <1>1, <2>1 DEF Call, ConversionTypeOK
<1>2. CASE SkipSpace
  <2>1. at + 1 \in 1 .. Len(text)
    <3>1. text \in Texts /\ at \in 1 .. Len(text) /\ text[at] # Terminator
      BY <1>2 DEF SkipSpace, ConversionTypeOK, character, Space, Terminator
    <3> QED
      BY <3>1, MoreFollows
  <2> QED
    BY <1>2, <2>1 DEF SkipSpace, ConversionTypeOK
<1>3. CASE ReadPrefix
  <2>1. text \in Texts /\ at \in 1 .. Len(text) /\ base \in Bases
    BY <1>3 DEF ReadPrefix, ConversionTypeOK
  <2>2. AfterSign \in 1 .. Len(text)
    BY <2>1, MoreFollows DEF AfterSign, character, Minus, Plus, Terminator
  <2>3. at' \in 1 .. Len(text) /\ base' \in 2 .. 36
    <3>1. CASE HasHexPrefix(AfterSign)
      <4>1. AfterSign + 1 \in 1 .. Len(text)
        BY <2>1, <2>2, <3>1, MoreFollows DEF HasHexPrefix, Terminator
      <4>2. (AfterSign + 1) + 1 \in 1 .. Len(text)
        BY <2>1, <4>1, <3>1, MoreFollows DEF HasHexPrefix, Terminator, LetterX
      <4>3. at' = AfterSign + 2 /\ base' = 16
        BY <1>3, <3>1 DEF ReadPrefix
      <4> QED
        BY <2>2, <4>2, <4>3
    <3>2. CASE ~ HasHexPrefix(AfterSign)
      <4>1. /\ at' = AfterSign
            /\ base' = IF base # 0 THEN base ELSE IF text[AfterSign] = 0 THEN 8 ELSE 10
        BY <1>3, <3>2 DEF ReadPrefix
      <4>2. base \in {0} \cup 2 .. 36
        BY <2>1, BasesAssumption
      <4> QED
        BY <2>2, <4>1, <4>2
    <3> QED
      BY <3>1, <3>2
  <2> QED
    BY <1>3, <2>1, <2>3 DEF ReadPrefix, ConversionTypeOK
<1>4. CASE ReadDigit
  <2>1. /\ text \in Texts /\ at \in 1 .. Len(text) /\ base \in 2 .. 36
        /\ text[at] \in 0 .. 35 /\ exact \in Nat
    <3>1. /\ text \in Texts /\ at \in 1 .. Len(text) /\ base \in 2 .. 36
          /\ text[at] >= 0 /\ exact \in Nat
      BY <1>4 DEF ReadDigit, ConversionTypeOK, IsDigit, character
    <3>2. text[at] \in Characters
      BY <3>1, TextsAssumption
    <3>3. \A c \in Characters : c >= 0 => c \in 0 .. 35
      BY DEF Characters, Terminator
    <3> QED
      BY <3>1, <3>2, <3>3
  <2>2. at + 1 \in 1 .. Len(text)
    <3>1. text[at] # Terminator
      <4>1. \A c \in 0 .. 35 : c # Terminator
        BY DEF Terminator
      <4> QED
        BY <2>1, <4>1
    <3> QED
      BY <2>1, <3>1, MoreFollows
  <2>3. exact * base + character \in Nat /\ accumulator * base + character \in Nat
    <3>1. character \in 0 .. 35
      BY <2>1 DEF character
    <3>2. base \in Nat /\ exact \in Nat /\ accumulator \in Nat
      BY <2>1, LongAssumption DEF ConversionTypeOK, ULONG_MAX
    <3> QED
      BY <3>1, <3>2, Product
  <2>4. (accumulator * base + character) % Words \in 0 .. ULONG_MAX
    BY <2>3, LongAssumption DEF Words, ULONG_MAX
  <2> QED
    BY <1>4, <2>1, <2>2, <2>3, <2>4 DEF ReadDigit, ConversionTypeOK
<1>5. CASE EndDigits
  <2>1. Result \in 0 .. ULONG_MAX
    BY LongAssumption DEF Result, ConversionTypeOK, Words, ULONG_MAX
  <2> QED
    BY <1>5, <2>1 DEF EndDigits, ConversionTypeOK
<1>6. CASE EndConversion
  BY <1>6, LongAssumption DEF EndConversion, ConversionTypeOK, ULONG_MAX
<1>7. CASE UNCHANGED conversionVars
  BY <1>7 DEF conversionVars, ConversionTypeOK
<1> QED
  BY <1>1, <1>2, <1>3, <1>4, <1>5, <1>6, <1>7 DEF NextConversion, strtol, strtoul

(* What the digits so far make of the accumulator.                         *)
LEMMA AccumulatorStep ==
  ConversionTypeOK /\ AccumulatorIsExact /\ [NextConversion]_conversionVars => AccumulatorIsExact'
<1> SUFFICES ASSUME ConversionTypeOK, AccumulatorIsExact, [NextConversion]_conversionVars
             PROVE  AccumulatorIsExact'
  OBVIOUS
<1>1. ASSUME NEW name, Call(name)
      PROVE  AccumulatorIsExact'
  BY <1>1 DEF Call, AccumulatorIsExact
<1>2. CASE SkipSpace
  BY <1>2 DEF SkipSpace, AccumulatorIsExact
<1>3. CASE ReadPrefix
  BY <1>3 DEF ReadPrefix, AccumulatorIsExact
<1>4. CASE ReadDigit
  <2>1. reading = "digits" /\ base \in Nat /\ base > 0 /\ exact \in Nat /\ any \in {-1, 0, 1}
    <3>1. reading = "digits" /\ base \in 2 .. 36 /\ exact \in Nat /\ any \in {-1, 0, 1}
      BY <1>4 DEF ReadDigit, ConversionTypeOK
    <3> QED
      BY <3>1
  <2>2. accumulator \in Nat
    BY Ranges DEF ConversionTypeOK
  <2>3. character \in 0 .. base - 1
    <3>1. /\ text \in Texts /\ at \in 1 .. Len(text)
          /\ character >= 0 /\ character < base
      BY <1>4 DEF ReadDigit, ConversionTypeOK, IsDigit
    <3>2. character \in Characters
      BY <3>1, TextsAssumption DEF character
    <3>3. \A c \in Characters : c >= 0 /\ c < base => c \in 0 .. base - 1
      BY <2>1 DEF Characters, Terminator
    <3> QED
      BY <3>1, <3>2, <3>3
  <2>4. Largest \in Nat /\ Largest < Words /\ Words \in Nat
    BY Ranges
  <2>5. /\ reading' = "digits" /\ Largest' = Largest
        /\ exact' = exact * base + character
    BY <1>4 DEF ReadDigit, Largest
  <2>6. CASE any < 0
    <3>1. exact > Largest /\ any' = -1
      BY <1>4, <2>1, <2>6 DEF ReadDigit, AccumulatorIsExact
    <3>2. exact * base + character > Largest
      BY <2>1, <2>3, <2>4, <3>1, Beyond
    <3> QED
      BY <2>5, <3>1, <3>2 DEF AccumulatorIsExact
  <2>7. CASE ~ (any < 0)
    <3>1. accumulator = exact
      BY <2>1, <2>7 DEF AccumulatorIsExact
    <3>2. /\ accumulator * base + character \in Nat
          /\ Exceeds(character) <=> accumulator * base + character > Largest
      BY <2>1, <2>2, <2>3, <2>4, Cutoff DEF Exceeds, cutoff, cutLimit
    <3>3. CASE Exceeds(character)
      <4>1. any' = -1
        BY <1>4, <2>7, <3>3 DEF ReadDigit
      <4> QED
        BY <2>5, <3>1, <3>2, <3>3, <4>1 DEF AccumulatorIsExact
    <3>4. CASE ~ Exceeds(character)
      <4>1. any' = 1 /\ accumulator' = (accumulator * base + character) % Words
        BY <1>4, <2>7, <3>4 DEF ReadDigit
      <4>2. /\ accumulator * base + character <= Largest
            /\ accumulator * base + character < Words
        BY <2>4, <3>2, <3>4
      <4>3. accumulator' = accumulator * base + character
        BY <2>4, <3>2, <4>1, <4>2, Small
      <4> QED
        BY <2>5, <3>1, <4>1, <4>2, <4>3 DEF AccumulatorIsExact
    <3> QED
      BY <3>3, <3>4
  <2> QED
    BY <2>6, <2>7
<1>5. CASE EndDigits
  BY <1>5 DEF EndDigits, AccumulatorIsExact
<1>6. CASE EndConversion
  BY <1>6 DEF EndConversion, AccumulatorIsExact
<1>7. CASE UNCHANGED conversionVars
  BY <1>7 DEF conversionVars, AccumulatorIsExact, Largest
<1> QED
  BY <1>1, <1>2, <1>3, <1>4, <1>5, <1>6, <1>7 DEF NextConversion, strtol, strtoul

(* What the last step makes of what the digits stand for.                  *)
LEMMA ResultIsExact ==
  ASSUME ConversionTypeOK, AccumulatorIsExact, EndDigits
  PROVE  ReadsExactly'
<1>1. /\ reading = "digits" /\ any \in {-1, 0, 1} /\ exact \in Nat
      /\ accumulator \in 0 .. ULONG_MAX /\ negative \in {0, 1}
      /\ function \in {"strtol", "strtoul"}
  BY DEF EndDigits, ConversionTypeOK
<1>2. /\ function' = function /\ negative' = negative /\ exact' = exact /\ any' = any /\ at' = at
      /\ accumulator' = Result
      /\ any' # 0 => endp' = at'
  BY DEF EndDigits
<1>3. /\ LONG_MAX \in Nat /\ LONG_MAX >= 1 /\ Words = 2 * LONG_MAX + 2
      /\ ULONG_MAX = 2 * LONG_MAX + 1 /\ Largest \in Nat /\ Largest <= ULONG_MAX
      /\ function = "strtoul" => Largest = ULONG_MAX
      /\ function = "strtol" => Largest = LONG_MAX + negative
  BY Ranges
<1>4. CASE any = -1
  <2>1. exact > Largest
    BY <1>1, <1>4 DEF AccumulatorIsExact
  <2>2. accumulator' = IF negative = 1 THEN LONG_MAX + 1 ELSE LONG_MAX
    BY <1>2, <1>4 DEF Result
  <2>3. CASE function = "strtoul"
    <3>1. exact > ULONG_MAX
      BY <1>3, <2>1, <2>3
    <3> QED
      BY <1>1, <1>2, <1>3, <2>3, <3>1 DEF ReadsExactly, ULONG_MAX
  <2>4. CASE function = "strtol"
    <3>1. CASE negative = 1
      <4>1. exact > LONG_MAX + 1 /\ accumulator' = LONG_MAX + 1
        BY <1>3, <2>1, <2>2, <2>4, <3>1
      <4> QED
        BY <1>1, <1>2, <1>3, <2>4, <3>1, <4>1 DEF ReadsExactly, Value, Words, ULONG_MAX
    <3>2. CASE negative = 0
      <4>1. exact > LONG_MAX /\ accumulator' = LONG_MAX
        BY <1>3, <2>1, <2>2, <2>4, <3>2
      <4> QED
        BY <1>1, <1>2, <1>3, <2>4, <3>2, <4>1 DEF ReadsExactly, Value
    <3> QED
      BY <1>1, <3>1, <3>2
  <2> QED
    BY <1>1, <2>3, <2>4
<1>5. CASE any # -1
  <2>1. accumulator = exact /\ exact <= Largest
    BY <1>1, <1>3, <1>5 DEF AccumulatorIsExact
  <2>2. CASE negative = 0
    <3>1. accumulator' = exact
      BY <1>1, <1>2, <1>5, <2>1, <2>2 DEF Result
    <3>2. function = "strtol" => exact <= LONG_MAX
      BY <1>3, <2>1, <2>2
    <3> QED
      BY <1>1, <1>2, <1>3, <2>2, <3>1, <3>2 DEF ReadsExactly, Value
  <2>3. CASE negative = 1
    <3>1. exact < Words /\ Words \in Nat
      BY <1>1, <1>3, <2>1
    <3>2. accumulator' = IF exact = 0 THEN 0 ELSE Words - exact
      <4>1. accumulator' = (0 - exact) % Words
        BY <1>1, <1>2, <1>5, <2>1, <2>3 DEF Result
      <4> QED
        BY <1>1, <3>1, <4>1, Opposite
    <3>3. function = "strtol" => exact <= LONG_MAX + 1
      BY <1>3, <2>1, <2>3
    <3>4. CASE exact = 0
      <4>1. accumulator' = 0 /\ exact' = 0 /\ negative' = 1
        BY <1>2, <2>3, <3>2, <3>4
      <4>2. Value' = 0
        BY <1>3, <4>1 DEF Value
      <4>3. ~ (exact' > LONG_MAX) /\ (0 - exact') = 0
        <5>1. \A n \in Nat : n = 0 => (0 - n) = 0 /\ ~ (n > LONG_MAX)
          BY <1>3
        <5>2. exact' \in Nat
          BY <1>1, <1>2
        <5> QED
          BY <4>1, <5>1, <5>2, Zenon
      <4> QED
        BY <1>2, <1>3, <4>1, <4>2, <4>3 DEF ReadsExactly
    <3>5. CASE exact # 0
      <4>1. accumulator' = Words - exact
        BY <3>2, <3>5
      <4>2. function = "strtol" => accumulator' > LONG_MAX /\ accumulator' - Words = 0 - exact
        BY <1>1, <1>3, <3>1, <3>3, <4>1
      <4> QED
        BY <1>1, <1>2, <1>3, <2>3, <3>3, <3>5, <4>1, <4>2 DEF ReadsExactly, Value, Words, ULONG_MAX
    <3> QED
      BY <3>4, <3>5
  <2> QED
    BY <1>1, <2>2, <2>3
<1> QED
  BY <1>4, <1>5

LEMMA ConversionStep == ConversionInv /\ [NextConversion]_conversionVars => ConversionInv'
<1> SUFFICES ASSUME ConversionInv, [NextConversion]_conversionVars
             PROVE  ConversionInv'
  OBVIOUS
<1>1. ConversionTypeOK' /\ AccumulatorIsExact'
  BY TypeStep, AccumulatorStep DEF ConversionInv
<1>2. ReadsExactly'
  <2>1. CASE EndDigits
    BY <2>1, ResultIsExact DEF ConversionInv
  <2>2. CASE UNCHANGED conversionVars
    BY <2>2 DEF conversionVars, ConversionInv, ReadsExactly, Value
  <2>3. CASE NextConversion /\ ~ EndDigits
    <3>1. reading' # "read"
      BY <2>3
         DEF NextConversion, strtol, strtoul, Call, SkipSpace, ReadPrefix, ReadDigit, EndConversion
    <3> QED
      BY <3>1 DEF ReadsExactly
  <2> QED
    BY <2>1, <2>2, <2>3
<1> QED
  BY <1>1, <1>2 DEF ConversionInv

(* While strtol and strtoul read, the accumulator is the number itself or  *)
(* that number is known to be too large.                                   *)
THEOREM ConversionInvariance == ConversionSpec => []ConversionInv
  BY ConversionInitially, ConversionStep, PTL DEF ConversionSpec

(* What strtol and strtoul return, for every text, base and width.         *)
THEOREM ConversionCorrect == Spec => []ReadsExactly
<1>1. ConversionInv => ReadsExactly
  BY DEF ConversionInv
<1> QED
  BY <1>1, SpecImplementsAll, ConversionInvariance, PTL
-----------------------------------------------------------------------------

(* The folds of the library choose a function that takes the elements of a *)
(* sequence one by one.  To say what it yields one has to show that there  *)
(* is such a function: it is made longer one element at a time.            *)
LEMMA MaxOf ==
  ASSUME NEW n \in Nat, NEW s \in SUBSET (1 .. n), s # {}
  PROVE  Max(s) \in s /\ \A y \in s : y =< Max(s)
<1>1. IsFiniteSet(s)
  <2>1. IsFiniteSet(1 .. n)
    BY FS_Interval
  <2>2. s \subseteq 1 .. n
    OBVIOUS
  <2> QED BY <2>1, <2>2, FS_Subset
<1>2. s \subseteq Nat
  OBVIOUS
<1>3. \E m \in s : \A y \in s : y =< m
  BY <1>1, <1>2, GreatestElement
<1>4. \E m \in s : \A y \in s : m >= y
  BY <1>3
<1> QED
  BY <1>4 DEF Max

Iterates(n, M, first, step, iter) ==
  /\ iter \in [SUBSET (1 .. n) -> M]
  /\ iter = [s \in SUBSET (1 .. n) |->
               IF s = {} THEN first ELSE step[Max(s)][iter[s \ {Max(s)}]]]

LEMMA IterateExists ==
  ASSUME NEW n \in Nat, NEW M, NEW first \in M, NEW step \in [1 .. n -> [M -> M]]
  PROVE  \E iter : Iterates(n, M, first, step, iter)
<1> DEFINE Bad == {k \in 0 .. n : ~ \E iter : Iterates(k, M, first, step, iter)}
<1> SUFFICES Bad = {}
  OBVIOUS
<1> SUFFICES ASSUME Bad # {} PROVE FALSE
  OBVIOUS
<1>0. Bad \subseteq Nat
  OBVIOUS
<1>1. PICK k \in Bad : \A j \in Bad : k =< j
  <2> HIDE DEF Bad
  <2> QED BY <1>0, LeastElement
<1>2. CASE k = 0
  <2> DEFINE f == [s \in SUBSET (1 .. 0) |-> first]
  <2>1. \A s \in SUBSET (1 .. 0) : s = {}
    OBVIOUS
  <2>2. f \in [SUBSET (1 .. 0) -> M]
    OBVIOUS
  <2>3. f = [s \in SUBSET (1 .. 0) |->
               IF s = {} THEN first ELSE step[Max(s)][f[s \ {Max(s)}]]]
    BY <2>1
  <2> HIDE DEF f
  <2> QED BY <1>2, <2>2, <2>3 DEF Iterates
<1>3. CASE k # 0
  <2>1. k - 1 \in 0 .. n /\ k - 1 \notin Bad
    BY <1>1, <1>3
  <2>2. PICK g : Iterates(k - 1, M, first, step, g)
    BY <2>1
  <2> DEFINE f == [s \in SUBSET (1 .. k) |->
                     IF k \in s THEN step[k][g[s \ {k}]] ELSE g[s]]
  <2>3. ASSUME NEW s \in SUBSET (1 .. k), k \in s
        PROVE  s \ {k} \in SUBSET (1 .. k - 1) /\ Max(s) = k
    <3>1. k \in Nat /\ s # {}
      BY <2>3
    <3>2. Max(s) \in s /\ \A y \in s : y =< Max(s)
      BY MaxOf, <3>1
    <3>3. Max(s) = k
      <4>1. Max(s) \in 1 .. k /\ k =< Max(s)
        BY <3>2, <2>3
      <4> QED BY <3>1, <4>1
    <3>4. s \ {k} \in SUBSET (1 .. k - 1)
      BY <3>1
    <3> QED BY <3>3, <3>4
  <2>4. ASSUME NEW s \in SUBSET (1 .. k), k \notin s
        PROVE  s \in SUBSET (1 .. k - 1)
    BY <2>4
  <2>5. ASSUME NEW s \in SUBSET (1 .. k - 1)
        PROVE  /\ k \notin s /\ g[s] \in M /\ s \in SUBSET (1 .. k)
               /\ g[s] = IF s = {} THEN first ELSE step[Max(s)][g[s \ {Max(s)}]]
               /\ f[s] = g[s]
    <3>1. k \in Nat /\ k \notin s /\ s \in SUBSET (1 .. k)
      OBVIOUS
    <3>2. /\ g \in [SUBSET (1 .. k - 1) -> M]
          /\ g = [z \in SUBSET (1 .. k - 1) |->
                   IF z = {} THEN first ELSE step[Max(z)][g[z \ {Max(z)}]]]
      BY <2>2 DEF Iterates
    <3>3. g[s] = IF s = {} THEN first ELSE step[Max(s)][g[s \ {Max(s)}]]
      BY <3>2
    <3> QED BY <3>1, <3>2, <3>3
  <2>6. ASSUME NEW s \in SUBSET (1 .. k)
        PROVE  f[s] \in M
    <3>1. CASE k \in s
      <4>1. g[s \ {k}] \in M
        BY <2>3, <2>5, <3>1
      <4>2. k \in 1 .. n
        BY <1>3
      <4> QED BY <4>1, <4>2, <3>1
    <3>2. CASE k \notin s
      BY <2>4, <2>5, <3>2
    <3> QED BY <3>1, <3>2
  <2>7. ASSUME NEW s \in SUBSET (1 .. k)
        PROVE  f[s] = IF s = {} THEN first ELSE step[Max(s)][f[s \ {Max(s)}]]
    <3>1. CASE k \in s
      <4>1. f[s] = step[k][g[s \ {k}]]
        BY <3>1
      <4>2. f[s \ {k}] = g[s \ {k}]
        BY <2>3, <2>5, <3>1
      <4> HIDE DEF f
      <4> QED BY <4>1, <4>2, <2>3, <3>1
    <3>2. CASE k \notin s
      <4>1. s \in SUBSET (1 .. k - 1)
        BY <2>4, <3>2
      <4>2. f[s] = g[s] /\ g[s] = IF s = {} THEN first ELSE step[Max(s)][g[s \ {Max(s)}]]
        BY <4>1, <2>5
      <4>3. s \ {Max(s)} \in SUBSET (1 .. k - 1)
        BY <4>1
      <4>4. f[s \ {Max(s)}] = g[s \ {Max(s)}]
        BY <4>3, <2>5
      <4> HIDE DEF f
      <4> QED BY <4>2, <4>4
    <3> QED BY <3>1, <3>2
  <2>8. f \in [SUBSET (1 .. k) -> M]
    BY <2>6
  <2>9. f = [s \in SUBSET (1 .. k) |->
               IF s = {} THEN first ELSE step[Max(s)][f[s \ {Max(s)}]]]
    <3> DEFINE h == [s \in SUBSET (1 .. k) |->
               IF s = {} THEN first ELSE step[Max(s)][f[s \ {Max(s)}]]]
    <3>1. \A s \in SUBSET (1 .. k) : f[s] = h[s]
      <4> HIDE DEF f
      <4> QED BY <2>7
    <3>2. DOMAIN f = SUBSET (1 .. k) /\ DOMAIN h = SUBSET (1 .. k)
      OBVIOUS
    <3>3. f = [s \in SUBSET (1 .. k) |-> f[s]] /\ h = [s \in SUBSET (1 .. k) |-> h[s]]
      OBVIOUS
    <3> HIDE DEF f, h
    <3>4. f = h
      BY <3>1, <3>3
    <3> QED BY <3>4 DEF h
  <2> HIDE DEF f
  <2>10. \E iter : Iterates(k, M, first, step, iter)
    BY <2>8, <2>9 DEF Iterates
  <2> QED BY <2>10, <1>1
<1> QED BY <1>2, <1>3

-----------------------------------------------------------------------------
(* What a loop has handled before and after its k-th round. *)
LEMMA UpTo ==
  ASSUME NEW n \in Nat, NEW k \in 1 .. n
  PROVE  /\ (1 .. k) \in SUBSET (1 .. n) /\ (1 .. k) # {}
         /\ Max(1 .. k) = k /\ (1 .. k) \ {k} = 1 .. k - 1
<1>1. (1 .. k) \in SUBSET (1 .. k) /\ k \in Nat /\ k \in 1 .. k
  OBVIOUS
<1>2. Max(1 .. k) \in 1 .. k /\ \A y \in 1 .. k : y =< Max(1 .. k)
  BY <1>1, MaxOf
<1> QED BY <1>1, <1>2

-----------------------------------------------------------------------------
(* What a sequence of digits stands for, digit by digit.                   *)
StandsRun(w, digits, b) ==
  /\ w[0] = 0 /\ w[Len(digits)] = Stands(digits, b)
  /\ \A k \in 1 .. Len(digits) : w[k] = w[k - 1] * b + digits[k]

LEMMA StandsRounds ==
  ASSUME NEW digits \in Seq(Int), NEW b \in Int
  PROVE  \E w : StandsRun(w, digits, b)
<1> DEFINE step == [k \in 1 .. Len(digits) |-> [w \in Int |-> w * b + digits[k]]]
           P(iter) == iter = [s \in SUBSET (DOMAIN digits) |->
                        IF s = {} THEN 0
                        ELSE iter[s \ {Max(s)}] * b + digits[Max(s)]]
           J == CHOOSE iter : P(iter)
<1>1. Stands(digits, b) = J[DOMAIN digits]
  BY DEF Stands, FoldLeft, MapThenFoldSet
<1>2. PICK n \in Nat : n = Len(digits)
  OBVIOUS
<1>3. DOMAIN digits = 1 .. n /\ \A k \in 1 .. n : digits[k] \in Int
  BY <1>2
<1>4. step \in [1 .. n -> [Int -> Int]]
  <2>1. ASSUME NEW k \in 1 .. n, NEW w \in Int
        PROVE  w * b + digits[k] \in Int
    BY <1>3
  <2> QED BY <1>2, <2>1
<1>5. PICK g : Iterates(n, Int, 0, step, g)
  <2> HIDE DEF step, P, J
  <2>1. 0 \in Int
    OBVIOUS
  <2> QED BY <1>4, <2>1, IterateExists
<1>6. P(g)
  <2> DEFINE h == [s \in SUBSET (DOMAIN digits) |->
                        IF s = {} THEN 0
                        ELSE g[s \ {Max(s)}] * b + digits[Max(s)]]
  <2>1. g \in [SUBSET (1 .. n) -> Int]
    BY <1>5 DEF Iterates
  <2>2. ASSUME NEW s \in SUBSET (1 .. n)
        PROVE  g[s] = h[s]
    <3>1. s \in SUBSET (DOMAIN digits)
      BY <1>3
    <3>2. g[s] = IF s = {} THEN 0 ELSE step[Max(s)][g[s \ {Max(s)}]]
      BY <1>5 DEF Iterates
    <3>3. CASE s = {}
      BY <3>1, <3>2, <3>3
    <3>4. CASE s # {}
      <4>1. PICK x \in 1 .. n : x = Max(s)
        BY <3>4, MaxOf
      <4>2. PICK u \in Int : u = g[s \ {x}]
        BY <2>1
      <4>3. g[s] = u * b + digits[x]
        BY <1>2, <3>2, <3>4, <4>1, <4>2
      <4>4. h[s] = g[s \ {Max(s)}] * b + digits[Max(s)]
        BY <3>1, <3>4
      <4> HIDE DEF h
      <4> QED BY <4>1, <4>2, <4>3, <4>4
    <3> QED BY <3>3, <3>4
  <2>3. g = [s \in SUBSET (1 .. n) |-> g[s]]
    BY <2>1
  <2>4. h = [s \in SUBSET (1 .. n) |-> h[s]]
    <3>1. DOMAIN h = SUBSET (1 .. n)
      BY <1>3
    <3>2. h = [s \in DOMAIN h |-> h[s]]
      OBVIOUS
    <3> HIDE DEF h
    <3> QED BY <3>1, <3>2
  <2>5. g = h
    <3> HIDE DEF h
    <3> QED BY <2>2, <2>3, <2>4
  <2> QED BY <2>5
<1>7. P(J)
  <2> HIDE DEF P
  <2> QED BY <1>6
<1> DEFINE w == [k \in 0 .. n |-> J[1 .. k]]
<1>8. J[1 .. 0] = 0
  <2>1. (1 .. 0) = {} /\ (1 .. 0) \in SUBSET (DOMAIN digits)
    OBVIOUS
  <2> HIDE DEF J
  <2> QED BY <1>7, <2>1
<1>9. ASSUME NEW k \in 1 .. n
      PROVE  J[1 .. k] = J[1 .. k - 1] * b + digits[k]
  <2>1. /\ (1 .. k) \in SUBSET (DOMAIN digits) /\ (1 .. k) # {}
        /\ Max(1 .. k) = k /\ (1 .. k) \ {k} = 1 .. k - 1
    BY <1>3, UpTo
  <2> HIDE DEF J
  <2> DEFINE s == 1 .. k
  <2>2. J[s] = J[s \ {Max(s)}] * b + digits[Max(s)]
    <3> HIDE DEF s
    <3>1. s \in SUBSET (DOMAIN digits) /\ s # {}
      BY <2>1 DEF s
    <3> QED BY <1>7, <3>1
  <2> QED BY ONLY <2>1, <2>2
<1>10. w[0] = 0 /\ w[n] = Stands(digits, b)
  <2> HIDE DEF J
  <2> QED BY <1>1, <1>3, <1>8
<1>11. ASSUME NEW k \in 1 .. n
       PROVE  w[k] = w[k - 1] * b + digits[k]
  <2>1. w[k] = J[1 .. k] /\ w[k - 1] = J[1 .. k - 1]
    <3> HIDE DEF J
    <3> QED OBVIOUS
  <2> HIDE DEF J, w
  <2> QED BY ONLY <1>9, <2>1
<1> HIDE DEF w
<1> QED BY <1>2, <1>10, <1>11 DEF StandsRun

(* What atoi and atol make of a text: int and long differ in the largest.  *)
Read(t, max) == FoldLeft(LAMBDA result, c : Wrap(result * 10 + FromZero(c), max), 0, t)

ReadRun(w, t, max) ==
  /\ w[0] = 0 /\ w[Len(t)] = Read(t, max)
  /\ \A k \in 1 .. Len(t) : w[k] = Wrap(w[k - 1] * 10 + FromZero(t[k]), max)

LEMMA ReadsAlike ==
  ASSUME NEW t
  PROVE  atoi(t) = Read(t, INT_MAX) /\ atol(t) = Read(t, LONG_MAX)
BY DEF atoi, atol, Read, FoldLeft, MapThenFoldSet

LEMMA WrapIs ==
  ASSUME NEW max \in Nat, NEW n \in Int
  PROVE  /\ Wrap(n, max) \in Int
         /\ n \in 0 .. max => Wrap(n, max) = n
<1>1. PICK a \in Int, d \in Nat : a = n + max + 1 /\ d = 2 * max + 2 /\ d > 0
  OBVIOUS
<1>2. (a % d) \in 0 .. d - 1
  BY <1>1
<1>3. n \in 0 .. max => (a % d) = a
  <2>1. n \in 0 .. max => a \in Nat /\ a < d
    BY <1>1
  <2> QED BY <2>1, Small
<1>4. Wrap(n, max) = (a % d) - max - 1
  BY <1>1 DEF Wrap
<1> QED
  BY <1>1, <1>2, <1>3, <1>4

LEMMA FromZeroIs ==
  ASSUME NEW c \in Int
  PROVE  FromZero(c) \in Int /\ (c \in 0 .. 9 => FromZero(c) = c)
BY DEF FromZero, Minus

LEMMA ReadRounds ==
  ASSUME NEW t \in Seq(Int), NEW max \in Nat
  PROVE  \E w : ReadRun(w, t, max)
<1> DEFINE OneStep(w, k) == Wrap(w * 10 + FromZero(t[k]), max)
           step == [k \in 1 .. Len(t) |-> [w \in Int |-> OneStep(w, k)]]
           P(iter) == iter = [s \in SUBSET (DOMAIN t) |->
                        IF s = {} THEN 0
                        ELSE OneStep(iter[s \ {Max(s)}], Max(s))]
           J == CHOOSE iter : P(iter)
<1>1. Read(t, max) = J[DOMAIN t]
  BY DEF Read, FoldLeft, MapThenFoldSet
<1>2. PICK n \in Nat : n = Len(t)
  OBVIOUS
<1>3. DOMAIN t = 1 .. n /\ \A k \in 1 .. n : t[k] \in Int
  BY <1>2
<1>4. step \in [1 .. n -> [Int -> Int]]
  <2>1. ASSUME NEW k \in 1 .. n, NEW w \in Int
        PROVE  OneStep(w, k) \in Int
    <3>1. w * 10 + FromZero(t[k]) \in Int
      BY <1>3, FromZeroIs
    <3> QED BY <3>1, WrapIs
  <2> HIDE DEF OneStep
  <2> QED BY <1>2, <2>1
<1> HIDE DEF OneStep
<1>5. PICK g : Iterates(n, Int, 0, step, g)
  <2> HIDE DEF step, P, J
  <2>1. 0 \in Int
    OBVIOUS
  <2> QED BY <1>4, <2>1, IterateExists
<1>6. P(g)
  <2> DEFINE h == [s \in SUBSET (DOMAIN t) |->
                        IF s = {} THEN 0
                        ELSE OneStep(g[s \ {Max(s)}], Max(s))]
  <2>1. g \in [SUBSET (1 .. n) -> Int]
    BY <1>5 DEF Iterates
  <2>2. ASSUME NEW s \in SUBSET (1 .. n)
        PROVE  g[s] = h[s]
    <3>1. s \in SUBSET (DOMAIN t)
      BY <1>3
    <3>2. g[s] = IF s = {} THEN 0 ELSE step[Max(s)][g[s \ {Max(s)}]]
      BY <1>5 DEF Iterates
    <3>3. CASE s = {}
      BY <3>1, <3>2, <3>3
    <3>4. CASE s # {}
      <4>1. PICK x \in 1 .. n : x = Max(s)
        BY <3>4, MaxOf
      <4>2. PICK u \in Int : u = g[s \ {x}]
        BY <2>1
      <4>3. g[s] = OneStep(u, x)
        BY <1>2, <3>2, <3>4, <4>1, <4>2
      <4>4. h[s] = OneStep(g[s \ {Max(s)}], Max(s))
        BY <3>1, <3>4
      <4> HIDE DEF h
      <4> QED BY <4>1, <4>2, <4>3, <4>4
    <3> QED BY <3>3, <3>4
  <2>3. g = [s \in SUBSET (1 .. n) |-> g[s]]
    BY <2>1
  <2>4. h = [s \in SUBSET (1 .. n) |-> h[s]]
    <3>1. DOMAIN h = SUBSET (1 .. n)
      BY <1>3
    <3>2. h = [s \in DOMAIN h |-> h[s]]
      OBVIOUS
    <3> HIDE DEF h
    <3> QED BY <3>1, <3>2
  <2>5. g = h
    <3> HIDE DEF h
    <3> QED BY <2>2, <2>3, <2>4
  <2> QED BY <2>5
<1>7. P(J)
  <2> HIDE DEF P
  <2> QED BY <1>6
<1> DEFINE w == [k \in 0 .. n |-> J[1 .. k]]
<1>8. J[1 .. 0] = 0
  <2>1. (1 .. 0) = {} /\ (1 .. 0) \in SUBSET (DOMAIN t)
    OBVIOUS
  <2> HIDE DEF J
  <2> QED BY <1>7, <2>1
<1>9. ASSUME NEW k \in 1 .. n
      PROVE  J[1 .. k] = OneStep(J[1 .. k - 1], k)
  <2>1. /\ (1 .. k) \in SUBSET (DOMAIN t) /\ (1 .. k) # {}
        /\ Max(1 .. k) = k /\ (1 .. k) \ {k} = 1 .. k - 1
    BY <1>3, UpTo
  <2> HIDE DEF J
  <2> DEFINE s == 1 .. k
  <2>2. J[s] = OneStep(J[s \ {Max(s)}], Max(s))
    <3> HIDE DEF s
    <3>1. s \in SUBSET (DOMAIN t) /\ s # {}
      BY <2>1 DEF s
    <3> QED BY <1>7, <3>1
  <2> QED BY ONLY <2>1, <2>2
<1>10. w[0] = 0 /\ w[n] = Read(t, max)
  <2> HIDE DEF J
  <2> QED BY <1>1, <1>3, <1>8
<1>11. ASSUME NEW k \in 1 .. n
       PROVE  w[k] = OneStep(w[k - 1], k)
  <2>1. w[k] = J[1 .. k] /\ w[k - 1] = J[1 .. k - 1]
    <3> HIDE DEF J
    <3> QED OBVIOUS
  <2> HIDE DEF J, w
  <2> QED BY ONLY <1>9, <2>1
<1> HIDE DEF w
<1>12. ASSUME NEW k \in 1 .. n
       PROVE  w[k] = Wrap(w[k - 1] * 10 + FromZero(t[k]), max)
  BY <1>11 DEF OneStep
<1> QED BY <1>2, <1>10, <1>12 DEF ReadRun

(* A sequence of digits stands for what it is built up to.                 *)
LEMMA StandsIs ==
  ASSUME NEW digits \in Seq(Int), NEW b \in Int, NEW u, u[0] = 0,
         \A k \in 1 .. Len(digits) : u[k] = u[k - 1] * b + digits[k]
  PROVE  Stands(digits, b) = u[Len(digits)]
<1>1. PICK n \in Nat : n = Len(digits)
  OBVIOUS
<1>2. PICK w : StandsRun(w, digits, b)
  BY StandsRounds
<1> DEFINE S == {k \in 0 .. n : w[k] = u[k]}
<1>3. 0 \in S
  BY <1>2 DEF StandsRun
<1>4. ASSUME NEW k \in 0 .. n - 1, k \in S
      PROVE  k + 1 \in S
  <2>1. k + 1 \in 1 .. n /\ k + 1 \in 0 .. n /\ (k + 1) - 1 = k /\ w[k] = u[k]
    BY <1>4
  <2>2. w[k + 1] = w[(k + 1) - 1] * b + digits[k + 1]
    BY <1>1, <1>2, <2>1 DEF StandsRun
  <2>3. u[k + 1] = u[(k + 1) - 1] * b + digits[k + 1]
    BY <1>1, <2>1
  <2>4. w[k + 1] = u[k + 1]
    BY ONLY <2>1, <2>2, <2>3
  <2> QED BY <2>1, <2>4
<1>5. n \in S
  <2>1. n \in 0 .. n
    OBVIOUS
  <2> HIDE DEF S
  <2> QED BY <1>3, <1>4, <2>1, EveryRound
<1> QED
  BY <1>1, <1>2, <1>5 DEF StandsRun

(* atoi and atol read decimal digits that do not lead beyond the largest.  *)
LEMMA ReadIs ==
  ASSUME NEW t \in Seq(Int), NEW max \in Nat, NEW u, u[0] = 0,
         \A k \in 1 .. Len(t) : t[k] \in 0 .. 9 /\ u[k] = u[k - 1] * 10 + t[k],
         \A k \in 0 .. Len(t) : u[k] \in 0 .. max
  PROVE  Read(t, max) = u[Len(t)]
<1>1. PICK n \in Nat : n = Len(t)
  OBVIOUS
<1>2. PICK w : ReadRun(w, t, max)
  BY ReadRounds
<1> DEFINE S == {k \in 0 .. n : w[k] = u[k]}
<1>3. 0 \in S
  BY <1>2 DEF ReadRun
<1>4. ASSUME NEW k \in 0 .. n - 1, k \in S
      PROVE  k + 1 \in S
  <2>1. /\ k + 1 \in 1 .. n /\ k + 1 \in 0 .. n /\ k \in 0 .. n /\ (k + 1) - 1 = k
        /\ w[k] = u[k]
    BY <1>4
  <2>2. PICK x \in Int, y \in Int, c \in 0 .. 9 :
          x = u[k] /\ y = u[k + 1] /\ c = t[k + 1]
    <3>1. u[k] \in 0 .. max /\ u[k + 1] \in 0 .. max /\ t[k + 1] \in 0 .. 9
      BY <1>1, <2>1
    <3>2. u[k] \in Int /\ u[k + 1] \in Int
      BY <3>1
    <3> QED BY <3>1, <3>2
  <2>3. y = x * 10 + c /\ y \in 0 .. max
    BY <1>1, <2>1, <2>2
  <2>4. w[k + 1] = Wrap(x * 10 + FromZero(c), max)
    BY <1>1, <1>2, <2>1, <2>2 DEF ReadRun
  <2>5. FromZero(c) = c
    BY FromZeroIs
  <2>6. w[k + 1] = Wrap(y, max)
    BY ONLY <2>3, <2>4, <2>5
  <2>7. Wrap(y, max) = y
    BY <2>3, WrapIs
  <2> QED BY <2>1, <2>2, <2>6, <2>7
<1>5. n \in S
  <2>1. n \in 0 .. n
    OBVIOUS
  <2> HIDE DEF S
  <2> QED BY <1>3, <1>4, <2>1, EveryRound
<1> QED
  BY <1>1, <1>2, <1>5 DEF ReadRun

Magnitude(n) == IF n < 0 THEN - n ELSE n

Divides(n, r, q, d) == q = Quotient(n, r) /\ d = CharacterOf(n - q * r)

(* One division of itoa takes the last digit off the magnitude, whatever   *)
(* the sign.                                                               *)
LEMMA DigitIs ==
  ASSUME NEW n \in Int, NEW r \in Nat, r > 0, NEW q, NEW d, Divides(n, r, q, d)
  PROVE  /\ q \in Int /\ Magnitude(n) \in Nat /\ Magnitude(q) \in Nat /\ d \in 0 .. r - 1
         /\ Magnitude(n) = Magnitude(q) * r + d /\ Magnitude(q) <= Magnitude(n)
         /\ n < 0 => q <= 0
         /\ n >= 0 => q >= 0
<1>0. q = Quotient(n, r) /\ d = CharacterOf(n - q * r)
  BY DEF Divides
<1>1. PICK a \in Nat : a = Magnitude(n)
  BY DEF Magnitude
<1>2. PICK x \in Nat, y \in 0 .. r - 1, p \in Nat :
        x = a \div r /\ p = x * r /\ a = p + y
  BY Division, Product
<1>3. x <= p
  <2>1. 1 * x <= r * x
    BY <1>2, Product
  <2> QED BY <1>2, <2>1
<1>4. a = p + y /\ x <= a
  BY <1>2, <1>3
<1>5. d = y /\ Magnitude(q) = x /\ q \in Int /\ (n < 0 => q <= 0) /\ (n >= 0 => q >= 0)
  <2>1. CASE n >= 0
    <3>1. a = n /\ q = x
      BY <1>0, <1>1, <1>2, <2>1 DEF Magnitude, Quotient
    <3>2. q * r = p
      BY <3>1, <1>2
    <3>3. n - q * r = y
      BY <3>1, <3>2, <1>4
    <3>4. d = y
      BY <1>0, <3>3 DEF CharacterOf
    <3> QED BY <3>1, <3>4, <2>1 DEF Magnitude
  <2>2. CASE n < 0
    <3>1. a = - n /\ q = - x
      BY <1>0, <1>1, <1>2, <2>2 DEF Magnitude, Quotient
    <3>2. q * r = - p
      <4>1. (- x) * r = - (x * r)
        OBVIOUS
      <4>2. x * r = p
        BY <1>2
      <4> QED BY ONLY <3>1, <4>1, <4>2
    <3>3. n - q * r = - y
      BY <3>1, <3>2, <1>4
    <3>4. d = y
      BY <1>0, <3>3 DEF CharacterOf
    <3> QED BY <3>1, <3>4, <2>2 DEF Magnitude
  <2> QED BY <2>1, <2>2
<1>6. Magnitude(q) * r = p
  BY <1>2, <1>5
<1> QED
  BY <1>1, <1>4, <1>5, <1>6

(* What is left of a number, and what it was with each digit put back.     *)
PutBack(u, digits, b, left, whole) ==
  /\ u[0] = left /\ u[Len(digits)] = whole
  /\ \A k \in 0 .. Len(digits) : u[k] \in 0 .. whole
  /\ \A k \in 1 .. Len(digits) : u[k] = u[k - 1] * b + digits[Len(digits) + 1 - k]

LEMMA OneMoreDigit ==
  ASSUME NEW b \in Nat, NEW digits \in Seq(0 .. b - 1), NEW whole \in Nat, NEW left \in Nat,
         NEW q \in Nat, NEW d \in 0 .. b - 1, left = q * b + d, q <= left,
         NEW u, PutBack(u, digits, b, left, whole)
  PROVE  \E v : PutBack(v, Append(digits, d), b, q, whole)
<1>1. PICK n \in Nat : n = Len(digits)
  OBVIOUS
<1>2. PICK o \in Seq(Int) : o = Append(digits, d)
  <2>1. digits \in Seq(Int) /\ d \in Int
    OBVIOUS
  <2> QED BY <2>1, AppendProperties
<1>3. Len(o) = n + 1 /\ o[n + 1] = d /\ \A i \in 1 .. n : o[i] = digits[i]
  BY <1>1, <1>2
<1>4. /\ u[0] = left /\ u[n] = whole
      /\ \A k \in 0 .. n : u[k] \in 0 .. whole
      /\ \A k \in 1 .. n : u[k] = u[k - 1] * b + digits[n + 1 - k]
  BY <1>1 DEF PutBack
<1> DEFINE v == [k \in 0 .. n + 1 |-> IF k = 0 THEN q ELSE u[k - 1]]
<1>5. v[0] = q /\ \A k \in 1 .. n + 1 : v[k] = u[k - 1]
  OBVIOUS
<1> HIDE DEF v
<1>6. v[n + 1] = whole
  <2>1. n + 1 \in 1 .. n + 1 /\ (n + 1) - 1 = n
    OBVIOUS
  <2> QED BY <1>4, <1>5, <2>1
<1>7. ASSUME NEW k \in 0 .. n + 1
      PROVE  v[k] \in 0 .. whole
  <2>1. CASE k = 0
    <3>1. left \in 0 .. whole
      BY <1>4
    <3> QED BY <1>5, <2>1, <3>1
  <2>2. CASE k # 0
    <3>1. k \in 1 .. n + 1 /\ k - 1 \in 0 .. n
      BY <2>2
    <3> QED BY <1>4, <1>5, <3>1
  <2> QED BY <2>1, <2>2
<1>8. ASSUME NEW k \in 1 .. n + 1
      PROVE  v[k] = v[k - 1] * b + o[(n + 1) + 1 - k]
  <2>1. CASE k = 1
    <3>1. v[1] = left /\ v[0] = q /\ o[(n + 1) + 1 - 1] = d
      BY <1>3, <1>4, <1>5
    <3> QED BY <2>1, <3>1
  <2>2. CASE k # 1
    <3>1. /\ k - 1 \in 1 .. n /\ n + 1 - (k - 1) \in 1 .. n
          /\ n + 1 - (k - 1) = (n + 1) + 1 - k
          /\ k - 1 \in 1 .. n + 1
      BY <2>2
    <3>2. v[k] = u[k - 1] /\ v[k - 1] = u[(k - 1) - 1]
      BY <1>5, <3>1
    <3>3. u[k - 1] = u[(k - 1) - 1] * b + digits[n + 1 - (k - 1)]
      BY <1>4, <3>1
    <3>4. o[(n + 1) + 1 - k] = digits[n + 1 - (k - 1)]
      BY <1>3, <3>1
    <3> QED BY <3>2, <3>3, <3>4
  <2> QED BY <2>1, <2>2
<1>9. PutBack(v, o, b, q, whole)
  BY <1>3, <1>5, <1>6, <1>7, <1>8 DEF PutBack
<1> QED
  BY <1>2, <1>9

(* itoa at its loop: the digits so far and what is left are the number, and*)
(* the sign is that of every number that was divided.                      *)
Dividing ==
  /\ HasDigits(radix) /\ original \in INT_MIN .. INT_MAX /\ number \in INT_MIN .. INT_MAX
  /\ output \in Seq(0 .. radix - 1)
  /\ \E u : PutBack(u, output, radix, Magnitude(number), Magnitude(original))
  /\ original < 0 => number <= 0
  /\ original >= 0 => number >= 0
  /\ output = <<>> => number = original
  /\ output # <<>> => resNumber \in Int /\ (resNumber < 0 <=> original < 0)
  /\ Len(output) > 1 /\ number = 0 => output[Len(output)] # 0

DigitsInv ==
  /\ writing = "idle" => output = <<>>
  /\ writing = "dividing" => Dividing
  /\ WritesNumber

LEMMA TurnedAround ==
  ASSUME NEW o \in Seq(Int), NEW n \in Nat, n = Len(o),
         NEW D, D = [i \in 1 .. n |-> o[n + 1 - i]]
  PROVE  /\ D \in Seq(Int) /\ Len(D) = n
         /\ Reverse(o) = D
         /\ Reverse(Append(o, Minus))[1] = Minus /\ Tail(Reverse(Append(o, Minus))) = D
<1>1. \A i \in 1 .. n : n + 1 - i \in 1 .. n /\ n + 1 - i = (n - i) + 1
  OBVIOUS
<1>2. \A i \in 1 .. n : o[n + 1 - i] \in Int
  BY <1>1
<1>3. D \in Seq(Int) /\ Len(D) = n
  BY <1>2
<1>4. Reverse(o) = D
  BY <1>1 DEF Reverse
<1>5. PICK a \in Seq(Int) : a = Append(o, Minus)
  <2>1. Minus \in Int
    BY DEF Minus
  <2> QED BY <2>1, AppendProperties
<1>6. Len(a) = n + 1 /\ a[n + 1] = Minus /\ \A i \in 1 .. n : a[i] = o[i]
  BY <1>5
<1>7. PICK t : t = Reverse(a)
  OBVIOUS
<1>8. t = [i \in 1 .. n + 1 |-> a[((n + 1) - i) + 1]]
  BY <1>6, <1>7 DEF Reverse
<1>9. t \in Seq(Int) /\ Len(t) = n + 1
  <2>1. ASSUME NEW i \in 1 .. n + 1
        PROVE  a[((n + 1) - i) + 1] \in Int
    <3>1. ((n + 1) - i) + 1 \in 1 .. n + 1
      OBVIOUS
    <3> QED BY <3>1, <1>6
  <2> QED BY <2>1, <1>8
<1>10. t[1] = Minus
  <2>1. 1 \in 1 .. n + 1 /\ ((n + 1) - 1) + 1 = n + 1
    OBVIOUS
  <2> QED BY <1>6, <1>8, <2>1
<1>11. ASSUME NEW i \in 1 .. n
       PROVE  t[i + 1] = D[i]
  <2>1. i + 1 \in 1 .. n + 1 /\ ((n + 1) - (i + 1)) + 1 = n + 1 - i /\ n + 1 - i \in 1 .. n
    OBVIOUS
  <2> QED BY <1>6, <1>8, <2>1
<1>12. Tail(t) = D
  <2>1. Tail(t) = [i \in 1 .. n |-> t[i + 1]]
    <3>1. t # <<>> /\ Len(t) - 1 = n
      BY <1>9
    <3>2. /\ Tail(t) \in Seq(Int) /\ Len(Tail(t)) = Len(t) - 1
          /\ \A i \in 1 .. Len(Tail(t)) : Tail(t)[i] = t[i + 1]
      <4>1. t \in Seq(Int)
        BY <1>9
      <4> QED BY <4>1, <3>1, HeadTailProperties
    <3>3. PICK s \in Seq(Int) : s = Tail(t)
      BY <3>2
    <3>4. Len(s) = n /\ \A i \in 1 .. n : s[i] = t[i + 1]
      BY <3>1, <3>2, <3>3
    <3>5. s \in [1 .. n -> Int]
      BY <3>4, LenProperties
    <3>6. s = [i \in 1 .. n |-> s[i]]
      BY <3>5
    <3> QED BY <3>3, <3>4, <3>6
  <2>2. D = [i \in 1 .. n |-> D[i]]
    OBVIOUS
  <2> QED BY <1>11, <2>1, <2>2
<1> QED
  BY <1>3, <1>4, <1>5, <1>7, <1>10, <1>12

LEMMA DividedWhole ==
  ASSUME Dividing, number = 0, output # <<>>,
         NEW D, D = [i \in 1 .. Len(output) |-> output[Len(output) + 1 - i]]
  PROVE  /\ \A i \in DOMAIN D : D[i] \in 0 .. radix - 1
         /\ Len(D) > 1 => D[1] # 0
         /\ Stands(D, radix) = Magnitude(original)
         /\ radix = 10 /\ original >= 0 => atoi(D) = original /\ atol(D) = original
<1>1. PICK n \in Nat, o \in Seq(0 .. radix - 1) : o = output /\ n = Len(o)
  BY DEF Dividing
<1>2. radix \in 2 .. 36 /\ original \in INT_MIN .. INT_MAX /\ INT_MAX \in Nat /\ INT_MAX <= LONG_MAX
      /\ LONG_MAX \in Nat
  BY IntAssumption, LongAssumption DEF Dividing, HasDigits
<1>3. PICK w \in Nat : w = Magnitude(original)
  BY <1>2 DEF Magnitude, INT_MIN
<1>4. PICK u :
        /\ u[0] = 0 /\ u[n] = w
        /\ \A k \in 0 .. n : u[k] \in 0 .. w
        /\ \A k \in 1 .. n : u[k] = u[k - 1] * radix + o[n + 1 - k]
  <2>1. PICK u : PutBack(u, output, radix, Magnitude(number), Magnitude(original))
    BY DEF Dividing
  <2>2. Magnitude(number) = 0
    BY DEF Magnitude
  <2> QED BY <1>1, <1>3, <2>1, <2>2 DEF PutBack
<1>5. /\ \A i \in 1 .. n : n + 1 - i \in 1 .. n
      /\ \A i \in 1 .. n : o[i] \in 0 .. radix - 1
  <2>1. \A i \in 1 .. n : n + 1 - i \in 1 .. n
    OBVIOUS
  <2>2. PICK r : r = 0 .. radix - 1
    OBVIOUS
  <2>3. o \in Seq(r) /\ n = Len(o)
    BY <1>1, <2>2
  <2>4. \A i \in 1 .. n : o[i] \in r
    BY <2>3
  <2> QED BY <2>1, <2>2, <2>4
<1>6. D = [i \in 1 .. n |-> o[n + 1 - i]]
  BY <1>1
<1>7. D \in Seq(Int) /\ Len(D) = n
  <2>1. ASSUME NEW i \in 1 .. n
        PROVE  o[n + 1 - i] \in Int
    <3>1. o[n + 1 - i] \in 0 .. radix - 1
      BY <1>5
    <3>2. \A x \in 0 .. radix - 1 : x \in Int
      OBVIOUS
    <3> QED BY <3>1, <3>2
  <2>2. PICK E : E = [i \in 1 .. n |-> o[n + 1 - i]]
    OBVIOUS
  <2>3. E \in Seq(Int) /\ Len(E) = n
    BY <2>1, <2>2
  <2> QED BY <1>6, <2>2, <2>3
<1>8. \A i \in DOMAIN D : D[i] \in 0 .. radix - 1
  BY <1>5, <1>6
<1>9. Len(D) > 1 => D[1] # 0
  <2>1. Len(D) > 1 => 1 \in 1 .. n /\ n + 1 - 1 = n /\ o[n] # 0
    BY <1>1, <1>7 DEF Dividing
  <2> QED BY <1>6, <2>1
<1>10. ASSUME NEW k \in 1 .. n
       PROVE  u[k] = u[k - 1] * radix + D[k]
  BY <1>4, <1>6
<1>11. Stands(D, radix) = u[n]
  <2>1. radix \in Int /\ \A k \in 1 .. Len(D) : u[k] = u[k - 1] * radix + D[k]
    <3>1. radix \in Int
      BY <1>2
    <3> QED BY <1>7, <1>10, <3>1
  <2>2. u[0] = 0
    BY <1>4
  <2>3. Stands(D, radix) = u[Len(D)]
    BY <1>7, <2>1, <2>2, StandsIs
  <2> QED BY <1>7, <2>3
<1>12. ASSUME radix = 10, original >= 0
       PROVE  atoi(D) = original /\ atol(D) = original
  <2>1. w = original /\ w <= INT_MAX /\ w <= LONG_MAX
    BY <1>2, <1>3, <1>12 DEF Magnitude
  <2>2. ASSUME NEW max \in Nat, w <= max
        PROVE  Read(D, max) = w
    <3>1. u[0] = 0 /\ u[Len(D)] = w
      BY <1>4, <1>7
    <3>2. ASSUME NEW k \in 1 .. Len(D)
          PROVE  D[k] \in 0 .. 9 /\ u[k] = u[k - 1] * 10 + D[k]
      <4>1. D[k] \in 0 .. radix - 1 /\ radix - 1 = 9
        BY <1>7, <1>8, <1>12
      <4> QED BY <4>1, <1>7, <1>10, <1>12
    <3>3. ASSUME NEW k \in 0 .. Len(D)
          PROVE  u[k] \in 0 .. max
      <4>1. u[k] \in 0 .. w
        BY <1>4, <1>7
      <4> QED BY <4>1, <2>2
    <3>4. Read(D, max) = u[Len(D)]
      <4>1. PICK t \in Seq(Int) : t = D
        BY <1>7
      <4>2. u[0] = 0
        BY <3>1
      <4>3. \A k \in 1 .. Len(t) : t[k] \in 0 .. 9 /\ u[k] = u[k - 1] * 10 + t[k]
        BY ONLY <3>2, <4>1
      <4>4. \A k \in 0 .. Len(t) : u[k] \in 0 .. max
        BY ONLY <3>3, <4>1
      <4>5. Read(t, max) = u[Len(t)]
        BY <2>2, <4>2, <4>3, <4>4, ReadIs
      <4> QED BY <4>1, <4>5
    <3> QED BY <3>1, <3>4
  <2> QED BY <1>2, <2>1, <2>2, ReadsAlike
<1> QED
  BY <1>3, <1>4, <1>8, <1>9, <1>11, <1>12

LEMMA DigitsInitially == InitDigits => DigitsInv
  BY DEF InitDigits, DigitsInv, WritesNumber

LEMMA ItoaStep ==
  ASSUME DigitsInv, itoa
  PROVE  DigitsInv'
<1>1. output = <<>> /\ output' = <<>> /\ original' \in INT_MIN .. INT_MAX /\ number' = original'
  BY DEF itoa, DigitsInv
<1>2. CASE ~ HasDigits(radix')
  BY <1>1, <1>2 DEF itoa, DigitsInv, WritesNumber
<1>3. CASE HasDigits(radix')
  <2>1. writing' = "dividing"
    BY <1>3 DEF itoa
  <2>2. PICK w \in Nat : w = Magnitude(original')
    <3>1. original' \in Int
      BY <1>1, IntAssumption DEF INT_MIN
    <3>2. ASSUME NEW x \in Int
          PROVE  Magnitude(x) \in Nat
      BY DEF Magnitude
    <3> QED BY <3>1, <3>2
  <2>3. PICK u : u = [k \in {0} |-> w]
    OBVIOUS
  <2>4. PutBack(u, output', radix', Magnitude(number'), Magnitude(original'))
    <3>1. Len(<<>>) = 0 /\ u[0] = w
      BY <2>3
    <3> QED BY <1>1, <2>2, <3>1 DEF PutBack
  <2>5. Dividing'
    <3>1. output' \in Seq(0 .. radix' - 1) /\ ~ (Len(output') > 1)
      BY <1>1
    <3>2. \E v : PutBack(v, output', radix', Magnitude(number'), Magnitude(original'))
      BY <2>4
    <3> QED BY <1>1, <1>3, <3>1, <3>2 DEF Dividing
  <2> QED BY <2>1, <2>5 DEF DigitsInv, WritesNumber
<1> QED
  BY <1>2, <1>3

LEMMA WriteDigitStep ==
  ASSUME DigitsInv, WriteDigit
  PROVE  DigitsInv'
<1>1. Dividing /\ writing' = "dividing" /\ original' = original /\ radix' = radix
  BY DEF WriteDigit, DigitsInv
<1>2. PICK r \in Nat : r = radix /\ r >= 2 /\ HasDigits(r)
  BY <1>1 DEF Dividing, HasDigits
<1>3. /\ original \in Int /\ number \in Int /\ number >= INT_MIN /\ number <= INT_MAX
      /\ INT_MAX \in Nat /\ INT_MIN = - INT_MAX - 1
  BY <1>1, IntAssumption DEF Dividing, INT_MIN
<1>4. PICK o \in Seq(0 .. r - 1) : o = output
  BY <1>1, <1>2 DEF Dividing
<1>5. PICK q : q = Quotient(number, r)
  OBVIOUS
<1>6. PICK d : d = CharacterOf(number - q * r)
  OBVIOUS
<1>7. number' = q /\ output' = Append(o, d) /\ resNumber' = number
  BY <1>2, <1>4, <1>5, <1>6 DEF WriteDigit
<1>8. /\ q \in Int /\ Magnitude(number) \in Nat /\ Magnitude(q) \in Nat /\ d \in 0 .. r - 1
      /\ Magnitude(number) = Magnitude(q) * r + d /\ Magnitude(q) <= Magnitude(number)
      /\ (number < 0 => q <= 0) /\ (number >= 0 => q >= 0)
  <2>1. PICK n \in Int : n = number
    BY <1>3
  <2>2. r > 0 /\ Divides(n, r, q, d)
    BY <1>2, <1>5, <1>6, <2>1 DEF Divides
  <2>3. /\ q \in Int /\ Magnitude(n) \in Nat /\ Magnitude(q) \in Nat /\ d \in 0 .. r - 1
        /\ Magnitude(n) = Magnitude(q) * r + d /\ Magnitude(q) <= Magnitude(n)
        /\ (n < 0 => q <= 0) /\ (n >= 0 => q >= 0)
    BY <2>2, DigitIs
  <2> QED BY <2>1, <2>3
<1>9. number' \in INT_MIN .. INT_MAX
  BY <1>3, <1>7, <1>8 DEF Magnitude
<1>10. output' \in Seq(0 .. r - 1) /\ Len(output') = Len(o) + 1 /\ output'[Len(output')] = d
  BY <1>4, <1>7, <1>8, AppendProperties
<1>11. PICK u : PutBack(u, o, r, Magnitude(number), Magnitude(original))
  BY <1>1, <1>2, <1>4 DEF Dividing
<1>12. \E v : PutBack(v, output', r, Magnitude(q), Magnitude(original))
  <2>1. Magnitude(original) \in Nat
    BY <1>3 DEF Magnitude
  <2> QED BY <1>7, <1>8, <1>11, <2>1, OneMoreDigit
<1>13. /\ original < 0 => number <= 0
       /\ original >= 0 => number >= 0
       /\ output = <<>> => number = original
       /\ output # <<>> => (resNumber < 0 <=> original < 0)
       /\ number # 0 \/ output = <<>>
  BY <1>1 DEF Dividing, WriteDigit
<1>14. /\ original < 0 => q <= 0
       /\ original >= 0 => q >= 0
  <2>1. number <= 0 => q <= 0
    BY <1>3, <1>8 DEF Magnitude
  <2> QED BY <1>3, <1>8, <1>13, <2>1
<1>15. number < 0 <=> original < 0
  BY <1>3, <1>13
<1>16. Len(output') > 1 /\ q = 0 => d # 0
  <2>1. Len(output') > 1 => number # 0
    <3>1. o = <<>> => Len(o) = 0
      OBVIOUS
    <3> QED BY <1>4, <1>10, <1>13, <3>1
  <2>2. q = 0 => Magnitude(number) = d
    <3>1. q = 0 => Magnitude(q) * r = 0
      BY DEF Magnitude
    <3> QED BY <1>8, <3>1
  <2>3. number # 0 => Magnitude(number) # 0
    BY <1>3 DEF Magnitude
  <2> QED BY <2>1, <2>2, <2>3
<1>17. output' # <<>>
  BY <1>10
<1>18. Dividing'
  BY <1>1, <1>2, <1>3, <1>7, <1>9, <1>10, <1>12, <1>14, <1>15, <1>16, <1>17 DEF Dividing
<1> QED
  BY <1>1, <1>18 DEF DigitsInv, WritesNumber

LEMMA TurnAroundStep ==
  ASSUME DigitsInv, TurnAround
  PROVE  DigitsInv'
<1>1. /\ Dividing /\ writing' = "written" /\ original' = original /\ radix' = radix
      /\ number = 0 /\ output # <<>> /\ output' = Reverse(Signed(output))
  BY DEF TurnAround, DigitsInv
<1>2. /\ original \in Int /\ HasDigits(radix) /\ (resNumber < 0 <=> original < 0)
  BY <1>1, IntAssumption DEF Dividing, INT_MIN
<1>3. output \in Seq(Int) /\ Len(output) \in Nat
  <2>1. PICK o \in Seq(0 .. radix - 1) : o = output
    BY <1>1 DEF Dividing
  <2>2. radix \in Nat
    BY <1>2 DEF HasDigits
  <2>3. o \in Seq(Int)
    BY <2>2
  <2> QED BY <2>1, <2>3
<1>4. PICK D : D = [i \in 1 .. Len(output) |-> output[Len(output) + 1 - i]]
  OBVIOUS
<1>5. /\ Reverse(output) = D
      /\ Reverse(Append(output, Minus))[1] = Minus /\ Tail(Reverse(Append(output, Minus))) = D
  BY <1>3, <1>4, TurnedAround
<1>6. /\ \A i \in DOMAIN D : D[i] \in 0 .. radix - 1
      /\ Len(D) > 1 => D[1] # 0
      /\ Stands(D, radix) = Magnitude(original)
      /\ radix = 10 /\ original >= 0 => atoi(D) = original /\ atol(D) = original
  BY <1>1, <1>4, DividedWhole
<1>7. WritesNumber'
  <2>1. CASE original < 0
    <3>1. output'[1] = Minus /\ Tail(output') = D
      BY <1>1, <1>2, <1>5, <2>1 DEF Signed
    <3>2. Stands(D, radix) = - original /\ ~ (original >= 0)
      BY <1>2, <1>6, <2>1 DEF Magnitude
    <3> QED BY <1>1, <1>2, <1>6, <2>1, <3>1, <3>2 DEF WritesNumber
  <2>2. CASE ~ (original < 0)
    <3>1. output' = D
      BY <1>1, <1>2, <1>5, <2>2 DEF Signed
    <3>2. Stands(D, radix) = original
      BY <1>2, <1>6, <2>2 DEF Magnitude
    <3> QED BY <1>1, <1>2, <1>6, <2>2, <3>1, <3>2 DEF WritesNumber
  <2> QED BY <2>1, <2>2
<1> QED
  BY <1>1, <1>7 DEF DigitsInv

LEMMA DigitsStep == DigitsInv /\ [NextDigits]_digitVars => DigitsInv'
<1> SUFFICES ASSUME DigitsInv, [NextDigits]_digitVars
             PROVE  DigitsInv'
  OBVIOUS
<1>1. CASE itoa
  BY <1>1, ItoaStep
<1>2. CASE WriteDigit
  BY <1>2, WriteDigitStep
<1>3. CASE TurnAround
  BY <1>3, TurnAroundStep
<1>4. CASE EndItoa
  BY <1>4 DEF EndItoa, DigitsInv, WritesNumber
<1>5. CASE UNCHANGED digitVars
  BY <1>5 DEF digitVars, DigitsInv, Dividing, WritesNumber
<1> QED
  BY <1>1, <1>2, <1>3, <1>4, <1>5 DEF NextDigits

(* The digits so far and what is left of the number are the number, in     *)
(* every base that has digits, for ints of any width.                      *)
THEOREM DigitsInvariance == DigitsSpec => []DigitsInv
  BY DigitsInitially, DigitsStep, PTL DEF DigitsSpec

(* What itoa writes, for every number and base, the least int included;    *)
(* atoi and atol read it back when it is decimal and has no sign.          *)
THEOREM DigitsCorrect == Spec => []WritesNumber
<1>1. DigitsInv => WritesNumber
  BY DEF DigitsInv
<1> QED
  BY <1>1, SpecImplementsAll, DigitsInvariance, PTL
-----------------------------------------------------------------------------
LEMMA Upwards ==
  ASSUME NEW n \in Nat
  PROVE  DOMAIN Indices(n) = 1 .. n /\ \A k \in 1 .. n : Indices(n)[k] = k - 1
BY DEF Indices

(* The loops that write: what the memory is after each round.  *)
CopyRun(w, m, dest, src, n) ==
  /\ w[0] = m /\ w[n] = Copy(m, dest, src, n)
  /\ \A k \in 1 .. n :
       w[k] = [w[k - 1] EXCEPT ![dest + (k - 1)] = w[k - 1][src + (k - 1)]]

MoveRun(w, m, dest, src, n) ==
  /\ w[0] = m /\ w[n] = Move(m, dest, src, n)
  /\ \A k \in 1 .. n :
       w[k] = [w[k - 1] EXCEPT ![dest + (k - 1)] = m[src + (k - 1)]]

FillRun(w, m, src, value, n) ==
  /\ w[0] = m /\ w[n] = Fill(m, src, value, n)
  /\ \A k \in 1 .. n : w[k] = [w[k - 1] EXCEPT ![src + (k - 1)] = value]

(* A character is added to the one that is there. *)
Added(a, b) == (a + b) % ByteLimit

ConcatenateRun(w, m, dest, src, n, end) ==
  /\ w[0] = m
  /\ Concatenate(m, dest, src, n) = [w[n] EXCEPT ![end + n] = 0]
  /\ \A k \in 1 .. n :
       w[k] = [w[k - 1] EXCEPT ![end + (k - 1)] =
                 Added(w[k - 1][end + (k - 1)], w[k - 1][src + (k - 1)])]

LEMMA CopyRounds ==
  ASSUME NEW m \in Memories, NEW dest \in Int, NEW src \in Int, NEW n \in Nat,
         src + n - 1 <= Size, src >= 1
  PROVE  \E w : CopyRun(w, m, dest, src, n)
<1> DEFINE step == [k \in 1 .. n |-> [w \in Memories |->
                      [w EXCEPT ![dest + (k - 1)] = w[src + (k - 1)]]]]
           P(iter) == iter = [s \in SUBSET (DOMAIN Indices(n)) |->
                        IF s = {} THEN m
                        ELSE [iter[s \ {Max(s)}] EXCEPT
                                ![dest + Indices(n)[Max(s)]] =
                                    iter[s \ {Max(s)}][src + Indices(n)[Max(s)]]]]
           J == CHOOSE iter : P(iter)
<1>1. Copy(m, dest, src, n) = J[DOMAIN Indices(n)]
  BY DEF Copy, FoldLeft, MapThenFoldSet
<1>2. ASSUME NEW k \in 1 .. n, NEW w \in Memories
      PROVE  [w EXCEPT ![dest + (k - 1)] = w[src + (k - 1)]] \in Memories
  <2>1. src + (k - 1) \in Addresses
    BY StringAssumption DEF Addresses
  <2> QED BY <2>1 DEF Memories
<1>3. step \in [1 .. n -> [Memories -> Memories]]
  BY <1>2
<1>4. PICK g : Iterates(n, Memories, m, step, g)
  <2> HIDE DEF step
  <2> QED BY <1>3, IterateExists
<1>5. ASSUME NEW s \in SUBSET (1 .. n), s # {}
      PROVE  /\ Max(s) \in 1 .. n /\ s \ {Max(s)} \in SUBSET (1 .. n)
             /\ Indices(n)[Max(s)] = Max(s) - 1
  <2>1. Max(s) \in s
    BY MaxOf, <1>5
  <2> QED BY <2>1, Upwards
<1>6. P(g)
  <2> DEFINE h == [s \in SUBSET (DOMAIN Indices(n)) |->
                        IF s = {} THEN m
                        ELSE [g[s \ {Max(s)}] EXCEPT
                                ![dest + Indices(n)[Max(s)]] =
                                    g[s \ {Max(s)}][src + Indices(n)[Max(s)]]]]
  <2>1. g \in [SUBSET (1 .. n) -> Memories]
    BY <1>4 DEF Iterates
  <2>2. ASSUME NEW s \in SUBSET (1 .. n)
        PROVE  g[s] = h[s]
    <3>1. s \in SUBSET (DOMAIN Indices(n))
      BY Upwards
    <3>2. g[s] = IF s = {} THEN m ELSE step[Max(s)][g[s \ {Max(s)}]]
      BY <1>4 DEF Iterates
    <3>3. CASE s = {}
      BY <3>1, <3>2, <3>3
    <3>4. CASE s # {}
      <4>1. PICK x \in 1 .. n : x = Max(s)
        BY <1>5, <3>4
      <4>2. PICK u \in Memories : u = g[s \ {x}]
        BY <2>1, <1>5, <3>4, <4>1
      <4>3. g[s] = [u EXCEPT ![dest + (x - 1)] = u[src + (x - 1)]]
        BY <3>2, <3>4, <4>1, <4>2
      <4>4. h[s] = [g[s \ {Max(s)}] EXCEPT
                      ![dest + Indices(n)[Max(s)]] = g[s \ {Max(s)}][src + Indices(n)[Max(s)]]]
        BY <3>1, <3>4
      <4>5. Indices(n)[Max(s)] = x - 1
        BY <1>5, <3>4, <4>1
      <4> HIDE DEF h
      <4> QED BY <4>1, <4>2, <4>3, <4>4, <4>5
    <3> QED BY <3>3, <3>4
  <2>3. g = [s \in SUBSET (1 .. n) |-> g[s]]
    BY <2>1
  <2>4. h = [s \in SUBSET (1 .. n) |-> h[s]]
    <3>1. DOMAIN h = SUBSET (1 .. n)
      BY Upwards
    <3>2. h = [s \in DOMAIN h |-> h[s]]
      OBVIOUS
    <3> HIDE DEF h
    <3> QED BY <3>1, <3>2
  <2>5. g = h
    <3> HIDE DEF h
    <3> QED BY <2>2, <2>3, <2>4
  <2> QED BY <2>5
<1>7. P(J)
  <2> HIDE DEF P
  <2> QED BY <1>6
<1> DEFINE w == [k \in 0 .. n |-> J[1 .. k]]
<1>8. J[1 .. 0] = m
  <2>1. (1 .. 0) = {} /\ (1 .. 0) \in SUBSET (DOMAIN Indices(n))
    OBVIOUS
  <2> HIDE DEF J
  <2> QED BY <1>7, <2>1
<1>9. ASSUME NEW k \in 1 .. n
      PROVE  J[1 .. k] = [J[1 .. k - 1] EXCEPT
                            ![dest + (k - 1)] = J[1 .. k - 1][src + (k - 1)]]
  <2>1. /\ (1 .. k) \in SUBSET (DOMAIN Indices(n)) /\ (1 .. k) # {}
        /\ Max(1 .. k) = k /\ (1 .. k) \ {k} = 1 .. k - 1
        /\ Indices(n)[k] = k - 1
    BY UpTo, Upwards
  <2> HIDE DEF J
  <2> DEFINE s == 1 .. k
  <2>2. J[s] = [J[s \ {Max(s)}] EXCEPT
                  ![dest + Indices(n)[Max(s)]] = J[s \ {Max(s)}][src + Indices(n)[Max(s)]]]
    <3> HIDE DEF s
    <3>1. s \in SUBSET (DOMAIN Indices(n)) /\ s # {}
      BY <2>1 DEF s
    <3> QED BY <1>7, <3>1
  <2> QED BY ONLY <2>1, <2>2
<1>10. w[0] = m /\ w[n] = Copy(m, dest, src, n)
  <2> HIDE DEF J
  <2> QED BY <1>1, <1>8, Upwards
<1>11. ASSUME NEW k \in 1 .. n
       PROVE  w[k] = [w[k - 1] EXCEPT ![dest + (k - 1)] = w[k - 1][src + (k - 1)]]
  <2>1. w[k] = J[1 .. k] /\ w[k - 1] = J[1 .. k - 1]
    <3> HIDE DEF J
    <3> QED OBVIOUS
  <2> HIDE DEF J, w
  <2> QED BY ONLY <1>9, <2>1
<1> HIDE DEF w
<1> QED BY <1>10, <1>11 DEF CopyRun

LEMMA FillRounds ==
  ASSUME NEW m \in Memories, NEW src \in Int, NEW value \in Bytes, NEW n \in Nat
  PROVE  \E w : FillRun(w, m, src, value, n)
<1> DEFINE step == [k \in 1 .. n |-> [w \in Memories |->
                      [w EXCEPT ![src + (k - 1)] = value]]]
           P(iter) == iter = [s \in SUBSET (DOMAIN Indices(n)) |->
                        IF s = {} THEN m
                        ELSE [iter[s \ {Max(s)}] EXCEPT
                                ![src + Indices(n)[Max(s)]] =
                                    value]]
           J == CHOOSE iter : P(iter)
<1>1. Fill(m, src, value, n) = J[DOMAIN Indices(n)]
  BY DEF Fill, FoldLeft, MapThenFoldSet
<1>2. ASSUME NEW k \in 1 .. n, NEW w \in Memories
      PROVE  [w EXCEPT ![src + (k - 1)] = value] \in Memories
  BY DEF Memories
<1>3. step \in [1 .. n -> [Memories -> Memories]]
  BY <1>2
<1>4. PICK g : Iterates(n, Memories, m, step, g)
  <2> HIDE DEF step
  <2> QED BY <1>3, IterateExists
<1>5. ASSUME NEW s \in SUBSET (1 .. n), s # {}
      PROVE  /\ Max(s) \in 1 .. n /\ s \ {Max(s)} \in SUBSET (1 .. n)
             /\ Indices(n)[Max(s)] = Max(s) - 1
  <2>1. Max(s) \in s
    BY MaxOf, <1>5
  <2> QED BY <2>1, Upwards
<1>6. P(g)
  <2> DEFINE h == [s \in SUBSET (DOMAIN Indices(n)) |->
                        IF s = {} THEN m
                        ELSE [g[s \ {Max(s)}] EXCEPT
                                ![src + Indices(n)[Max(s)]] =
                                    value]]
  <2>1. g \in [SUBSET (1 .. n) -> Memories]
    BY <1>4 DEF Iterates
  <2>2. ASSUME NEW s \in SUBSET (1 .. n)
        PROVE  g[s] = h[s]
    <3>1. s \in SUBSET (DOMAIN Indices(n))
      BY Upwards
    <3>2. g[s] = IF s = {} THEN m ELSE step[Max(s)][g[s \ {Max(s)}]]
      BY <1>4 DEF Iterates
    <3>3. CASE s = {}
      BY <3>1, <3>2, <3>3
    <3>4. CASE s # {}
      <4>1. PICK x \in 1 .. n : x = Max(s)
        BY <1>5, <3>4
      <4>2. PICK u \in Memories : u = g[s \ {x}]
        BY <2>1, <1>5, <3>4, <4>1
      <4>3. g[s] = [u EXCEPT ![src + (x - 1)] = value]
        BY <3>2, <3>4, <4>1, <4>2
      <4>4. h[s] = [g[s \ {Max(s)}] EXCEPT
                      ![src + Indices(n)[Max(s)]] = value]
        BY <3>1, <3>4
      <4>5. Indices(n)[Max(s)] = x - 1
        BY <1>5, <3>4, <4>1
      <4> HIDE DEF h
      <4> QED BY <4>1, <4>2, <4>3, <4>4, <4>5
    <3> QED BY <3>3, <3>4
  <2>3. g = [s \in SUBSET (1 .. n) |-> g[s]]
    BY <2>1
  <2>4. h = [s \in SUBSET (1 .. n) |-> h[s]]
    <3>1. DOMAIN h = SUBSET (1 .. n)
      BY Upwards
    <3>2. h = [s \in DOMAIN h |-> h[s]]
      OBVIOUS
    <3> HIDE DEF h
    <3> QED BY <3>1, <3>2
  <2>5. g = h
    <3> HIDE DEF h
    <3> QED BY <2>2, <2>3, <2>4
  <2> QED BY <2>5
<1>7. P(J)
  <2> HIDE DEF P
  <2> QED BY <1>6
<1> DEFINE w == [k \in 0 .. n |-> J[1 .. k]]
<1>8. J[1 .. 0] = m
  <2>1. (1 .. 0) = {} /\ (1 .. 0) \in SUBSET (DOMAIN Indices(n))
    OBVIOUS
  <2> HIDE DEF J
  <2> QED BY <1>7, <2>1
<1>9. ASSUME NEW k \in 1 .. n
      PROVE  J[1 .. k] = [J[1 .. k - 1] EXCEPT
                            ![src + (k - 1)] = value]
  <2>1. /\ (1 .. k) \in SUBSET (DOMAIN Indices(n)) /\ (1 .. k) # {}
        /\ Max(1 .. k) = k /\ (1 .. k) \ {k} = 1 .. k - 1
        /\ Indices(n)[k] = k - 1
    BY UpTo, Upwards
  <2> HIDE DEF J
  <2> DEFINE s == 1 .. k
  <2>2. J[s] = [J[s \ {Max(s)}] EXCEPT
                  ![src + Indices(n)[Max(s)]] = value]
    <3> HIDE DEF s
    <3>1. s \in SUBSET (DOMAIN Indices(n)) /\ s # {}
      BY <2>1 DEF s
    <3> QED BY <1>7, <3>1
  <2> QED BY ONLY <2>1, <2>2
<1>10. w[0] = m /\ w[n] = Fill(m, src, value, n)
  <2> HIDE DEF J
  <2> QED BY <1>1, <1>8, Upwards
<1>11. ASSUME NEW k \in 1 .. n
       PROVE  w[k] = [w[k - 1] EXCEPT ![src + (k - 1)] = value]
  <2>1. w[k] = J[1 .. k] /\ w[k - 1] = J[1 .. k - 1]
    <3> HIDE DEF J
    <3> QED OBVIOUS
  <2> HIDE DEF J, w
  <2> QED BY ONLY <1>9, <2>1
<1> HIDE DEF w
<1> QED BY <1>10, <1>11 DEF FillRun

LEMMA MoveRounds ==
  ASSUME NEW m \in Memories, NEW dest \in Int, NEW src \in Int, NEW n \in Nat,
         src + n - 1 <= Size, src >= 1
  PROVE  \E w : MoveRun(w, m, dest, src, n)
<1> DEFINE temp == [i \in 0 .. n - 1 |-> m[src + i]]
<1> DEFINE step == [k \in 1 .. n |-> [w \in Memories |->
                      [w EXCEPT ![dest + (k - 1)] = temp[(k - 1)]]]]
           P(iter) == iter = [s \in SUBSET (DOMAIN Indices(n)) |->
                        IF s = {} THEN m
                        ELSE [iter[s \ {Max(s)}] EXCEPT
                                ![dest + Indices(n)[Max(s)]] =
                                    temp[Indices(n)[Max(s)]]]]
           J == CHOOSE iter : P(iter)
<1>1. Move(m, dest, src, n) = J[DOMAIN Indices(n)]
  BY DEF Move, FoldLeft, MapThenFoldSet
<1>2. ASSUME NEW k \in 1 .. n, NEW w \in Memories
      PROVE  [w EXCEPT ![dest + (k - 1)] = temp[(k - 1)]] \in Memories
  <2>1. src + (k - 1) \in Addresses /\ k - 1 \in 0 .. n - 1
    BY StringAssumption DEF Addresses
  <2> QED BY <2>1 DEF Memories
<1>3. step \in [1 .. n -> [Memories -> Memories]]
  BY <1>2
<1>4. PICK g : Iterates(n, Memories, m, step, g)
  <2> HIDE DEF step
  <2> QED BY <1>3, IterateExists
<1>5. ASSUME NEW s \in SUBSET (1 .. n), s # {}
      PROVE  /\ Max(s) \in 1 .. n /\ s \ {Max(s)} \in SUBSET (1 .. n)
             /\ Indices(n)[Max(s)] = Max(s) - 1
  <2>1. Max(s) \in s
    BY MaxOf, <1>5
  <2> QED BY <2>1, Upwards
<1>6. P(g)
  <2> DEFINE h == [s \in SUBSET (DOMAIN Indices(n)) |->
                        IF s = {} THEN m
                        ELSE [g[s \ {Max(s)}] EXCEPT
                                ![dest + Indices(n)[Max(s)]] =
                                    temp[Indices(n)[Max(s)]]]]
  <2>1. g \in [SUBSET (1 .. n) -> Memories]
    BY <1>4 DEF Iterates
  <2>2. ASSUME NEW s \in SUBSET (1 .. n)
        PROVE  g[s] = h[s]
    <3>1. s \in SUBSET (DOMAIN Indices(n))
      BY Upwards
    <3>2. g[s] = IF s = {} THEN m ELSE step[Max(s)][g[s \ {Max(s)}]]
      BY <1>4 DEF Iterates
    <3>3. CASE s = {}
      BY <3>1, <3>2, <3>3
    <3>4. CASE s # {}
      <4>1. PICK x \in 1 .. n : x = Max(s)
        BY <1>5, <3>4
      <4>2. PICK u \in Memories : u = g[s \ {x}]
        BY <2>1, <1>5, <3>4, <4>1
      <4>3. g[s] = [u EXCEPT ![dest + (x - 1)] = temp[(x - 1)]]
        BY <3>2, <3>4, <4>1, <4>2
      <4>4. h[s] = [g[s \ {Max(s)}] EXCEPT
                      ![dest + Indices(n)[Max(s)]] = temp[Indices(n)[Max(s)]]]
        BY <3>1, <3>4
      <4>5. Indices(n)[Max(s)] = x - 1
        BY <1>5, <3>4, <4>1
      <4> HIDE DEF h
      <4> QED BY <4>1, <4>2, <4>3, <4>4, <4>5
    <3> QED BY <3>3, <3>4
  <2>3. g = [s \in SUBSET (1 .. n) |-> g[s]]
    BY <2>1
  <2>4. h = [s \in SUBSET (1 .. n) |-> h[s]]
    <3>1. DOMAIN h = SUBSET (1 .. n)
      BY Upwards
    <3>2. h = [s \in DOMAIN h |-> h[s]]
      OBVIOUS
    <3> HIDE DEF h
    <3> QED BY <3>1, <3>2
  <2>5. g = h
    <3> HIDE DEF h
    <3> QED BY <2>2, <2>3, <2>4
  <2> QED BY <2>5
<1>7. P(J)
  <2> HIDE DEF P
  <2> QED BY <1>6
<1> DEFINE w == [k \in 0 .. n |-> J[1 .. k]]
<1>8. J[1 .. 0] = m
  <2>1. (1 .. 0) = {} /\ (1 .. 0) \in SUBSET (DOMAIN Indices(n))
    OBVIOUS
  <2> HIDE DEF J
  <2> QED BY <1>7, <2>1
<1>9. ASSUME NEW k \in 1 .. n
      PROVE  J[1 .. k] = [J[1 .. k - 1] EXCEPT
                            ![dest + (k - 1)] = temp[(k - 1)]]
  <2>1. /\ (1 .. k) \in SUBSET (DOMAIN Indices(n)) /\ (1 .. k) # {}
        /\ Max(1 .. k) = k /\ (1 .. k) \ {k} = 1 .. k - 1
        /\ Indices(n)[k] = k - 1
    BY UpTo, Upwards
  <2> HIDE DEF J
  <2> DEFINE s == 1 .. k
  <2>2. J[s] = [J[s \ {Max(s)}] EXCEPT
                  ![dest + Indices(n)[Max(s)]] = temp[Indices(n)[Max(s)]]]
    <3> HIDE DEF s
    <3>1. s \in SUBSET (DOMAIN Indices(n)) /\ s # {}
      BY <2>1 DEF s
    <3> QED BY <1>7, <3>1
  <2> QED BY ONLY <2>1, <2>2
<1>10. w[0] = m /\ w[n] = Move(m, dest, src, n)
  <2> HIDE DEF J
  <2> QED BY <1>1, <1>8, Upwards
<1>11. ASSUME NEW k \in 1 .. n
       PROVE  w[k] = [w[k - 1] EXCEPT ![dest + (k - 1)] = temp[(k - 1)]]
  <2>1. w[k] = J[1 .. k] /\ w[k - 1] = J[1 .. k - 1]
    <3> HIDE DEF J
    <3> QED OBVIOUS
  <2> HIDE DEF J, w
  <2> QED BY ONLY <1>9, <2>1
<1>12. ASSUME NEW k \in 1 .. n
       PROVE  temp[(k - 1)] = m[src + (k - 1)]
  OBVIOUS
<1>13. ASSUME NEW k \in 1 .. n
       PROVE  w[k] = [w[k - 1] EXCEPT ![dest + (k - 1)] = m[src + (k - 1)]]
  <2> HIDE DEF w, temp
  <2> QED BY <1>11, <1>12
<1> HIDE DEF w
<1> QED BY <1>10, <1>13 DEF MoveRun

LEMMA ConcatenateRounds ==
  ASSUME NEW m \in Memories, NEW dest \in Int, NEW src \in Int, NEW n \in Nat,
         src + n - 1 <= Size, src >= 1,
         NEW end \in Int, end = dest + strlen(m, dest)
  PROVE  \E w : ConcatenateRun(w, m, dest, src, n, end)
<1> DEFINE Add(w, i) == [w EXCEPT ![end + i] = (@ + w[src + i]) % ByteLimit]
           Folded == FoldLeft(Add, m, Indices(n))
<1>0. Concatenate(m, dest, src, n) = [Folded EXCEPT ![end + n] = 0]
  BY DEF Concatenate
<1> DEFINE step == [k \in 1 .. n |-> [w \in Memories |->
                      [w EXCEPT ![end + (k - 1)] = Added(w[end + (k - 1)], w[src + (k - 1)])]]]
           P(iter) == iter = [s \in SUBSET (DOMAIN Indices(n)) |->
                        IF s = {} THEN m
                        ELSE [iter[s \ {Max(s)}] EXCEPT
                                ![end + Indices(n)[Max(s)]] =
                                    Added(iter[s \ {Max(s)}][end + Indices(n)[Max(s)]], iter[s \ {Max(s)}][src + Indices(n)[Max(s)]])]]
           J == CHOOSE iter : P(iter)
<1>1. Folded = J[DOMAIN Indices(n)]
  BY DEF Added, FoldLeft, MapThenFoldSet
<1>2. ASSUME NEW k \in 1 .. n, NEW w \in Memories
      PROVE  [w EXCEPT ![end + (k - 1)] = Added(w[end + (k - 1)], w[src + (k - 1)])] \in Memories
  <2>1. src + (k - 1) \in Addresses
    BY StringAssumption DEF Addresses
  <2>2. CASE end + (k - 1) \in Addresses
    <3>1. w[end + (k - 1)] \in Nat /\ w[src + (k - 1)] \in Nat
      BY <2>1, <2>2 DEF Memories, Bytes
    <3>2. Added(w[end + (k - 1)], w[src + (k - 1)]) \in Bytes
      BY <3>1, StringAssumption DEF Bytes, Added
    <3> QED BY <3>2 DEF Memories
  <2>3. CASE end + (k - 1) \notin Addresses
    <3>1. [w EXCEPT ![end + (k - 1)] =
             Added(w[end + (k - 1)], w[src + (k - 1)])] = w
      BY <2>3 DEF Memories
    <3> QED BY <3>1
  <2> QED BY <2>2, <2>3
<1>3. step \in [1 .. n -> [Memories -> Memories]]
  BY <1>2
<1>4. PICK g : Iterates(n, Memories, m, step, g)
  <2> HIDE DEF step
  <2> QED BY <1>3, IterateExists
<1>5. ASSUME NEW s \in SUBSET (1 .. n), s # {}
      PROVE  /\ Max(s) \in 1 .. n /\ s \ {Max(s)} \in SUBSET (1 .. n)
             /\ Indices(n)[Max(s)] = Max(s) - 1
  <2>1. Max(s) \in s
    BY MaxOf, <1>5
  <2> QED BY <2>1, Upwards
<1>6. P(g)
  <2> DEFINE h == [s \in SUBSET (DOMAIN Indices(n)) |->
                        IF s = {} THEN m
                        ELSE [g[s \ {Max(s)}] EXCEPT
                                ![end + Indices(n)[Max(s)]] =
                                    Added(g[s \ {Max(s)}][end + Indices(n)[Max(s)]], g[s \ {Max(s)}][src + Indices(n)[Max(s)]])]]
  <2>1. g \in [SUBSET (1 .. n) -> Memories]
    BY <1>4 DEF Iterates
  <2>2. ASSUME NEW s \in SUBSET (1 .. n)
        PROVE  g[s] = h[s]
    <3>1. s \in SUBSET (DOMAIN Indices(n))
      BY Upwards
    <3>2. g[s] = IF s = {} THEN m ELSE step[Max(s)][g[s \ {Max(s)}]]
      BY <1>4 DEF Iterates
    <3>3. CASE s = {}
      BY <3>1, <3>2, <3>3
    <3>4. CASE s # {}
      <4>1. PICK x \in 1 .. n : x = Max(s)
        BY <1>5, <3>4
      <4>2. PICK u \in Memories : u = g[s \ {x}]
        BY <2>1, <1>5, <3>4, <4>1
      <4>3. g[s] = [u EXCEPT ![end + (x - 1)] = Added(u[end + (x - 1)], u[src + (x - 1)])]
        BY <3>2, <3>4, <4>1, <4>2
      <4>4. h[s] = [g[s \ {Max(s)}] EXCEPT
                      ![end + Indices(n)[Max(s)]] = Added(g[s \ {Max(s)}][end + Indices(n)[Max(s)]], g[s \ {Max(s)}][src + Indices(n)[Max(s)]])]
        BY <3>1, <3>4
      <4>5. Indices(n)[Max(s)] = x - 1
        BY <1>5, <3>4, <4>1
      <4> HIDE DEF h
      <4> QED BY <4>1, <4>2, <4>3, <4>4, <4>5
    <3> QED BY <3>3, <3>4
  <2>3. g = [s \in SUBSET (1 .. n) |-> g[s]]
    BY <2>1
  <2>4. h = [s \in SUBSET (1 .. n) |-> h[s]]
    <3>1. DOMAIN h = SUBSET (1 .. n)
      BY Upwards
    <3>2. h = [s \in DOMAIN h |-> h[s]]
      OBVIOUS
    <3> HIDE DEF h
    <3> QED BY <3>1, <3>2
  <2>5. g = h
    <3> HIDE DEF h
    <3> QED BY <2>2, <2>3, <2>4
  <2> QED BY <2>5
<1>7. P(J)
  <2> HIDE DEF P
  <2> QED BY <1>6
<1> DEFINE w == [k \in 0 .. n |-> J[1 .. k]]
<1>8. J[1 .. 0] = m
  <2>1. (1 .. 0) = {} /\ (1 .. 0) \in SUBSET (DOMAIN Indices(n))
    OBVIOUS
  <2> HIDE DEF J
  <2> QED BY <1>7, <2>1
<1>9. ASSUME NEW k \in 1 .. n
      PROVE  J[1 .. k] = [J[1 .. k - 1] EXCEPT
                            ![end + (k - 1)] = Added(J[1 .. k - 1][end + (k - 1)], J[1 .. k - 1][src + (k - 1)])]
  <2>1. /\ (1 .. k) \in SUBSET (DOMAIN Indices(n)) /\ (1 .. k) # {}
        /\ Max(1 .. k) = k /\ (1 .. k) \ {k} = 1 .. k - 1
        /\ Indices(n)[k] = k - 1
    BY UpTo, Upwards
  <2> HIDE DEF J
  <2> DEFINE s == 1 .. k
  <2>2. J[s] = [J[s \ {Max(s)}] EXCEPT
                  ![end + Indices(n)[Max(s)]] = Added(J[s \ {Max(s)}][end + Indices(n)[Max(s)]], J[s \ {Max(s)}][src + Indices(n)[Max(s)]])]
    <3> HIDE DEF s
    <3>1. s \in SUBSET (DOMAIN Indices(n)) /\ s # {}
      BY <2>1 DEF s
    <3> QED BY <1>7, <3>1
  <2> HIDE DEF s
  <2>3. /\ J[1 .. k] = J[s] /\ J[s \ {Max(s)}] = J[1 .. k - 1]
        /\ Indices(n)[Max(s)] = k - 1
    BY ONLY <2>1 DEF s
  <2> QED BY ONLY <2>2, <2>3, Zenon
<1>10. w[0] = m /\ w[n] = Folded
  <2> HIDE DEF J, Folded
  <2> QED BY <1>1, <1>8, Upwards
<1>11. ASSUME NEW k \in 1 .. n
       PROVE  w[k] = [w[k - 1] EXCEPT ![end + (k - 1)] = Added(w[k - 1][end + (k - 1)], w[k - 1][src + (k - 1)])]
  <2>1. w[k] = J[1 .. k] /\ w[k - 1] = J[1 .. k - 1]
    <3> HIDE DEF J
    <3> QED OBVIOUS
  <2> HIDE DEF J, w
  <2>2. J[1 .. k] = [J[1 .. k - 1] EXCEPT ![end + (k - 1)] =
                       Added(J[1 .. k - 1][end + (k - 1)], J[1 .. k - 1][src + (k - 1)])]
    BY <1>9, Zenon
  <2> QED BY ONLY <2>1, <2>2
<1>12. Concatenate(m, dest, src, n) = [w[n] EXCEPT ![end + n] = 0]
  <2> HIDE DEF w, Folded
  <2> QED BY <1>0, <1>10
<1> HIDE DEF w
<1> QED BY <1>10, <1>11, <1>12 DEF ConcatenateRun
-----------------------------------------------------------------------------
(* The memory after the first k characters have been moved.                *)
Moved(m, dest, src, k) ==
  [a \in Addresses |-> IF a \in dest .. dest + k - 1 THEN m[src + a - dest] ELSE m[a]]

LEMMA MoveOne ==
  ASSUME NEW m \in Memories, NEW dest \in Addresses, NEW src \in Addresses, NEW k \in Nat,
         dest + k <= Size, src + k <= Size
  PROVE  /\ Moved(m, dest, src, k) \in Memories
         /\ Moved(m, dest, src, k + 1) = [Moved(m, dest, src, k) EXCEPT ![dest + k] = m[src + k]]
<1>1. /\ Size \in Nat /\ dest \in Nat /\ src \in Nat
      /\ dest + k \in Addresses /\ src + k \in Addresses
  BY StringAssumption DEF Addresses
<1>2. ASSUME NEW a \in Addresses, a \in dest .. dest + k
      PROVE  m[src + a - dest] \in Bytes
  <2>1. src + a - dest \in Addresses
    BY <1>1, <1>2 DEF Addresses
  <2> QED BY <2>1 DEF Memories
<1>3. Moved(m, dest, src, k) \in Memories
  BY <1>1, <1>2 DEF Moved, Memories, Addresses
<1>4. ASSUME NEW a \in Addresses
      PROVE  Moved(m, dest, src, k + 1)[a] =
               [Moved(m, dest, src, k) EXCEPT ![dest + k] = m[src + k]][a]
  <2>0. a \in Nat
    BY DEF Addresses
  <2>1. CASE a = dest + k
    <3>1. a \in dest .. dest + (k + 1) - 1 /\ src + a - dest = src + k
      BY <1>1, <2>1
    <3> QED BY <3>1, <2>1, <1>1 DEF Moved
  <2>2. CASE a # dest + k
    <3>1. a \in dest .. dest + (k + 1) - 1 <=> a \in dest .. dest + k - 1
      BY <1>1, <2>2, <2>0
    <3> QED BY <3>1, <2>2 DEF Moved
  <2> QED BY <2>1, <2>2
<1> QED
  BY <1>3, <1>4 DEF Moved

LEMMA NothingMoved ==
  ASSUME NEW m \in Memories, NEW dest \in Addresses, NEW src \in Addresses
  PROVE  Moved(m, dest, src, 0) = m
<1>1. dest \in Nat
  BY DEF Addresses
<1>2. \A a \in Addresses : a \notin dest .. dest + 0 - 1
  BY <1>1 DEF Addresses
<1> QED
  BY <1>2 DEF Moved, Memories

LEMMA MoveIs ==
  ASSUME NEW m \in Memories, NEW dest \in Addresses, NEW src \in Addresses, NEW n \in Nat,
         Fits(dest, n), Fits(src, n)
  PROVE  Move(m, dest, src, n) = Moved(m, dest, src, n)
<1>1. dest \in Nat \ {0} /\ src \in Nat \ {0} /\ Size \in Nat /\ src + n - 1 <= Size /\ dest + n - 1 <= Size
  BY StringAssumption DEF Addresses, Fits
<1>2. PICK w : MoveRun(w, m, dest, src, n)
  <2>1. dest \in Int /\ src \in Int /\ src + n - 1 <= Size /\ src >= 1
    BY <1>1
  <2> QED BY <2>1, MoveRounds
<1> DEFINE S == {k \in 0 .. n : w[k] = Moved(m, dest, src, k)}
<1>3. 0 \in S
  BY <1>2, NothingMoved DEF MoveRun
<1>4. ASSUME NEW k \in 0 .. n - 1, k \in S
      PROVE  k + 1 \in S
  <2>1. k + 1 \in 1 .. n /\ (k + 1) - 1 = k /\ k \in Nat
    OBVIOUS
  <2>2. w[k + 1] = [w[k] EXCEPT ![dest + k] = m[src + k]]
    BY <1>2, <2>1 DEF MoveRun
  <2>3. dest + k <= Size /\ src + k <= Size
    BY <1>1, <2>1
  <2>4. Moved(m, dest, src, k + 1) = [Moved(m, dest, src, k) EXCEPT ![dest + k] = m[src + k]]
    BY <2>1, <2>3, MoveOne
  <2> QED BY <1>4, <2>1, <2>2, <2>4
<1>5. n \in S
  <2>1. n \in 0 .. n
    OBVIOUS
  <2> HIDE DEF S
  <2> QED BY <1>3, <1>4, <2>1, EveryRound
<1> QED
  BY <1>2, <1>5 DEF MoveRun

(* memcpy and strncpy move what was there, unless the destination begins   *)
(* inside the source, and they write characters, and those only in the     *)
(* destination, in any case.                                               *)
LEMMA CopyIs ==
  ASSUME NEW m \in Memories, NEW dest \in Addresses, NEW src \in Addresses, NEW n \in Nat,
         Fits(dest, n), Fits(src, n)
  PROVE  /\ Copy(m, dest, src, n) \in Memories
         /\ ~ Overtakes(dest, src, n) => Copy(m, dest, src, n) = Moved(m, dest, src, n)
         /\ \A a \in Addresses \ (dest .. dest + n - 1) : Copy(m, dest, src, n)[a] = m[a]
<1>1. dest \in Nat \ {0} /\ src \in Nat \ {0} /\ Size \in Nat /\ src + n - 1 <= Size /\ dest + n - 1 <= Size
  BY StringAssumption DEF Addresses, Fits
<1>2. PICK w : CopyRun(w, m, dest, src, n)
  <2>1. dest \in Int /\ src \in Int /\ src + n - 1 <= Size /\ src >= 1
    BY <1>1
  <2> QED BY <2>1, CopyRounds
<1>3. ASSUME NEW k \in 0 .. n - 1
      PROVE  /\ w[k + 1] = [w[k] EXCEPT ![dest + k] = w[k][src + k]]
             /\ dest + k \in Addresses /\ src + k \in Addresses
             /\ dest + k <= Size /\ src + k <= Size /\ k \in Nat
  <2>1. k + 1 \in 1 .. n /\ (k + 1) - 1 = k
    OBVIOUS
  <2>2. dest + k \in Addresses /\ src + k \in Addresses /\ dest + k <= Size /\ src + k <= Size
    BY <1>1 DEF Addresses
  <2> QED BY <1>2, <2>1, <2>2 DEF CopyRun
<1>4. /\ Copy(m, dest, src, n) \in Memories
      /\ \A a \in Addresses \ (dest .. dest + n - 1) : Copy(m, dest, src, n)[a] = m[a]
  <2> DEFINE Outside == Addresses \ (dest .. dest + n - 1)
             S == {k \in 0 .. n : w[k] \in Memories /\ \A a \in Outside : w[k][a] = m[a]}
  <2>1. 0 \in S
    BY <1>2 DEF CopyRun
  <2>2. ASSUME NEW k \in 0 .. n - 1, k \in S
        PROVE  k + 1 \in S
    <3>1. PICK u \in Memories : u = w[k]
      BY <2>2
    <3>2. dest + k \in Addresses /\ src + k \in Addresses
      BY <1>3
    <3>3. u[src + k] \in Bytes
      BY <3>2 DEF Memories
    <3>4. [u EXCEPT ![dest + k] = u[src + k]] \in Memories
      BY <3>2, <3>3 DEF Memories
    <3>5. w[k + 1] = [u EXCEPT ![dest + k] = u[src + k]]
      BY <1>3, <3>1
    <3>6. ASSUME NEW a \in Outside PROVE w[k + 1][a] = m[a]
      <4>1. a # dest + k
        BY <1>1
      <4>2. w[k + 1][a] = u[a]
        BY <3>5, <4>1 DEF Memories
      <4> QED BY <2>2, <3>1, <4>2
    <3>7. w[k + 1] \in Memories /\ k + 1 \in 0 .. n
      BY <3>4, <3>5
    <3>8. \A a \in Outside : w[k + 1][a] = m[a]
      BY <3>6
    <3> HIDE DEF Outside
    <3> QED BY <3>7, <3>8
  <2>3. n \in 0 .. n
    OBVIOUS
  <2>4. n \in S
    <3> HIDE DEF S
    <3> QED BY <2>1, <2>2, <2>3, EveryRound
  <2> QED BY <2>4, <1>2 DEF CopyRun
<1>5. ASSUME ~ Overtakes(dest, src, n)
      PROVE  Copy(m, dest, src, n) = Moved(m, dest, src, n)
  <2> DEFINE S == {k \in 0 .. n : w[k] = Moved(m, dest, src, k)}
  <2>1. 0 \in S
    BY <1>2, NothingMoved DEF CopyRun
  <2>2. ASSUME NEW k \in 0 .. n - 1, k \in S
        PROVE  k + 1 \in S
    <3>1. /\ w[k + 1] = [w[k] EXCEPT ![dest + k] = w[k][src + k]]
          /\ dest + k \in Addresses /\ src + k \in Addresses
          /\ dest + k <= Size /\ src + k <= Size /\ k \in Nat
      BY <1>3
    <3>2. w[k] = Moved(m, dest, src, k)
      BY <2>2
    <3>3. src + k \notin dest .. dest + k - 1
      BY <1>1, <1>5 DEF Overtakes
    <3>4. Moved(m, dest, src, k)[src + k] = m[src + k]
      BY <3>1, <3>3 DEF Moved
    <3>5. Moved(m, dest, src, k + 1) = [Moved(m, dest, src, k) EXCEPT ![dest + k] = m[src + k]]
      BY <3>1, MoveOne
    <3>6. w[k + 1] = Moved(m, dest, src, k + 1)
      BY <3>1, <3>2, <3>4, <3>5
    <3> QED BY <3>6
  <2>3. n \in 0 .. n
    OBVIOUS
  <2>4. n \in S
    <3> HIDE DEF S
    <3> QED BY <2>1, <2>2, <2>3, EveryRound
  <2> QED BY <2>4, <1>2 DEF CopyRun
<1> QED
  BY <1>4, <1>5

(* memset fills its block, and nothing else.                               *)
LEMMA FillIs ==
  ASSUME NEW m \in Memories, NEW src \in Addresses, NEW value \in Bytes, NEW n \in Nat
  PROVE  /\ Fill(m, src, value, n) \in Memories
         /\ Fill(m, src, value, n) =
              [a \in Addresses |-> IF a \in src .. src + n - 1 THEN value ELSE m[a]]
<1>1. src \in Nat /\ src \in Int /\ Addresses \subseteq Nat
  BY DEF Addresses
<1>2. PICK w : FillRun(w, m, src, value, n)
  BY <1>1, FillRounds
<1> DEFINE SoFar(k) == [a \in Addresses |-> IF a \in src .. src + k - 1 THEN value ELSE m[a]]
           S == {k \in 0 .. n : w[k] \in Memories /\ w[k] = SoFar(k)}
<1>3. 0 \in S
  <2>1. \A a \in Addresses : a \notin src .. src + 0 - 1
    BY <1>1
  <2>2. SoFar(0) = m
    BY <2>1 DEF Memories
  <2> QED BY <1>2, <2>2 DEF FillRun
<1>4. ASSUME NEW k \in 0 .. n - 1, k \in S
      PROVE  k + 1 \in S
  <2>1. k + 1 \in 1 .. n /\ (k + 1) - 1 = k
    OBVIOUS
  <2>2. w[k + 1] = [w[k] EXCEPT ![src + k] = value]
    BY <1>2, <2>1 DEF FillRun
  <2>3. w[k + 1] \in Memories
    BY <2>2, <1>4 DEF Memories
  <2>4. ASSUME NEW a \in Addresses
        PROVE  w[k + 1][a] = IF a \in src .. src + (k + 1) - 1 THEN value ELSE m[a]
    <3>1. a \in src .. src + (k + 1) - 1 <=> a = src + k \/ a \in src .. src + k - 1
      BY <1>1
    <3>2. w[k][a] = IF a \in src .. src + k - 1 THEN value ELSE m[a]
      BY <1>4
    <3>3. w[k + 1][a] = IF a = src + k THEN value ELSE w[k][a]
      BY <2>2, <1>4 DEF Memories
    <3> QED BY <3>1, <3>2, <3>3
  <2>5. w[k + 1] = SoFar(k + 1)
    BY <2>3, <2>4 DEF Memories
  <2> QED BY <2>1, <2>3, <2>5
<1>5. n \in 0 .. n
  OBVIOUS
<1>6. n \in S
  <2> HIDE DEF S
  <2> QED BY <1>3, <1>4, <1>5, EveryRound
<1> QED BY <1>2, <1>6 DEF FillRun
-----------------------------------------------------------------------------
LEMMA MinOf ==
  ASSUME NEW S, S \subseteq Nat, S # {}
  PROVE  Min(S) \in S /\ \A y \in S : Min(S) =< y
<1>1. \E x \in S : \A y \in S : x =< y
  BY LeastElement
<1> QED
  BY <1>1 DEF Min

(* A text ends at its first zero.                                          *)
LEMMA Length ==
  ASSUME NEW m \in Memories, NEW p \in Strings(m)
  PROVE  /\ p \in Nat \ {0} /\ p <= Size /\ Size \in Nat
         /\ strlen(m, p) \in Nat /\ p + strlen(m, p) <= Size
         /\ m[p + strlen(m, p)] = 0
         /\ \A a \in p .. p + strlen(m, p) - 1 : m[a] # 0 /\ a \in Addresses
<1> DEFINE Z == {n \in 0 .. Size - p : m[p + n] = 0}
<1>1. p \in Nat \ {0} /\ p <= Size /\ Size \in Nat
  BY StringAssumption DEF Strings, Addresses
<1>2. PICK q \in p .. Size : m[q] = 0
  BY DEF Strings, IsString
<1>3. q - p \in 0 .. Size - p /\ p + (q - p) = q
  BY <1>1, <1>2
<1>4. q - p \in Z
  BY <1>2, <1>3
<1>5. Min(Z) \in Z /\ \A y \in Z : Min(Z) =< y
  <2>1. Z \subseteq Nat /\ Z # {}
    BY <1>4
  <2> HIDE DEF Z
  <2> QED BY <2>1, MinOf
<1>6. PICK l \in Z : l = Min(Z) /\ \A y \in Z : l =< y
  <2> HIDE DEF Z
  <2> QED BY <1>5
<1>7. strlen(m, p) = l
  BY <1>6 DEF strlen
<1>8. ASSUME NEW a \in p .. p + l - 1
      PROVE  m[a] # 0 /\ a \in Addresses
  <2>1. a \in Addresses
    BY <1>1, <1>6 DEF Addresses
  <2>2. a - p \in 0 .. Size - p /\ p + (a - p) = a /\ a - p < l
    BY <1>1, <1>6
  <2>3. a - p \notin Z
    BY <2>2, <1>6
  <2> QED BY <2>1, <2>2, <2>3
<1> QED
  BY <1>1, <1>6, <1>7, <1>8

LEMMA LengthIs ==
  ASSUME NEW m \in Memories, NEW p \in Addresses, NEW l \in Nat, p + l <= Size,
         m[p + l] = 0, \A a \in p .. p + l - 1 : m[a] # 0
  PROVE  p \in Strings(m) /\ strlen(m, p) = l
<1>1. p \in Nat \ {0} /\ p <= Size /\ Size \in Nat
  BY StringAssumption DEF Addresses
<1>2. p + l \in p .. Size
  BY <1>1
<1>3. p \in Strings(m)
  BY <1>2 DEF Strings, IsString
<1>4. /\ strlen(m, p) \in Nat /\ p + strlen(m, p) <= Size
      /\ m[p + strlen(m, p)] = 0
      /\ \A a \in p .. p + strlen(m, p) - 1 : m[a] # 0
  BY <1>3, Length
<1>5. PICK k \in Nat : k = strlen(m, p)
  BY <1>4
<1>6. ~ (k < l)
  <2>1. k < l => p + k \in p .. p + l - 1
    BY <1>1, <1>5
  <2> QED BY <2>1, <1>4, <1>5
<1>7. ~ (l < k)
  <2>1. l < k => p + l \in p .. p + k - 1
    BY <1>1, <1>5
  <2> QED BY <2>1, <1>4, <1>5
<1> QED
  BY <1>3, <1>5, <1>6, <1>7

(* What is left of a text is a text.                                       *)
LEMMA Rest ==
  ASSUME NEW m \in Memories, NEW p \in Strings(m), NEW a \in p .. p + strlen(m, p)
  PROVE  a \in Strings(m) /\ strlen(m, a) = p + strlen(m, p) - a
<1>1. PICK l \in Nat : l = strlen(m, p)
  BY Length
<1>2. /\ p \in Nat \ {0} /\ p <= Size /\ Size \in Nat /\ p + l <= Size /\ m[p + l] = 0
      /\ \A b \in p .. p + l - 1 : m[b] # 0
  BY Length, <1>1
<1>3. /\ a \in Addresses /\ p + l - a \in Nat /\ a + (p + l - a) = p + l
      /\ \A b \in a .. a + (p + l - a) - 1 : b \in p .. p + l - 1
  BY <1>1, <1>2 DEF Addresses
<1>4. a \in Strings(m) /\ strlen(m, a) = p + l - a
  <2>1. PICK k \in Nat : k = p + l - a
    BY <1>3
  <2>2. a + k <= Size /\ m[a + k] = 0 /\ \A b \in a .. a + k - 1 : m[b] # 0
    BY <1>2, <1>3, <2>1
  <2> QED BY <2>1, <2>2, <1>3, LengthIs
<1> QED
  BY <1>1, <1>4
-----------------------------------------------------------------------------
LEMMA AddedIs ==
  ASSUME NEW x \in Bytes, NEW y \in Bytes
  PROVE  /\ Added(x, y) \in Bytes
         /\ Added(x, y) = y <=> x = 0
<1>1. PICK l \in Nat : l = ByteLimit /\ l > 1
  BY StringAssumption
<1>2. x \in 0 .. l - 1 /\ y \in 0 .. l - 1
  BY <1>1 DEF Bytes
<1>3. CASE x + y < l
  <2>1. (x + y) % l = x + y
    <3>1. x + y \in 0 .. l - 1 /\ x + y \in Nat /\ x + y = 0 * l + (x + y)
      BY <1>1, <1>2, <1>3
    <3> QED BY <1>1, <3>1, Euclid
  <2> QED BY <1>1, <1>2, <1>3, <2>1 DEF Added, Bytes
<1>4. CASE ~ (x + y < l)
  <2>1. (x + y) % l = x + y - l
    <3>1. x + y - l \in 0 .. l - 1 /\ x + y \in Nat /\ x + y = 1 * l + (x + y - l)
      BY <1>1, <1>2, <1>4
    <3> QED BY <1>1, <3>1, Euclid
  <2> QED BY <1>1, <1>2, <1>4, <2>1 DEF Added, Bytes
<1> QED BY <1>3, <1>4

(* The memory after the first k characters have been added to it.          *)
Summed(m, end, src, k) ==
  [a \in Addresses |->
     IF a \in end .. end + k - 1 THEN Added(m[a], m[src + a - end]) ELSE m[a]]

LEMMA SumOne ==
  ASSUME NEW m \in Memories, NEW end \in Addresses, NEW src \in Addresses, NEW k \in Nat,
         end + k <= Size
  PROVE  Summed(m, end, src, k + 1)
           = [Summed(m, end, src, k) EXCEPT ![end + k] = Added(m[end + k], m[src + k])]
<1>1. Size \in Nat /\ end \in Nat /\ src \in Nat /\ end + k \in Addresses
  BY StringAssumption DEF Addresses
<1> DEFINE v == [Summed(m, end, src, k) EXCEPT ![end + k] = Added(m[end + k], m[src + k])]
<1>2. ASSUME NEW a \in Addresses
      PROVE  Summed(m, end, src, k + 1)[a] = v[a]
  <2>0. a \in Nat
    BY DEF Addresses
  <2>1. CASE a = end + k
    <3>1. a \in end .. end + (k + 1) - 1 /\ src + a - end = src + k
      BY <1>1, <2>1
    <3> QED BY <3>1, <2>1, <1>1 DEF Summed
  <2>2. CASE a # end + k
    <3>1. a \in end .. end + (k + 1) - 1 <=> a \in end .. end + k - 1
      BY <1>1, <2>2, <2>0
    <3> QED BY <3>1, <2>2 DEF Summed
  <2> QED BY <2>1, <2>2
<1> QED BY <1>2 DEF Summed

LEMMA ConcatenateIs ==
  ASSUME NEW m \in Memories, NEW dest \in Strings(m), NEW src \in Strings(m),
         NEW n \in 0 .. strlen(m, src), NEW end \in Int, end = dest + strlen(m, dest),
         end + n <= Size
  PROVE  /\ Concatenate(m, dest, src, n) \in Memories
         /\ src + strlen(m, src) < dest \/ end + n < src
              => Concatenate(m, dest, src, n) = [Summed(m, end, src, n) EXCEPT ![end + n] = 0]
<1>0. PICK l \in Nat : l = strlen(m, src)
  BY Length
<1>1. /\ dest \in Nat \ {0} /\ src \in Nat \ {0} /\ Size \in Nat /\ n \in Nat /\ n <= l
      /\ src + l <= Size /\ dest <= end /\ end \in Nat \ {0} /\ ByteLimit \in Nat \ {0, 1}
  BY Length, <1>0, StringAssumption
<1>2. PICK w : ConcatenateRun(w, m, dest, src, n, end)
  <2>1. dest \in Int /\ src \in Int /\ src + n - 1 <= Size /\ src >= 1 /\ n \in Nat
    BY <1>1
  <2> QED BY <2>1, ConcatenateRounds
<1>3. ASSUME NEW k \in 0 .. n - 1
      PROVE  /\ w[k + 1] = [w[k] EXCEPT ![end + k] = Added(w[k][end + k], w[k][src + k])]
             /\ end + k \in Addresses /\ src + k \in Addresses
             /\ end + k <= Size /\ src + k <= Size /\ k \in Nat
  <2>1. k + 1 \in 1 .. n /\ (k + 1) - 1 = k /\ k \in Nat
    BY <1>1
  <2>2. end + k \in Addresses /\ src + k \in Addresses /\ end + k <= Size /\ src + k <= Size
    BY <1>1 DEF Addresses
  <2>3. PICK j \in 1 .. n : j = k + 1
    BY <2>1
  <2>4. w[j] = [w[j - 1] EXCEPT ![end + (j - 1)] =
                 Added(w[j - 1][end + (j - 1)], w[j - 1][src + (j - 1)])]
    BY <1>2 DEF ConcatenateRun
  <2>5. j - 1 = k
    BY <2>1, <2>3
  <2>6. w[k + 1] = [w[k] EXCEPT ![end + k] = Added(w[k][end + k], w[k][src + k])]
    BY ONLY <2>3, <2>4, <2>5
  <2> QED BY <2>1, <2>2, <2>6
<1>4. w[0] = m /\ Concatenate(m, dest, src, n) = [w[n] EXCEPT ![end + n] = 0]
  BY <1>2 DEF ConcatenateRun
<1>5. n \in 0 .. n /\ 0 \in Bytes
  BY <1>1 DEF Bytes
<1>6. Concatenate(m, dest, src, n) \in Memories
  <2> DEFINE S == {k \in 0 .. n : w[k] \in Memories}
  <2>1. 0 \in S
    BY <1>4, <1>1
  <2>2. ASSUME NEW k \in 0 .. n - 1, k \in S
        PROVE  k + 1 \in S
    <3>1. w[k][end + k] \in Nat /\ w[k][src + k] \in Nat
      <4>1. end + k \in Addresses /\ src + k \in Addresses
        BY <1>3
      <4>2. PICK u \in Memories : u = w[k]
        BY <2>2
      <4>3. u[end + k] \in Bytes /\ u[src + k] \in Bytes
        BY <4>1 DEF Memories
      <4> QED BY <4>2, <4>3, <1>1 DEF Bytes
    <3>2. Added(w[k][end + k], w[k][src + k]) \in Bytes
      BY <3>1, <1>1 DEF Bytes, Added
    <3>3. w[k + 1] \in Memories
      <4>1. PICK u \in Memories : u = w[k]
        BY <2>2
      <4>2. PICK b \in Bytes : b = Added(w[k][end + k], w[k][src + k])
        BY <3>2
      <4>3. [u EXCEPT ![end + k] = b] \in Memories
        BY DEF Memories
      <4>4. w[k + 1] = [u EXCEPT ![end + k] = b]
        BY <1>3, <4>1, <4>2
      <4> QED BY <4>3, <4>4
    <3> QED BY <3>3, <1>1
  <2>4. n \in S
    <3>1. n \in Nat
      BY <1>1
    <3> HIDE DEF S
    <3> QED BY <2>1, <2>2, <1>5, <3>1, EveryRound
  <2>5. w[n] \in Memories
    BY <2>4
  <2> QED BY <2>5, <1>4, <1>5 DEF Memories
<1>7. ASSUME src + l < dest \/ end + n < src
      PROVE  Concatenate(m, dest, src, n) = [Summed(m, end, src, n) EXCEPT ![end + n] = 0]
  <2> DEFINE S == {k \in 0 .. n : w[k] = Summed(m, end, src, k)}
  <2>0. end \in Addresses /\ src \in Addresses
    BY <1>1 DEF Addresses
  <2>1. 0 \in S
    <3>1. \A a \in Addresses : a \notin end .. end + 0 - 1
      BY <1>1 DEF Addresses
    <3>2. Summed(m, end, src, 0) = m
      BY <3>1 DEF Summed, Memories
    <3> QED BY <1>4, <1>1, <3>2
  <2>2. ASSUME NEW k \in 0 .. n - 1, k \in S
        PROVE  k + 1 \in S
    <3>1. /\ w[k + 1] = [w[k] EXCEPT ![end + k] = Added(w[k][end + k], w[k][src + k])]
          /\ end + k \in Addresses /\ src + k \in Addresses
          /\ end + k <= Size /\ src + k <= Size /\ k \in Nat
      BY <1>3
    <3>2. w[k] = Summed(m, end, src, k)
      BY <2>2
    <3>3. src + k \notin end .. end + k - 1 /\ end + k \notin end .. end + k - 1
      BY <1>1, <1>7, <3>1
    <3>4. /\ Summed(m, end, src, k)[src + k] = m[src + k]
          /\ Summed(m, end, src, k)[end + k] = m[end + k]
      BY <3>1, <3>3 DEF Summed
    <3>5. Summed(m, end, src, k + 1)
            = [Summed(m, end, src, k) EXCEPT ![end + k] = Added(m[end + k], m[src + k])]
      <4>1. k \in Nat /\ end + k <= Size
        BY <3>1
      <4> HIDE DEF S
      <4> QED BY <2>0, <4>1, SumOne
    <3>6. Added(w[k][end + k], w[k][src + k]) = Added(m[end + k], m[src + k])
      BY <3>2, <3>4
    <3>7. w[k + 1] = [w[k] EXCEPT ![end + k] = Added(m[end + k], m[src + k])]
      BY ONLY <3>1, <3>6
    <3>8. w[k + 1] = Summed(m, end, src, k + 1)
      BY ONLY <3>2, <3>5, <3>7
    <3> QED BY <3>8, <1>1
  <2>3. n \in S
    <3>1. n \in Nat
      BY <1>1
    <3> HIDE DEF S
    <3> QED BY <2>1, <2>2, <1>5, <3>1, EveryRound
  <2>4. w[n] = Summed(m, end, src, n)
    BY <2>3
  <2> QED BY <2>4, <1>4
<1> QED
  BY <1>0, <1>6, <1>7
-----------------------------------------------------------------------------
(* A character is a delimiter when the text of delimiters has it.          *)
LEMMA DelimiterIs ==
  ASSUME NEW m \in Memories, NEW delm \in Strings(m), NEW c
  PROVE  IsDelimiter(m, delm, c) <=> \E q \in Inside(m, delm) : m[q] = c
<1> DEFINE F == {p \in Inside(m, delm) : m[p] = c}
<1>1. F \subseteq Nat \ {0}
  BY Length DEF Inside
<1>2. F # {} => Min(F) # NULL
  <2> HIDE DEF F
  <2>1. F # {} => Min(F) \in F
    BY <1>1, MinOf
  <2> QED BY <1>1, <2>1 DEF NULL
<1>3. strchr(m, delm, c) = IF F = {} THEN NULL ELSE Min(F)
  BY DEF strchr, FirstOf
<1>4. IsDelimiter(m, delm, c) <=> F # {}
  <2> HIDE DEF F
  <2> QED BY <1>2, <1>3 DEF IsDelimiter
<1> QED
  BY <1>4

(* A token ends at the first delimiter, or else where the text ends.       *)
LEMMA TokenEndIs ==
  ASSUME NEW m \in Memories, NEW src \in Addresses, NEW delm, NEW from \in Nat,
         src + from \in Strings(m)
  PROVE  /\ TokenEnd(m, src, delm, from) \in from .. from + strlen(m, src + from)
         /\ TokenEnd(m, src, delm, from) <= Size - src
         /\ LET end == TokenEnd(m, src, delm, from)
            IN  /\ m[src + end] = 0 \/ IsDelimiter(m, delm, m[src + end])
                /\ \A i \in from .. end - 1 : m[src + i] # 0 /\ ~ IsDelimiter(m, delm, m[src + i])
<1> DEFINE E == {i \in from .. Size - src : m[src + i] = 0 \/ IsDelimiter(m, delm, m[src + i])}
<1>1. PICK p \in Strings(m) : p = src + from
  OBVIOUS
<1>2. PICK l \in Nat : l = strlen(m, p)
  BY Length
<1>3. /\ Size \in Nat /\ src \in Nat \ {0} /\ p + l <= Size /\ m[p + l] = 0
  BY Length, <1>2 DEF Addresses
<1>4. from + l \in from .. Size - src /\ src + (from + l) = p + l
  BY <1>1, <1>3
<1>5. from + l \in E
  BY <1>3, <1>4
<1>6. PICK e \in E : e = Min(E) /\ \A y \in E : e =< y
  <2>1. E \subseteq Nat
    BY <1>3
  <2> HIDE DEF E
  <2>2. E # {}
    BY <1>5
  <2> QED BY <2>1, <2>2, MinOf
<1>7. TokenEnd(m, src, delm, from) = e
  BY <1>6 DEF TokenEnd
<1>8. e \in from .. from + l /\ e <= Size - src
  <2>1. e =< from + l
    <3> HIDE DEF E
    <3> QED BY <1>5, <1>6
  <2> QED BY <2>1, <1>3
<1>9. ASSUME NEW i \in from .. e - 1
      PROVE  ~ (m[src + i] = 0 \/ IsDelimiter(m, delm, m[src + i]))
  <2>1. i \in from .. Size - src /\ ~ (e =< i)
    BY <1>3, <1>8
  <2>2. i \notin E
    <3> HIDE DEF E
    <3> QED BY <2>1, <1>6
  <2> QED BY <2>1, <2>2
<1>10. m[src + e] = 0 \/ IsDelimiter(m, delm, m[src + e])
  OBVIOUS
<1> QED
  BY <1>1, <1>2, <1>7, <1>8, <1>9, <1>10

(* The text at dest has become longer, and only there w differs from m.    *)
Extended(m, w, dest, src, n, end) ==
  /\ (\A a \in end .. end + n - 1 : m[a] = 0) <=>
       Text(w, dest) = Text(m, dest) \o SubSeq(Text(m, src), 1, n)
  /\ \A a \in Addresses \ (end .. end + n) : w[a] = m[a]

(* strcat and strncat append to cleared space, and to no other.            *)
LEMMA AppendIs ==
  ASSUME NEW m \in Memories, NEW dest \in Strings(m), NEW src \in Strings(m),
         NEW n \in 0 .. strlen(m, src), NEW end \in Int, end = dest + strlen(m, dest),
         end + n <= Size, src + strlen(m, src) < dest \/ end + n < src
  PROVE  Extended(m, Concatenate(m, dest, src, n), dest, src, n, end)
<1> PICK w : w = Concatenate(m, dest, src, n)
  OBVIOUS
<1>0. PICK l \in Nat, d \in Nat : l = strlen(m, src) /\ d = strlen(m, dest)
  BY Length
<1>1. /\ dest \in Nat \ {0} /\ src \in Nat \ {0} /\ Size \in Nat /\ n \in Nat /\ n <= l
      /\ src + l <= Size /\ end = dest + d /\ end \in Nat \ {0}
      /\ \A a \in src .. src + l - 1 : m[a] # 0
      /\ \A a \in dest .. dest + d - 1 : m[a] # 0
  BY Length, <1>0
<1>2. w = [Summed(m, end, src, n) EXCEPT ![end + n] = 0] /\ w \in Memories
  BY ConcatenateIs
<1>3. \A a \in Addresses \ (end .. end + n) : w[a] = m[a]
  <2>1. \A a \in Addresses \ (end .. end + n) : a \notin end .. end + n - 1 /\ a # end + n
    BY <1>1 DEF Addresses
  <2> QED BY <1>2, <2>1 DEF Summed
<1>4. ASSUME NEW i \in 1 .. d
      PROVE  w[dest + i - 1] = m[dest + i - 1] /\ w[dest + i - 1] # 0
  <2>1. /\ dest + i - 1 \in Addresses /\ dest + i - 1 \notin end .. end + n
        /\ dest + i - 1 \in dest .. dest + d - 1
    BY <1>1 DEF Addresses
  <2> QED BY <2>1, <1>1, <1>3
<1>5. ASSUME NEW j \in 1 .. n
      PROVE  /\ w[end + j - 1] = Added(m[end + j - 1], m[src + j - 1])
             /\ m[end + j - 1] \in Bytes /\ m[src + j - 1] \in Bytes
             /\ m[src + j - 1] # 0
  <2>1. /\ end + j - 1 \in Addresses /\ end + j - 1 \in end .. end + n - 1
        /\ end + j - 1 # end + n /\ src + j - 1 \in Addresses
        /\ src + (end + j - 1) - end = src + j - 1 /\ src + j - 1 \in src .. src + l - 1
    BY <1>1 DEF Addresses
  <2>2. m[end + j - 1] \in Bytes /\ m[src + j - 1] \in Bytes
    BY <2>1 DEF Memories
  <2>3. w[end + j - 1] = Summed(m, end, src, n)[end + j - 1]
    BY <2>1, <1>2 DEF Summed
  <2> QED BY <2>1, <2>2, <2>3, <1>1 DEF Summed
<1>6. w[end + n] = 0 /\ dest \in Strings(w)
  <2>1. end + n \in Addresses /\ end + n \in dest .. Size /\ dest \in Addresses
    BY <1>1 DEF Addresses
  <2>2. w[end + n] = 0
    BY <2>1, <1>2 DEF Summed
  <2> QED BY <2>1, <2>2 DEF Strings, IsString
<1> DEFINE cleared == \A a \in end .. end + n - 1 : m[a] = 0
<1>7. ASSUME cleared
      PROVE  strlen(w, dest) = d + n /\ \A j \in 1 .. n : w[end + j - 1] = m[src + j - 1]
  <2>0. ASSUME NEW j \in 1 .. n
        PROVE  w[end + j - 1] = m[src + j - 1] /\ w[end + j - 1] # 0
    <3>1. end + j - 1 \in end .. end + n - 1
      BY <1>1
    <3> QED BY <3>1, <1>5, <1>7, AddedIs
  <2>1. ASSUME NEW a \in dest .. dest + (d + n) - 1
        PROVE  w[a] # 0
    <3>1. CASE a < end
      <4>1. a - dest + 1 \in 1 .. d /\ dest + (a - dest + 1) - 1 = a
        BY <1>1, <3>1
      <4> QED BY <4>1, <1>4
    <3>2. CASE a >= end
      <4>1. a - end + 1 \in 1 .. n /\ end + (a - end + 1) - 1 = a
        BY <1>1, <3>2
      <4> QED BY <4>1, <2>0
    <3> QED BY <3>1, <3>2, <1>1
  <2>2. dest \in Addresses /\ d + n \in Nat /\ dest + (d + n) = end + n
    BY <1>1 DEF Addresses
  <2>3. PICK k \in Nat : k = d + n
    BY <2>2
  <2>4. strlen(w, dest) = d + n
    BY <2>1, <2>2, <2>3, <1>2, <1>6, LengthIs
  <2> QED BY <2>0, <2>4
<1> DEFINE A == Text(m, dest)
           B == SubSeq(Text(m, src), 1, n)
<1>8. A \in Seq(Bytes) /\ Len(A) = d /\ A = [i \in 1 .. d |-> m[dest + i - 1]]
  <2>1. ASSUME NEW i \in 1 .. d PROVE m[dest + i - 1] \in Bytes
    <3>1. dest + i - 1 \in Addresses
      <4>1. dest + d <= Size
        BY <1>0, Length
      <4> QED BY <1>1, <4>1 DEF Addresses
    <3> QED BY <3>1 DEF Memories
  <2>2. A = [i \in 1 .. d |-> m[dest + i - 1]]
    BY <1>0 DEF Text
  <2> HIDE DEF A
  <2> QED BY <2>1, <2>2
<1>9. B \in Seq(Bytes) /\ Len(B) = n /\ B = [j \in 1 .. n |-> m[src + j - 1]]
  <2>1. ASSUME NEW i \in 1 .. l PROVE m[src + i - 1] \in Bytes
    <3>1. src + i - 1 \in Addresses
      BY <1>1 DEF Addresses
    <3> QED BY <3>1 DEF Memories
  <2>2. Text(m, src) = [j \in 1 .. l |-> m[src + j - 1]] /\ Text(m, src) \in Seq(Bytes)
        /\ Len(Text(m, src)) = l
    BY <2>1, <1>0 DEF Text
  <2>3. PICK t \in Seq(Bytes) : t = Text(m, src)
    BY <2>2
  <2>4. \A j \in 1 .. n : t[j] \in Bytes /\ t[j] = m[src + j - 1]
    BY <2>1, <2>2, <2>3, <1>1
  <2>5. /\ SubSeq(t, 1, n) \in Seq(Bytes) /\ Len(SubSeq(t, 1, n)) = n
        /\ \A j \in 1 .. n : SubSeq(t, 1, n)[j] = m[src + j - 1]
    BY <2>4, <1>1, SubSeqProperties
  <2>6. SubSeq(t, 1, n) = [j \in 1 .. n |-> m[src + j - 1]]
    <3>1. PICK v \in Seq(Bytes) : v = SubSeq(t, 1, n)
      BY <2>5
    <3>2. Len(v) = n /\ \A j \in 1 .. n : v[j] = m[src + j - 1]
      BY <2>5, <3>1
    <3>3. v = [j \in 1 .. n |-> m[src + j - 1]]
      BY <3>2, <1>1
    <3> QED BY <3>1, <3>3
  <2>7. B = SubSeq(t, 1, n)
    BY <2>3
  <2> HIDE DEF B
  <2> QED BY <2>5, <2>6, <2>7
<1>10. Text(w, dest) = [i \in 1 .. strlen(w, dest) |-> w[dest + i - 1]]
  BY DEF Text
<1>11. A \o B = [i \in 1 .. d + n |-> IF i <= d THEN A[i] ELSE B[i - d]]
  <2> HIDE DEF A, B
  <2> QED BY <1>8, <1>9
<1>12. ASSUME cleared
       PROVE  Text(w, dest) = A \o B
  <2>1. strlen(w, dest) = d + n /\ \A j \in 1 .. n : w[end + j - 1] = m[src + j - 1]
    BY <1>7, <1>12
  <2>2. ASSUME NEW i \in 1 .. d + n
        PROVE  w[dest + i - 1] = IF i <= d THEN A[i] ELSE B[i - d]
    <3>1. CASE i <= d
      BY <3>1, <1>4, <1>8, <1>1
    <3>2. CASE ~ (i <= d)
      <4>1. i - d \in 1 .. n /\ end + (i - d) - 1 = dest + i - 1
        BY <3>2, <1>1
      <4>2. w[end + (i - d) - 1] = m[src + (i - d) - 1]
        BY <2>1, <4>1
      <4> HIDE DEF A, B
      <4> QED BY <4>1, <4>2, <3>2, <1>9
    <3> QED BY <3>1, <3>2
  <2> HIDE DEF A, B
  <2> QED BY <1>10, <1>11, <2>1, <2>2
<1>13. ASSUME Text(w, dest) = A \o B
       PROVE  cleared
  <2>1. PICK k \in Nat : k = strlen(w, dest)
    BY <1>2, <1>6, Length
  <2>2. [i \in 1 .. k |-> w[dest + i - 1]]
          = [i \in 1 .. d + n |-> IF i <= d THEN A[i] ELSE B[i - d]]
    <3> HIDE DEF A, B
    <3> QED BY <1>10, <1>11, <1>13, <2>1
  <2>3. 1 .. k = 1 .. d + n
    <3> HIDE DEF A, B
    <3>1. DOMAIN [i \in 1 .. k |-> w[dest + i - 1]]
            = DOMAIN [i \in 1 .. d + n |-> IF i <= d THEN A[i] ELSE B[i - d]]
      BY <2>2
    <3> QED BY <3>1
  <2>4. ASSUME NEW a \in end .. end + n - 1
        PROVE  m[a] = 0
    <3>1. PICK j \in 1 .. n : a = end + j - 1
      <4>1. a - end + 1 \in 1 .. n /\ a = end + (a - end + 1) - 1
        BY <1>1
      <4> QED BY <4>1
    <3>2. /\ d + j \in 1 .. d + n /\ ~ (d + j <= d) /\ (d + j) - d = j
          /\ dest + (d + j) - 1 = end + j - 1
      BY <1>1
    <3>3. w[dest + (d + j) - 1] = B[(d + j) - d]
      <4> HIDE DEF A, B
      <4> QED BY <2>2, <2>3, <3>2
    <3>4. B[j] = m[src + j - 1]
      <4> HIDE DEF B
      <4> QED BY <1>9
    <3>5. w[end + j - 1] = m[src + j - 1]
      <4> HIDE DEF B
      <4> QED BY <3>2, <3>3, <3>4
    <3> QED BY <3>1, <3>5, <1>5, AddedIs
  <2> QED BY <2>4
<1>14. Extended(m, w, dest, src, n, end)
  BY <1>3, <1>12, <1>13 DEF Extended
<1> QED
  BY <1>14
-----------------------------------------------------------------------------
(* The part of a text that strncat appends.                                *)
LEMMA PartOf ==
  ASSUME NEW size \in Nat, NEW l \in Nat
  PROVE  Min({size, l}) \in 0 .. l
<1>1. {size, l} \subseteq Nat /\ {size, l} # {}
  OBVIOUS
<1>2. Min({size, l}) \in {size, l} /\ \A y \in {size, l} : Min({size, l}) =< y
  <2> DEFINE S == {size, l}
  <2> HIDE DEF S
  <2>1. Min(S) \in S /\ \A y \in S : Min(S) =< y
    BY <1>1, MinOf DEF S
  <2> QED BY <2>1 DEF S
<1> QED
  BY <1>2

LEMMA AppendStep ==
  ASSUME TypeOK, NEW dest \in Strings(memory), NEW src \in Strings(memory),
         NEW n \in 0 .. strlen(memory, src), Appendable(dest, src, n),
         memory' = Concatenate(memory, dest, src, n)
  PROVE  /\ memory' \in Memories
         /\ LET end == dest + strlen(memory, dest)
            IN  /\ Clear(end, end + n - 1) <=> Text(memory', dest) = Appended(dest, src, n)
                /\ \A a \in Addresses \ (end .. end + n) : memory'[a] = memory[a]
<1>1. PICK m \in Memories : m = memory
  BY DEF TypeOK
<1>2. PICK d \in Nat : d = strlen(m, dest)
  BY <1>1, Length
<1>3. PICK end \in Int : end = dest + strlen(m, dest)
  BY <1>1, <1>2, Length
<1>4. /\ dest \in Strings(m) /\ src \in Strings(m) /\ n \in 0 .. strlen(m, src)
      /\ end + n <= Size /\ (src + strlen(m, src) < dest \/ end + n < src)
  BY <1>1, <1>3 DEF Appendable
<1>5. PICK w : w = Concatenate(m, dest, src, n)
  OBVIOUS
<1>6. memory' = w
  BY <1>1, <1>5
<1>7. w \in Memories
  BY <1>3, <1>4, <1>5, ConcatenateIs
<1>8. /\ (\A a \in end .. end + n - 1 : m[a] = 0) <=>
           Text(w, dest) = Text(m, dest) \o SubSeq(Text(m, src), 1, n)
      /\ \A a \in Addresses \ (end .. end + n) : w[a] = m[a]
  <2>1. Extended(m, Concatenate(m, dest, src, n), dest, src, n, end)
    BY <1>3, <1>4, AppendIs
  <2> QED BY <2>1, <1>5 DEF Extended
<1>9. /\ Clear(end, end + n - 1) <=> \A a \in end .. end + n - 1 : m[a] = 0
      /\ Text(m, dest) \o SubSeq(Text(m, src), 1, n) = Appended(dest, src, n)
  BY <1>1 DEF Clear, Appended
<1>10. Clear(end, end + n - 1) <=> Text(memory', dest) = Appended(dest, src, n)
  BY <1>6, <1>8, <1>9
<1>11. \A a \in Addresses \ (end .. end + n) : memory'[a] = memory[a]
  BY <1>1, <1>6, <1>8
<1>12. memory' \in Memories /\ end = dest + strlen(memory, dest)
  BY <1>1, <1>3, <1>6, <1>7
<1> QED
  BY <1>10, <1>11, <1>12, Zenon

LEMMA CopyStep ==
  ASSUME TypeOK, NEW dest \in Addresses, NEW src \in Addresses, NEW n \in Nat,
         Fits(dest, n), Fits(src, n)
  PROVE  /\ Copy(memory, dest, src, n) \in Memories
         /\ ~ Overtakes(dest, src, n) =>
              Copy(memory, dest, src, n) = Moved(memory, dest, src, n)
         /\ \A a \in Addresses \ (dest .. dest + n - 1) :
              Copy(memory, dest, src, n)[a] = memory[a]
<1>1. PICK m \in Memories : m = memory
  BY DEF TypeOK
<1> QED
  BY <1>1, CopyIs

LEMMA MoveStep ==
  ASSUME TypeOK, NEW dest \in Addresses, NEW src \in Addresses, NEW n \in Nat,
         Fits(dest, n), Fits(src, n)
  PROVE  /\ Move(memory, dest, src, n) = Moved(memory, dest, src, n)
         /\ Moved(memory, dest, src, n) \in Memories
         /\ \A a \in Addresses \ (dest .. dest + n - 1) :
              Moved(memory, dest, src, n)[a] = memory[a]
<1>1. PICK m \in Memories : m = memory
  BY DEF TypeOK
<1>2. Moved(m, dest, src, n) \in Memories
  <2>1. /\ Size \in Nat /\ dest \in Nat /\ src \in Nat /\ src + n - 1 <= Size
        /\ src >= 1
    BY StringAssumption DEF Addresses, Fits
  <2>2. ASSUME NEW a \in Addresses, a \in dest .. dest + n - 1
        PROVE  m[src + a - dest] \in Bytes
    <3>1. src + a - dest \in Addresses
      BY <2>1, <2>2 DEF Addresses
    <3> QED BY <3>1 DEF Memories
  <2> QED BY <2>2 DEF Moved, Memories
<1>3. \A a \in Addresses \ (dest .. dest + n - 1) : Moved(m, dest, src, n)[a] = m[a]
  BY DEF Moved
<1> QED
  BY <1>1, <1>2, <1>3, MoveIs

(* Of the string functions only strtok moves its index, and never further  *)
(* than right behind its block.                                            *)
LEMMA TokenStep ==
  ASSUME TypeOK, NEW src \in Addresses, NEW delm \in Addresses, NEW garbage,
         strtok(src, delm, garbage)
  PROVE  currIndex' \in 0 .. BlockSize
<1>1. PICK m \in Memories : m = memory
  BY DEF TypeOK
<1>2. PICK from \in Nat : from = currIndex
  BY BlockAssumption DEF TypeOK
<1>3. src + from \in Strings(m)
  BY <1>1, <1>2 DEF strtok
<1>4. PICK end : end = TokenEnd(m, src, delm, from)
  OBVIOUS
<1>5. end \in from .. from + strlen(m, src + from) /\ strlen(m, src + from) \in Nat
  BY <1>3, <1>4, TokenEndIs, Length
<1>6. currIndex' = currIndex \/ (currIndex' = end + 1 /\ ~ (end >= BlockSize))
  BY <1>1, <1>2, <1>4 DEF strtok, AfterToken
<1>7. currIndex' = end + 1 /\ ~ (end >= BlockSize) => currIndex' \in 0 .. BlockSize
  BY <1>5, BlockAssumption
<1> QED
  BY <1>6, <1>7 DEF TypeOK

LEMMA MemoryTypeStep ==
  ASSUME TypeOK, [NextStrings]_stringVars
  PROVE  TypeOK'
<1>0. Size \in Nat
  BY StringAssumption
<1>1. ASSUME NEW p \in Addresses, NEW q \in Addresses, strcat(p, q)
      PROVE  TypeOK'
  <2>1. PICK n \in Nat : n = strlen(memory, q)
    BY <1>1, Length DEF strcat, TypeOK
  <2>2. memory' \in Memories
    BY <1>1, <2>1, AppendStep DEF strcat
  <2> QED BY <1>1, <2>2 DEF TypeOK, strcat, Record
<1>2. ASSUME NEW p \in Addresses, NEW q \in Addresses, strcpy(p, q)
      PROVE  TypeOK'
  <2>1. PICK m \in Memories : m = memory
    BY DEF TypeOK
  <2>2. p \in Strings(m) /\ q \in Strings(m)
    BY <1>2, <2>1 DEF strcpy
  <2>3. PICK l \in Nat, k \in Nat : l = strlen(m, q) /\ k = strlen(m, p)
    BY <2>2, Length
  <2>4. p \in Nat /\ p + k <= Size /\ q \in Nat /\ q + l <= Size
    BY <2>2, <2>3, Length
  <2>5. memory' \in Memories
    <3>1. CASE k = l
      <4>1. Fits(p, l + 1) /\ Fits(q, l + 1) /\ l + 1 \in Nat
        BY <2>4, <3>1, <1>0 DEF Fits
      <4>2. memory' = Copy(memory, p, q, l + 1)
        BY <1>2, <2>1, <2>3, <3>1 DEF strcpy
      <4> QED BY <4>1, <4>2, CopyStep
    <3>2. CASE k # l
      BY <1>2, <2>1, <2>3, <3>2 DEF strcpy, TypeOK
    <3> QED BY <3>1, <3>2
  <2>6. currIndex' = currIndex /\ call'.f = "strcpy"
    BY <1>2 DEF strcpy, Record
  <2> QED BY <2>5, <2>6 DEF TypeOK
<1>3. ASSUME NEW p \in Addresses, NEW q \in Addresses, NEW size \in 0 .. Size, strncat(p, q, size)
      PROVE  TypeOK'
  <2>1. PICK l \in Nat : l = strlen(memory, q)
    BY <1>3, Length DEF strncat, TypeOK
  <2>2. PICK n \in 0 .. l : n = Min({size, strlen(memory, q)})
    BY <2>1, PartOf
  <2>3. memory' \in Memories
    BY <1>3, <2>1, <2>2, AppendStep DEF strncat
  <2> QED BY <1>3, <2>3 DEF TypeOK, strncat, Record
<1>4. ASSUME NEW p \in Addresses, NEW q \in Addresses, NEW n \in 0 .. Size,
             strncpy(p, q, n) \/ memcpy(p, q, n) \/ memmove(p, q, n)
      PROVE  TypeOK'
  <2>1. Fits(p, n) /\ Fits(q, n) /\ n \in Nat
    BY <1>4, <1>0 DEF strncpy, memcpy, memmove
  <2>2. memory' \in Memories
    BY <1>4, <2>1, CopyStep, MoveStep DEF strncpy, memcpy, memmove
  <2> QED BY <1>4, <2>2 DEF TypeOK, strncpy, memcpy, memmove, Record
<1>5. ASSUME NEW p \in Addresses, NEW c \in Bytes, NEW n \in 0 .. Size, memset(p, c, n)
      PROVE  TypeOK'
  <2>1. PICK m \in Memories : m = memory
    BY DEF TypeOK
  <2>2. n \in Nat
    BY <1>0
  <2>3. memory' = Fill(m, p, c, n)
    BY <1>5, <2>1 DEF memset
  <2>4. memory' \in Memories
    BY <2>2, <2>3, FillIs
  <2> QED BY <1>5, <2>4 DEF TypeOK, memset, Record
<1>6. ASSUME NEW p \in Addresses, NEW q \in Addresses, NEW g \in Garbage, strtok(p, q, g)
      PROVE  TypeOK'
  <2>1. currIndex' \in 0 .. BlockSize
    BY <1>6, TokenStep
  <2>2. memory' = memory /\ call'.f \in {"strtok", "overrun"}
    BY <1>6 DEF strtok, Record
  <2> QED BY <2>1, <2>2 DEF TypeOK
<1>7. CASE Return
  BY <1>7 DEF Return, TypeOK, Idle
<1>8. CASE UNCHANGED stringVars
  BY <1>8 DEF stringVars, TypeOK
<1> QED
  BY <1>1, <1>2, <1>3, <1>4, <1>5, <1>6, <1>7, <1>8 DEF NextStrings, CallOne

(* Whatever is called, in any order: the memory holds characters, and the  *)
(* index of strtok stays within the block or right behind it.              *)
THEOREM StringsTypeCorrect == StringsSpec => []TypeOK
<1>1. InitStrings => TypeOK
  BY BlockAssumption DEF InitStrings, TypeOK, Idle
<1>2. TypeOK /\ [NextStrings]_stringVars => TypeOK'
  BY MemoryTypeStep
<1> QED
  BY <1>1, <1>2, PTL DEF StringsSpec
-----------------------------------------------------------------------------
Writes ==
  /\ MovesBytes
  /\ CopiesOnlyEqualLength
  /\ FillsBytes
  /\ AppendsOnlyToClearedSpace
  /\ call'.f \in {"none", "strtok", "overrun"} => memory' = memory

LEMMA WritesStep ==
  ASSUME TypeOK, NextStrings
  PROVE  Writes
<1> DEFINE f == call'.f
<1>0. Size \in Nat
  BY StringAssumption
<1>1. ASSUME f \in {"strcat", "strncat"}, AppendsOnlyToClearedSpace
      PROVE  Writes
  BY <1>1 DEF Writes, MovesBytes, CopiesOnlyEqualLength, FillsBytes
<1>2. ASSUME f \in {"none", "strtok", "overrun"}, memory' = memory
      PROVE  Writes
  BY <1>2 DEF Writes, MovesBytes, CopiesOnlyEqualLength, FillsBytes, AppendsOnlyToClearedSpace
<1>3. ASSUME NEW p \in Strings(memory), NEW q \in Strings(memory), NEW n \in 0 .. strlen(memory, q),
             Appendable(p, q, n), memory' = Concatenate(memory, p, q, n),
             call'.dest = p, call'.src = q, call'.size = n
      PROVE  AppendsOnlyToClearedSpace
  <2>1. PICK end : end = p + strlen(memory, p)
    OBVIOUS
  <2>2. /\ Clear(end, end + n - 1) <=> Text(memory', p) = Appended(p, q, n)
        /\ \A a \in Addresses \ (end .. end + n) : memory'[a] = memory[a]
    BY <1>3, <2>1, AppendStep
  <2> QED BY <1>3, <2>1, <2>2 DEF AppendsOnlyToClearedSpace
<1>4. ASSUME NEW p \in Addresses, NEW q \in Addresses, strcat(p, q)
      PROVE  Writes
  <2>1. PICK n \in Nat : n = strlen(memory, q)
    BY <1>4, Length DEF strcat, TypeOK
  <2>2. /\ p \in Strings(memory) /\ q \in Strings(memory) /\ n \in 0 .. strlen(memory, q)
        /\ Appendable(p, q, n) /\ memory' = Concatenate(memory, p, q, n)
        /\ call'.dest = p /\ call'.src = q /\ call'.size = n /\ call'.f = "strcat"
    BY <1>4, <2>1 DEF strcat, Record
  <2>3. AppendsOnlyToClearedSpace
    BY <2>2, <1>3
  <2> QED BY <2>2, <2>3, <1>1
<1>5. ASSUME NEW p \in Addresses, NEW q \in Addresses, NEW size \in 0 .. Size, strncat(p, q, size)
      PROVE  Writes
  <2>1. PICK l \in Nat : l = strlen(memory, q)
    BY <1>5, Length DEF strncat, TypeOK
  <2>2. size \in Nat
    BY <1>0
  <2>3. PICK n \in 0 .. l : n = Min({size, strlen(memory, q)})
    BY <2>1, <2>2, PartOf
  <2>4. /\ p \in Strings(memory) /\ q \in Strings(memory) /\ n \in 0 .. strlen(memory, q)
        /\ Appendable(p, q, n) /\ memory' = Concatenate(memory, p, q, n)
        /\ call'.dest = p /\ call'.src = q /\ call'.size = n /\ call'.f = "strncat"
    BY <1>5, <2>1, <2>3 DEF strncat, Record
  <2>5. AppendsOnlyToClearedSpace
    BY <2>4, <1>3
  <2> QED BY <2>4, <2>5, <1>1
<1>6. ASSUME NEW p \in Addresses, NEW q \in Addresses, NEW n \in 0 .. Size,
             strncpy(p, q, n) \/ memcpy(p, q, n) \/ memmove(p, q, n)
      PROVE  Writes
  <2>1. Fits(p, n) /\ Fits(q, n) /\ n \in Nat
    BY <1>6, <1>0 DEF strncpy, memcpy, memmove
  <2>2. /\ call'.f \in {"strncpy", "memcpy", "memmove"}
        /\ call'.dest = p /\ call'.src = q /\ call'.size = n
        /\ call'.f = "memmove" => memory' = Move(memory, p, q, n)
        /\ call'.f # "memmove" => memory' = Copy(memory, p, q, n)
    BY <1>6 DEF strncpy, memcpy, memmove, Record
  <2>3. call'.f = "memmove" \/ ~ Overtakes(p, q, n) => memory' = Moved(memory, p, q, n)
    BY <2>1, <2>2, CopyStep, MoveStep
  <2>4. \A a \in Addresses \ (p .. p + n - 1) : memory'[a] = memory[a]
    BY <2>1, <2>2, CopyStep, MoveStep
  <2>5. Moved(memory, p, q, n) = With(p, q, n)
    BY DEF Moved, With
  <2>6. MovesBytes
    BY <2>2, <2>3, <2>4, <2>5 DEF MovesBytes
  <2> QED BY <2>2, <2>6 DEF Writes, CopiesOnlyEqualLength, FillsBytes, AppendsOnlyToClearedSpace
<1>7. ASSUME NEW p \in Addresses, NEW q \in Addresses, strcpy(p, q)
      PROVE  Writes
  <2>1. PICK m \in Memories : m = memory
    BY DEF TypeOK
  <2>2. p \in Strings(m) /\ q \in Strings(m)
    BY <1>7, <2>1 DEF strcpy
  <2>3. PICK l \in Nat, k \in Nat : l = strlen(m, q) /\ k = strlen(m, p)
    BY <2>2, Length
  <2>4. p \in Nat /\ p + k <= Size /\ q \in Nat /\ q + l <= Size
    BY <2>2, <2>3, Length
  <2>5. /\ p + (l + 1) <= q \/ q + (l + 1) <= p
        /\ call'.f = "strcpy" /\ call'.dest = p /\ call'.src = q
        /\ IF k = l THEN memory' = Copy(memory, p, q, l + 1) /\ call'.result = p
                    ELSE memory' = memory /\ call'.result = NULL
    BY <1>7, <2>1, <2>3 DEF strcpy, Record
  <2>6. k = l => memory' = With(p, q, l + 1)
    <3> SUFFICES ASSUME k = l PROVE memory' = With(p, q, l + 1)
      OBVIOUS
    <3>1. Fits(p, l + 1) /\ Fits(q, l + 1) /\ l + 1 \in Nat
      BY <2>4, <1>0 DEF Fits
    <3>2. ~ Overtakes(p, q, l + 1)
      BY <2>4, <2>5 DEF Overtakes
    <3>3. Copy(memory, p, q, l + 1) = Moved(memory, p, q, l + 1)
      BY <3>1, <3>2, CopyStep
    <3> QED BY <2>5, <3>3 DEF Moved, With
  <2>7. CopiesOnlyEqualLength
    BY <2>1, <2>3, <2>5, <2>6 DEF CopiesOnlyEqualLength
  <2> QED BY <2>5, <2>7 DEF Writes, MovesBytes, FillsBytes, AppendsOnlyToClearedSpace
<1>8. ASSUME NEW p \in Addresses, NEW c \in Bytes, NEW n \in 0 .. Size, memset(p, c, n)
      PROVE  Writes
  <2>1. PICK m \in Memories : m = memory
    BY DEF TypeOK
  <2>2. /\ memory' = Fill(m, p, c, n) /\ n \in Nat
        /\ call'.f = "memset" /\ call'.dest = p /\ call'.src = c /\ call'.size = n
        /\ call'.result = p + n
    BY <1>0, <1>8, <2>1 DEF memset, Record
  <2>3. memory' = Filled(p, c, n)
    BY <2>1, <2>2, FillIs DEF Filled
  <2>4. FillsBytes
    BY <2>2, <2>3 DEF FillsBytes
  <2> QED BY <2>2, <2>4 DEF Writes, MovesBytes, CopiesOnlyEqualLength, AppendsOnlyToClearedSpace
<1>9. ASSUME NEW p \in Addresses, NEW q \in Addresses, NEW g \in Garbage, strtok(p, q, g)
      PROVE  Writes
  <2>1. f \in {"strtok", "overrun"} /\ memory' = memory
    BY <1>9 DEF strtok, Record
  <2> QED BY <2>1, <1>2
<1>10. CASE Return
  <2>1. f = "none" /\ memory' = memory
    BY <1>10 DEF Return, Idle
  <2> QED BY <2>1, <1>2
<1> QED
  BY <1>4, <1>5, <1>6, <1>7, <1>8, <1>9, <1>10 DEF NextStrings, CallOne

(* For memories of any size: memmove moves what was there, memcpy and      *)
(* strncpy too unless the destination begins inside the source, strcpy     *)
(* copies over a text of the same length only, memset fills its block, and *)
(* strcat and strncat append what they should exactly when the space held  *)
(* zeros; no other byte changes.                                           *)
THEOREM WritesCorrect == StringsSpec => WritesExactly
<1>1. TypeOK /\ [NextStrings]_stringVars => [Writes]_stringVars
  BY WritesStep
<1> QED
  BY <1>1, StringsTypeCorrect, PTL DEF StringsSpec, WritesExactly, Writes
-----------------------------------------------------------------------------
LEMMA MinIs ==
  ASSUME NEW S, S \subseteq Nat, NEW x \in S, \A y \in S : x =< y
  PROVE  Min(S) = x
<1>1. Min(S) \in S /\ \A y \in S : Min(S) =< y
  BY MinOf
<1>2. Min(S) =< x /\ x =< Min(S) /\ Min(S) \in Nat /\ x \in Nat
  BY <1>1
<1> QED
  BY <1>2

(* The characters from one address on.                                     *)
Run(m, p, l) == [i \in 1 .. l |-> m[p + i - 1]]

LEMMA RunIs ==
  ASSUME NEW m \in Memories, NEW p \in Strings(m), NEW l \in 0 .. strlen(m, p)
  PROVE  /\ Run(m, p, l) \in Seq(Bytes) /\ Len(Run(m, p, l)) = l
         /\ \A i \in 1 .. l : Run(m, p, l)[i] = m[p + i - 1] /\ m[p + i - 1] # 0
         /\ \A k \in 0 .. l : SubSeq(Run(m, p, l), 1, k) = Run(m, p, k)
<1>1. PICK n \in Nat : n = strlen(m, p)
  BY Length
<1>2. p \in Nat \ {0} /\ \A a \in p .. p + n - 1 : m[a] # 0 /\ a \in Addresses
  BY Length, <1>1
<1>3. ASSUME NEW i \in 1 .. n
      PROVE  m[p + i - 1] \in Bytes /\ m[p + i - 1] # 0
  <2>1. p + i - 1 \in p .. p + n - 1
    BY <1>2
  <2>2. p + i - 1 \in Addresses /\ m[p + i - 1] # 0
    BY <1>2, <2>1
  <2> QED BY <2>2 DEF Memories
<1>4. l \in Nat /\ l <= n
  BY <1>1
<1>5. ASSUME NEW k \in Nat, k <= n
      PROVE  /\ Run(m, p, k) \in Seq(Bytes) /\ Len(Run(m, p, k)) = k
             /\ \A i \in 1 .. k : Run(m, p, k)[i] = m[p + i - 1]
  <2>1. \A i \in 1 .. k : m[p + i - 1] \in Bytes
    BY <1>3, <1>5
  <2> QED BY <2>1 DEF Run
<1>6. ASSUME NEW k \in 0 .. l
      PROVE  SubSeq(Run(m, p, l), 1, k) = Run(m, p, k)
  <2>1. PICK t \in Seq(Bytes) : t = Run(m, p, l)
    BY <1>4, <1>5
  <2>2. k \in Nat /\ \A i \in 1 .. k : t[i] = m[p + i - 1] /\ t[i] \in Bytes
    BY <1>3, <1>4, <1>5, <2>1
  <2>3. /\ SubSeq(t, 1, k) \in Seq(Bytes) /\ Len(SubSeq(t, 1, k)) = k
        /\ \A j \in 1 .. k : SubSeq(t, 1, k)[j] = m[p + j - 1]
    BY <2>2, SubSeqProperties
  <2>4. SubSeq(t, 1, k) = Run(m, p, k)
    BY <2>3 DEF Run
  <2> QED BY <2>1, <2>4
<1> QED
  BY <1>3, <1>4, <1>5, <1>6

LEMMA TextIsRun ==
  ASSUME NEW m \in Memories, NEW p \in Strings(m)
  PROVE  Text(m, p) = Run(m, p, strlen(m, p))
BY DEF Text, Run

(* The text up to the next delimiter.                                      *)
LEMMA BetweenIs ==
  ASSUME NEW m \in Memories, memory = m, NEW src \in Addresses, NEW delm \in Strings(m),
         NEW from \in Nat, src + from \in Strings(m)
  PROVE  Between(src, delm, from) = Run(m, src + from, TokenEnd(m, src, delm, from) - from)
<1>1. PICK p \in Strings(m) : p = src + from
  OBVIOUS
<1>2. PICK l \in Nat : l = strlen(m, p)
  BY Length
<1>3. /\ p \in Nat \ {0} /\ src \in Nat /\ p + l <= Size /\ m[p + l] = 0
      /\ \A a \in p .. p + l - 1 : m[a] # 0
  BY Length, <1>2 DEF Addresses
<1>4. PICK front \in Seq(Bytes) : front = Run(m, p, l)
  <2>1. l \in 0 .. strlen(m, p)
    BY <1>2
  <2> QED BY <2>1, RunIs
<1>5. /\ Len(front) = l /\ \A i \in 1 .. l : front[i] = m[p + i - 1]
      /\ \A k \in 0 .. l : SubSeq(front, 1, k) = Run(m, p, k)
  <2>1. l \in 0 .. strlen(m, p)
    BY <1>2
  <2> QED BY <2>1, <1>4, RunIs
<1>6. PICK end \in from .. from + l : end = TokenEnd(m, src, delm, from)
  BY <1>1, <1>2, TokenEndIs
<1>7. /\ m[src + end] = 0 \/ IsDelimiter(m, delm, m[src + end])
      /\ \A i \in from .. end - 1 : ~ IsDelimiter(m, delm, m[src + i])
  BY <1>1, <1>6, TokenEndIs
<1> DEFINE D == {n \in 0 .. l : n = l \/ \E q \in Inside(m, delm) : m[q] = front[n + 1]}
           e == end - from
<1>8. Between(src, delm, from) = SubSeq(front, 1, Min(D))
  <2>1. Text(memory, src + from) = front
    BY <1>1, <1>2, <1>4, TextIsRun
  <2> QED BY <1>5, <2>1 DEF Between
<1>9. ASSUME NEW n \in 0 .. l - 1
      PROVE  n \in D <=> IsDelimiter(m, delm, m[src + (from + n)])
  <2>1. n \in 0 .. l /\ n # l /\ n + 1 \in 1 .. l /\ p + (n + 1) - 1 = src + (from + n)
    BY <1>1, <1>3
  <2>2. front[n + 1] = m[src + (from + n)]
    BY <1>5, <2>1
  <2>3. n \in D <=> \E q \in Inside(m, delm) : m[q] = front[n + 1]
    BY <2>1
  <2> HIDE DEF D
  <2> QED BY <2>2, <2>3, DelimiterIs
<1>10. e \in 0 .. l /\ D \subseteq Nat
  BY <1>6
<1>11. e \in D
  <2>1. CASE e = l
    BY <1>10, <2>1
  <2>2. CASE e # l
    <3>1. e \in 0 .. l - 1 /\ src + (from + e) = src + end
      BY <1>10, <1>6, <2>2
    <3>2. src + end \in p .. p + l - 1
      BY <1>1, <1>3, <1>6, <2>2
    <3>3. IsDelimiter(m, delm, m[src + end])
      BY <1>3, <1>7, <3>2
    <3> HIDE DEF D, e
    <3> QED BY <3>1, <3>3, <1>9
  <2> QED BY <2>1, <2>2
<1>12. ASSUME NEW n \in D
       PROVE  e =< n
  <2>1. n \in 0 .. l
    OBVIOUS
  <2>2. ASSUME n < e PROVE FALSE
    <3>1. n \in 0 .. l - 1 /\ from + n \in from .. end - 1
      BY <1>10, <1>6, <2>1, <2>2
    <3>2. IsDelimiter(m, delm, m[src + (from + n)])
      <4> HIDE DEF D, e
      <4> QED BY <1>9, <3>1
    <3> QED BY <3>1, <3>2, <1>7
  <2> QED BY <2>1, <2>2, <1>10
<1>13. Min(D) = e
  <2> HIDE DEF D, e
  <2> QED BY <1>10, <1>11, <1>12, MinIs
<1>14. SubSeq(front, 1, e) = Run(m, p, e)
  BY <1>5, <1>10
<1> QED
  <2> HIDE DEF D
  <2> QED BY <1>1, <1>6, <1>8, <1>13, <1>14

(* Of a token that ends inside the block.                                  *)
LEMMA TokenIs ==
  ASSUME NEW m \in Memories, NEW src \in Addresses, NEW delm \in Strings(m), m[delm] # 0,
         NEW from \in Nat, src + from \in Strings(m),
         NEW garbage \in [0 .. BlockSize - 1 -> Bytes],
         ~ (TokenEnd(m, src, delm, from) >= BlockSize)
  PROVE  LET front == Run(m, src + from, TokenEnd(m, src, delm, from) - from)
             token == Token(Block(m, src, delm, from, garbage))
         IN  IsPrefix(front, token) /\ (from = 0 => token = front)
<1>1. PICK p \in Strings(m) : p = src + from
  OBVIOUS
<1>2. PICK l \in Nat : l = strlen(m, p)
  BY Length
<1>3. /\ p \in Nat \ {0} /\ src \in Nat \ {0} /\ Size \in Nat /\ p + l <= Size
  BY Length, <1>2 DEF Addresses
<1>4. PICK end \in from .. from + l : end = TokenEnd(m, src, delm, from)
  BY <1>1, <1>2, TokenEndIs
<1>5. PICK e \in 0 .. l : e = end - from
  BY <1>4
<1>6. PICK b : b = Block(m, src, delm, from, garbage)
  OBVIOUS
<1>0. PICK K \in Nat : K = BlockSize
  BY BlockAssumption
<1> DEFINE kept == {k \in 0 .. e : k = e => m[src + end] \notin {0, m[delm]}}
<1>7. b = [k \in 0 .. K - 1 |->
             IF k = end THEN 0 ELSE IF k \in kept THEN m[src + from + k] ELSE garbage[k]]
  <2>1. Stored(m, src, delm, from) = kept
    BY <1>4, <1>5 DEF Stored
  <2> HIDE DEF kept
  <2> QED BY <1>0, <1>4, <1>6, <2>1 DEF Block
<1>8. end \in Nat /\ e \in Nat /\ e <= end /\ from + e = end /\ e <= l /\ end < K
  BY <1>0, <1>4, <1>5
<1>9. ASSUME NEW k \in 0 .. K - 1
      PROVE  b[k] \in Bytes
  <2>1. garbage[k] \in Bytes /\ 0 \in Bytes
    BY <1>0, StringAssumption DEF Bytes
  <2>2. CASE k \in kept
    <3>1. src + from + k \in Addresses
      BY <1>1, <1>3, <1>8, <2>2 DEF Addresses
    <3>2. m[src + from + k] \in Bytes
      BY <3>1 DEF Memories
    <3> HIDE DEF kept
    <3> QED BY <2>1, <3>2, <1>7
  <2>3. CASE k \notin kept
    <3> HIDE DEF kept
    <3> QED BY <2>1, <2>3, <1>7
  <2> QED BY <2>2, <2>3
<1>10. b[end] = 0 /\ DOMAIN b = 0 .. K - 1
  BY <1>7, <1>8
<1>11. ASSUME NEW k \in 0 .. e - 1
       PROVE  b[k] = m[p + k] /\ m[p + k] # 0
  <2>1. k \in 0 .. K - 1 /\ k # end /\ k \in kept
    BY <1>8
  <2>2. b[k] = m[src + from + k]
    <3> HIDE DEF kept
    <3> QED BY <1>7, <2>1
  <2>3. k + 1 \in 1 .. l /\ p + (k + 1) - 1 = p + k
    BY <1>8, <1>3
  <2>4. m[p + (k + 1) - 1] # 0
    <3>1. l \in 0 .. strlen(m, p)
      BY <1>2
    <3> QED BY <2>3, <3>1, RunIs
  <2> QED BY <2>2, <2>3, <2>4, <1>1
<1> DEFINE Z == {k \in DOMAIN b : b[k] = 0}
<1>12. PICK t \in Z : t = Min(Z) /\ \A y \in Z : t =< y
  <2>1. Z \subseteq Nat /\ end \in Z
    BY <1>8, <1>10
  <2> HIDE DEF Z
  <2> QED BY <2>1, MinOf
<1>13. t \in 0 .. end /\ b[t] = 0
  <2>1. end \in Z /\ t \in 0 .. K - 1 /\ b[t] = 0
    BY <1>10, <1>8
  <2>2. t =< end
    <3> HIDE DEF Z
    <3> QED BY <2>1, <1>12
  <2> QED BY <2>1, <2>2, <1>8
<1>14. e <= t
  <2>1. t < e => t \in 0 .. e - 1
    BY <1>13, <1>8
  <2> QED BY <2>1, <1>11, <1>13, <1>8
<1>15. from = 0 => t = e
  <2>1. end \in Z
    BY <1>10, <1>8
  <2>2. t =< end
    <3> HIDE DEF Z
    <3> QED BY <2>1, <1>12
  <2> QED BY <2>2, <1>14, <1>13, <1>8
<1>16. Token(b) = [i \in 1 .. t |-> b[i - 1]]
  BY <1>12 DEF Token
<1>17. PICK token : token = Token(b)
  OBVIOUS
<1>18. token \in Seq(Bytes) /\ Len(token) = t /\ \A i \in 1 .. t : token[i] = b[i - 1]
  <2>1. \A i \in 1 .. t : b[i - 1] \in Bytes
    BY <1>8, <1>9, <1>13
  <2>2. t \in Nat
    BY <1>13
  <2> QED BY <2>1, <2>2, <1>16, <1>17
<1>19. PICK front \in Seq(Bytes) : front = Run(m, p, e)
  BY <1>2, RunIs
<1>20. Len(front) = e /\ SubSeq(front, 1, e) = front /\ front = [i \in 1 .. e |-> m[p + i - 1]]
  <2>1. e \in 0 .. strlen(m, p) /\ e \in 0 .. e
    BY <1>2, <1>8
  <2> QED BY <2>1, <1>19, RunIs DEF Run
<1>21. ASSUME NEW i \in 1 .. e
       PROVE  token[i] = m[p + i - 1] /\ m[p + i - 1] \in Bytes
  <2>1. i - 1 \in 0 .. e - 1 /\ i \in 1 .. t /\ p + (i - 1) = p + i - 1
    BY <1>8, <1>13, <1>14, <1>3
  <2>2. i - 1 \in 0 .. K - 1
    BY <2>1, <1>8
  <2> QED BY <2>1, <2>2, <1>9, <1>11, <1>18
<1>22. SubSeq(token, 1, e) = front
  <2>1. \A i \in 1 .. e : token[i] \in Bytes
    BY <1>21
  <2>2. /\ SubSeq(token, 1, e) \in Seq(Bytes) /\ Len(SubSeq(token, 1, e)) = e
        /\ \A i \in 1 .. e : SubSeq(token, 1, e)[i] = token[i]
    BY <2>1, <1>8, SubSeqProperties
  <2>3. SubSeq(token, 1, e) = [i \in 1 .. e |-> m[p + i - 1]]
    BY <2>2, <1>21
  <2> QED BY <2>3, <1>20
<1>23. IsPrefix(front, token)
  BY <1>14, <1>18, <1>20, <1>22 DEF IsPrefix
<1>24. from = 0 => token = front
  BY <1>15, <1>18, <1>20, <1>21
<1> QED
  BY <1>1, <1>4, <1>5, <1>6, <1>17, <1>19, <1>23, <1>24

Tokens ==
  LET front == Between(call'.dest, call'.src, currIndex)
      end  == currIndex + Len(front)
  IN  call'.f \in {"strtok", "overrun"} /\ memory[call'.dest + currIndex] # 0 =>
        /\ call'.f = "overrun" <=> end >= BlockSize
        /\ call'.f = "strtok" =>
             /\ currIndex' = end + 1
             /\ memory[call'.src] # 0 =>
                  /\ IsPrefix(front, call'.result)
                  /\ currIndex = 0 => call'.result = front

LEMMA TokensStep ==
  ASSUME TypeOK, NextStrings
  PROVE  Tokens
<1> SUFFICES ASSUME call'.f \in {"strtok", "overrun"}, memory[call'.dest + currIndex] # 0
             PROVE  Tokens
  BY DEF Tokens
<1>1. PICK p \in Addresses, q \in Addresses, g \in Garbage : strtok(p, q, g)
  <2>1. CallOne
    BY DEF NextStrings, Return, Idle
  <2>2. ASSUME NEW p \in Addresses, NEW q \in Addresses, NEW n \in 0 .. Size
        PROVE  ~ (\/ strcat(p, q) \/ strcpy(p, q) \/ strncat(p, q, n)
                  \/ strncpy(p, q, n) \/ memcpy(p, q, n) \/ memmove(p, q, n))
    BY DEF strcat, strcpy, strncat, strncpy, memcpy, memmove, Record
  <2>3. ASSUME NEW p \in Addresses, NEW c \in Bytes, NEW n \in 0 .. Size
        PROVE  ~ memset(p, c, n)
    BY DEF memset, Record
  <2>4. 0 \in 0 .. Size
    BY StringAssumption
  <2> QED BY <2>1, <2>2, <2>3, <2>4 DEF CallOne
<1>2. PICK m \in Memories : m = memory
  BY DEF TypeOK
<1>3. PICK from \in Nat : from = currIndex
  BY BlockAssumption DEF TypeOK
<1>4. q \in Strings(m) /\ p + from \in Strings(m)
  BY <1>1, <1>2, <1>3 DEF strtok
<1>5. PICK end \in from .. from + strlen(m, p + from) : end = TokenEnd(m, p, q, from)
  BY <1>4, TokenEndIs
<1>6. call'.dest = p /\ call'.src = q
  BY <1>1 DEF strtok, Record
<1>7. /\ end >= BlockSize => call'.f = "overrun"
      /\ ~ (end >= BlockSize) =>
           /\ call'.f = "strtok" /\ currIndex' = end + 1
           /\ call'.result = Token(Block(m, p, q, from, g))
  <2>1. m[p + from] # 0
    BY <1>2, <1>3, <1>6
  <2> QED BY <1>1, <1>2, <1>3, <1>5, <2>1 DEF strtok, Record, AfterToken
<1>8. PICK front : front = Run(m, p + from, end - from)
  OBVIOUS
<1>9. Between(p, q, from) = front
  BY <1>2, <1>4, <1>5, <1>8, BetweenIs
<1>10. from + Len(front) = end
  <2>1. strlen(m, p + from) \in Nat
    BY <1>4, Length
  <2>2. end - from \in 0 .. strlen(m, p + from)
    BY <1>5, <2>1
  <2>3. Len(front) = end - from
    BY <1>4, <1>8, <2>2, RunIs
  <2> QED BY <1>5, <2>1, <2>3
<1>11. PICK token : token = Token(Block(m, p, q, from, g))
  OBVIOUS
<1>12. ~ (end >= BlockSize) /\ m[q] # 0 => IsPrefix(front, token) /\ (from = 0 => token = front)
  <2>1. g \in [0 .. BlockSize - 1 -> Bytes]
    BY BlockAssumption DEF Bytes
  <2> QED BY <1>4, <1>5, <1>8, <1>11, <2>1, TokenIs
<1> QED
  BY <1>2, <1>3, <1>6, <1>7, <1>9, <1>10, <1>11, <1>12 DEF Tokens

(* Counted from the index that the calls before have left, whatever string *)
(* they were given: a call passes over the text up to the next delimiter   *)
(* and what ends it, the token begins with that text, and is exactly it    *)
(* while no token came before, and the block is overrun exactly when the   *)
(* text ends at an index outside it.  This holds whatever the string, the  *)
(* size of the block and what malloc left in it.                           *)
THEOREM TokensCorrect == StringsSpec => TokensBeginRight
<1>1. TypeOK /\ [NextStrings]_stringVars => [Tokens]_stringVars
  BY TokensStep
<1> QED
  BY <1>1, StringsTypeCorrect, PTL DEF StringsSpec, TokensBeginRight, Tokens
-----------------------------------------------------------------------------
(* What the functions that read return.                                    *)
LEMMA FirstIs ==
  ASSUME NEW S, S \subseteq Nat, NEW none
  PROVE  \/ S = {} /\ FirstOf(S, none) = none
         \/ FirstOf(S, none) \in S /\ \A y \in S : FirstOf(S, none) =< y
BY MinOf DEF FirstOf

(* c is one of the characters of the text at q.                            *)
Has(m, q, c) == \E r \in Inside(m, q) : m[r] = c

LEMMA SpansAre ==
  ASSUME NEW m \in Memories, NEW p \in Strings(m), NEW q \in Strings(m),
         NEW l \in Nat, l = strlen(m, p)
  PROVE  /\ strspn(m, p, q) \in 0 .. l /\ strcspn(m, p, q) \in 0 .. l
         /\ \A n \in 0 .. l - 1 :
              /\ n < strspn(m, p, q) => Has(m, q, m[p + n])
              /\ n = strspn(m, p, q) => ~ Has(m, q, m[p + n])
              /\ n < strcspn(m, p, q) => ~ Has(m, q, m[p + n])
              /\ n = strcspn(m, p, q) => Has(m, q, m[p + n])
<1> DEFINE A == {n \in 0 .. l - 1 : \A r \in Inside(m, q) : m[r] # m[p + n]}
           R == {n \in 0 .. l - 1 : strchr(m, q, m[p + n]) # NULL}
<1>1. strspn(m, p, q) = FirstOf(A, l) /\ strcspn(m, p, q) = FirstOf(R, l)
  BY DEF strspn, strcspn
<1>2. ASSUME NEW n \in 0 .. l - 1
      PROVE  (n \in A <=> ~ Has(m, q, m[p + n])) /\ (n \in R <=> Has(m, q, m[p + n]))
  <2>1. n \in A <=> ~ Has(m, q, m[p + n])
    BY DEF Has
  <2>2. n \in R <=> Has(m, q, m[p + n])
    BY DelimiterIs DEF Has, IsDelimiter
  <2> QED BY <2>1, <2>2
<1>3. A \subseteq 0 .. l - 1 /\ R \subseteq 0 .. l - 1
  OBVIOUS
<1> HIDE DEF A, R
<1>4. PICK a : a = FirstOf(A, l)
  OBVIOUS
<1>5. PICK r : r = FirstOf(R, l)
  OBVIOUS
<1>6. \/ A = {} /\ a = l
      \/ a \in A /\ \A y \in A : a =< y
  <2>1. A \subseteq Nat
    BY <1>3
  <2> QED BY <2>1, <1>4, FirstIs
<1>7. \/ R = {} /\ r = l
      \/ r \in R /\ \A y \in R : r =< y
  <2>1. R \subseteq Nat
    BY <1>3
  <2> QED BY <2>1, <1>5, FirstIs
<1>8. a \in 0 .. l /\ r \in 0 .. l
  <2>1. a = l \/ a \in 0 .. l - 1
    BY <1>3, <1>6
  <2>2. r = l \/ r \in 0 .. l - 1
    BY <1>3, <1>7
  <2> QED BY <2>1, <2>2
<1>9. ASSUME NEW n \in 0 .. l - 1
      PROVE  /\ n < a => n \notin A
             /\ n = a => n \in A
             /\ n < r => n \notin R
             /\ n = r => n \in R
  BY <1>6, <1>7, <1>8
<1> QED
  BY <1>1, <1>2, <1>4, <1>5, <1>8, <1>9

LEMMA SearchesAre ==
  ASSUME NEW m \in Memories, NEW p \in Strings(m), NEW q \in Strings(m)
  PROVE  LET accepted == strspn(m, p, q)
             rejected == strcspn(m, p, q)
             length   == strlen(m, p)
             c        == m[q]
         IN  /\ length > 0 => (accepted = 0) # (rejected = 0)
             /\ strpbrk(m, p, q) = IF rejected = length THEN NULL ELSE p + rejected
             /\ strcspn(m, p + accepted, q) = 0 => accepted = length
             /\ strspn(m, p + rejected, q) = 0 => rejected = length
             /\ strchr(m, p, c) = memchr(m, p, c, length)
             /\ strrchr(m, p, c) # NULL =>
                  /\ strchr(m, p, c) \in p .. strrchr(m, p, c)
                  /\ strchr(m, strrchr(m, p, c) + 1, c) = NULL
<1>1. PICK l \in Nat : l = strlen(m, p)
  BY Length
<1>2. /\ p \in Nat \ {0} /\ Size \in Nat /\ p + l <= Size /\ Inside(m, p) = p .. p + l - 1
      /\ Inside(m, p) \subseteq Nat \ {0}
  BY Length, <1>1 DEF Inside
<1>3. PICK a \in 0 .. l : a = strspn(m, p, q)
  BY <1>1, SpansAre
<1>4. PICK r \in 0 .. l : r = strcspn(m, p, q)
  BY <1>1, SpansAre
<1>5. ASSUME NEW n \in 0 .. l - 1
      PROVE  /\ n < a => Has(m, q, m[p + n])
             /\ n = a => ~ Has(m, q, m[p + n])
             /\ n < r => ~ Has(m, q, m[p + n])
             /\ n = r => Has(m, q, m[p + n])
  BY <1>1, <1>3, <1>4, SpansAre
<1>6. ASSUME l > 0
      PROVE  (a = 0) # (r = 0)
  <2>1. 0 \in 0 .. l - 1
    BY <1>6
  <2>2. /\ 0 < a => Has(m, q, m[p + 0])
        /\ 0 = a => ~ Has(m, q, m[p + 0])
        /\ 0 < r => ~ Has(m, q, m[p + 0])
        /\ 0 = r => Has(m, q, m[p + 0])
    BY <1>5, <2>1
  <2>3. a = 0 <=> ~ (r = 0)
    BY <2>2
  <2> QED BY <2>3
<1>7. strpbrk(m, p, q) = IF r = l THEN NULL ELSE p + r
  <2> DEFINE S == {x \in Inside(m, p) : strchr(m, q, m[x]) # NULL}
  <2>1. strpbrk(m, p, q) = FirstOf(S, NULL)
    BY DEF strpbrk
  <2>2. ASSUME NEW x \in p .. p + l - 1
        PROVE  x \in S <=> Has(m, q, m[x])
    BY <1>2, DelimiterIs DEF Has, IsDelimiter
  <2>3. S \subseteq Inside(m, p)
    OBVIOUS
  <2> HIDE DEF S
  <2>4. CASE r = l
    <3>1. ASSUME NEW x \in S PROVE FALSE
      <4>1. x - p \in 0 .. l - 1 /\ x - p < r /\ p + (x - p) = x /\ x \in p .. p + l - 1
        BY <1>2, <2>3, <2>4
      <4>2. ~ Has(m, q, m[x])
        BY <1>5, <4>1
      <4> QED BY <2>2, <4>1, <4>2
    <3>2. S = {}
      BY <3>1
    <3> QED BY <2>1, <2>4, <3>2 DEF FirstOf
  <2>5. CASE r # l
    <3>1. r \in 0 .. l - 1 /\ p + r \in p .. p + l - 1
      BY <1>2, <2>5
    <3>2. p + r \in S
      BY <1>5, <2>2, <3>1
    <3>3. ASSUME NEW x \in S
          PROVE  p + r =< x
      <4>1. x - p \in 0 .. l - 1 /\ p + (x - p) = x /\ x \in p .. p + l - 1
        BY <1>2, <2>3
      <4>2. Has(m, q, m[x])
        BY <2>2, <4>1
      <4>3. ~ (x - p < r)
        BY <1>5, <4>1, <4>2
      <4> QED BY <4>1, <4>3, <1>2
    <3>4. Min(S) = p + r
      <4>1. S \subseteq Nat
        BY <1>2, <2>3
      <4>2. PICK x \in S : x = p + r
        BY <3>2
      <4>3. \A y \in S : x =< y
        BY <3>3, <4>2
      <4>4. Min(S) = x
        BY ONLY <4>1, <4>3, MinIs
      <4> QED BY <4>2, <4>4
    <3>5. S # {}
      BY <3>2
    <3> QED BY <2>1, <2>5, <3>4, <3>5 DEF FirstOf
  <2> QED BY <2>4, <2>5
<1>8. ASSUME NEW n \in 0 .. l - 1
      PROVE  /\ p + n \in Strings(m) /\ strlen(m, p + n) = l - n
             /\ 0 \in 0 .. (l - n) - 1 /\ l - n \in Nat /\ (p + n) + 0 = p + n
  <2>1. p + n \in p .. p + strlen(m, p)
    BY <1>1, <1>2
  <2>2. p + n \in Strings(m) /\ strlen(m, p + n) = p + strlen(m, p) - (p + n)
    BY <2>1, Rest
  <2>3. p + strlen(m, p) - (p + n) = l - n /\ l - n \in Nat /\ 0 \in 0 .. (l - n) - 1
        /\ (p + n) + 0 = p + n
    BY <1>1, <1>2
  <2> QED BY ONLY <2>2, <2>3
<1>9. strcspn(m, p + a, q) = 0 => a = l
  <2> SUFFICES ASSUME a # l, strcspn(m, p + a, q) = 0 PROVE FALSE
    OBVIOUS
  <2>1. a \in 0 .. l - 1
    OBVIOUS
  <2>2. ~ Has(m, q, m[p + a])
    BY <1>5, <2>1
  <2>3. PICK k \in Nat : k = l - a /\ k = strlen(m, p + a) /\ 0 \in 0 .. k - 1
    BY <1>8, <2>1
  <2>4. Has(m, q, m[(p + a) + 0])
    BY <1>8, <2>1, <2>3, SpansAre
  <2> QED BY <2>2, <2>4, <1>8, <2>1
<1>10. strspn(m, p + r, q) = 0 => r = l
  <2> SUFFICES ASSUME r # l, strspn(m, p + r, q) = 0 PROVE FALSE
    OBVIOUS
  <2>1. r \in 0 .. l - 1
    OBVIOUS
  <2>2. Has(m, q, m[p + r])
    BY <1>5, <2>1
  <2>3. PICK k \in Nat : k = l - r /\ k = strlen(m, p + r) /\ 0 \in 0 .. k - 1
    BY <1>8, <2>1
  <2>4. ~ Has(m, q, m[(p + r) + 0])
    BY <1>8, <2>1, <2>3, SpansAre
  <2> QED BY <2>2, <2>4, <1>8, <2>1
<1>11. strchr(m, p, m[q]) = memchr(m, p, m[q], l)
  BY <1>2 DEF strchr, memchr
<1>12. ASSUME NEW c, strrchr(m, p, c) # NULL
       PROVE  /\ strchr(m, p, c) \in p .. strrchr(m, p, c)
              /\ strchr(m, strrchr(m, p, c) + 1, c) = NULL
  <2> DEFINE F == {x \in Inside(m, p) : m[x] = c}
  <2>1. F # {} /\ strrchr(m, p, c) = Max(F) /\ strchr(m, p, c) = Min(F)
    BY <1>12 DEF strrchr, strchr, FirstOf
  <2>2. F \in SUBSET (1 .. Size) /\ F \subseteq Nat /\ F \subseteq Inside(m, p)
    BY <1>2
  <2>3. PICK x \in F : x = Max(F) /\ \A y \in F : y =< x
    <3> HIDE DEF F
    <3> QED BY <2>1, <2>2, <1>2, MaxOf
  <2>4. PICK y \in F : y = Min(F) /\ y =< x
    <3> HIDE DEF F
    <3> QED BY <2>1, <2>2, <2>3, MinOf
  <2>5. y \in p .. x
    <3> HIDE DEF F
    <3>1. x \in p .. p + l - 1 /\ y \in p .. p + l - 1
      BY <2>2, <1>2
    <3> QED BY <3>1, <2>4, <1>2
  <2>6. strchr(m, x + 1, c) = NULL
    <3>1. x \in p .. p + l - 1 /\ x \in Nat
      BY <1>2
    <3>2. x + 1 \in p .. p + strlen(m, p)
      BY <3>1, <1>1, <1>2
    <3>3. x + 1 \in Strings(m) /\ strlen(m, x + 1) = p + strlen(m, p) - (x + 1)
      BY <3>2, Rest
    <3>4. Inside(m, x + 1) = x + 1 .. p + l - 1
      <4>1. (x + 1) + (p + l - (x + 1)) - 1 = p + l - 1
        BY <3>1, <1>2
      <4> QED BY <4>1, <3>3, <1>1 DEF Inside
    <3>5. ASSUME NEW z \in x + 1 .. p + l - 1, m[z] = c
          PROVE  FALSE
      <4>1. z \in F /\ ~ (z =< x)
        BY <3>1, <3>5, <1>2
      <4> HIDE DEF F
      <4> QED BY <4>1, <2>3
    <3>6. {z \in Inside(m, x + 1) : m[z] = c} = {}
      BY <3>4, <3>5
    <3> QED BY <3>6 DEF strchr, FirstOf
  <2> HIDE DEF F
  <2> QED BY <2>1, <2>3, <2>4, <2>5, <2>6
<1> QED
  BY <1>1, <1>3, <1>4, <1>6, <1>7, <1>9, <1>10, <1>11, <1>12
-----------------------------------------------------------------------------
(* The dictionary.  d is the first place where two texts differ, or where  *)
(* the shorter one ends.                                                   *)
Parts(m, p, q, a, b, d) ==
  /\ a <= strlen(m, p) /\ b <= strlen(m, q) /\ d <= a /\ d <= b
  /\ \A i \in 0 .. d - 1 : m[p + i] = m[q + i]
  /\ d = a \/ d = b \/ m[p + d] # m[q + d]

LEMMA RunsAgree ==
  ASSUME NEW m \in Memories, NEW p \in Strings(m), NEW q \in Strings(m),
         NEW k \in Nat, k <= strlen(m, p), k <= strlen(m, q)
  PROVE  Run(m, p, k) = Run(m, q, k) <=> \A i \in 0 .. k - 1 : m[p + i] = m[q + i]
<1>1. /\ k \in 0 .. strlen(m, p) /\ k \in 0 .. strlen(m, q)
      /\ p \in Nat /\ q \in Nat
  BY Length
<1>2. /\ \A i \in 1 .. k : Run(m, p, k)[i] = m[p + i - 1]
      /\ \A i \in 1 .. k : Run(m, q, k)[i] = m[q + i - 1]
  BY <1>1, RunIs
<1>3. ASSUME Run(m, p, k) = Run(m, q, k), NEW i \in 0 .. k - 1
      PROVE  m[p + i] = m[q + i]
  <2>1. i + 1 \in 1 .. k /\ p + (i + 1) - 1 = p + i /\ q + (i + 1) - 1 = q + i
    BY <1>1
  <2> QED BY <2>1, <1>2, <1>3
<1>4. ASSUME \A i \in 0 .. k - 1 : m[p + i] = m[q + i]
      PROVE  Run(m, p, k) = Run(m, q, k)
  <2>1. ASSUME NEW i \in 1 .. k
        PROVE  m[p + i - 1] = m[q + i - 1]
    <3>1. i - 1 \in 0 .. k - 1 /\ p + (i - 1) = p + i - 1 /\ q + (i - 1) = q + i - 1
      BY <1>1
    <3> QED BY <3>1, <1>4
  <2> QED BY <2>1 DEF Run
<1> QED
  BY <1>3, <1>4

LEMMA PrecedesIs ==
  ASSUME NEW m \in Memories, NEW p \in Strings(m), NEW q \in Strings(m),
         NEW a \in Nat, NEW b \in Nat, NEW d \in Nat, Parts(m, p, q, a, b, d)
  PROVE  Precedes(Run(m, p, a), Run(m, q, b))
           <=> \/ d < a /\ d < b /\ m[p + d] < m[q + d]
               \/ d = a /\ a < b
<1>0. PICK s : s = Run(m, p, a)
  OBVIOUS
<1>1. PICK t : t = Run(m, q, b)
  OBVIOUS
<1>2. /\ a \in 0 .. strlen(m, p) /\ b \in 0 .. strlen(m, q) /\ p \in Nat /\ q \in Nat
      /\ strlen(m, p) \in Nat /\ strlen(m, q) \in Nat
  BY Length DEF Parts
<1>3. /\ Len(s) = a /\ Len(t) = b
      /\ \A i \in 1 .. a : s[i] = m[p + i - 1]
      /\ \A i \in 1 .. b : t[i] = m[q + i - 1]
      /\ \A k \in 0 .. a : SubSeq(s, 1, k) = Run(m, p, k)
      /\ \A k \in 0 .. b : SubSeq(t, 1, k) = Run(m, q, k)
  BY <1>0, <1>1, <1>2, RunIs
<1>4. ASSUME NEW i \in 1 .. b, i <= a + 1
      PROVE  SubSeq(s, 1, i - 1) = SubSeq(t, 1, i - 1)
               <=> \A j \in 0 .. i - 2 : m[p + j] = m[q + j]
  <2>1. PICK k \in Nat : k = i - 1
    OBVIOUS
  <2>2. /\ k \in 0 .. a /\ k \in 0 .. b /\ k <= strlen(m, p) /\ k <= strlen(m, q)
        /\ k - 1 = i - 2
    BY <1>2, <1>4, <2>1
  <2>3. Run(m, p, k) = Run(m, q, k) <=> \A j \in 0 .. k - 1 : m[p + j] = m[q + j]
    BY <2>2, RunsAgree
  <2> QED BY <1>3, <2>1, <2>2, <2>3
<1>5. Precedes(s, t) <=>
        \E i \in 1 .. b :
          /\ i <= a + 1 /\ SubSeq(s, 1, i - 1) = SubSeq(t, 1, i - 1)
          /\ i <= a => s[i] < t[i]
  BY <1>3 DEF Precedes
<1>6. ASSUME NEW i \in 1 .. b, i <= a + 1, SubSeq(s, 1, i - 1) = SubSeq(t, 1, i - 1),
             i <= a => s[i] < t[i]
      PROVE  \/ d < a /\ d < b /\ m[p + d] < m[q + d]
             \/ d = a /\ a < b
  <2>1. \A j \in 0 .. i - 2 : m[p + j] = m[q + j]
    BY <1>4, <1>6
  <2>2. ~ (d < i - 1)
    <3>1. d < i - 1 => d \in 0 .. i - 2 /\ d # a /\ d # b
      BY <1>6
    <3> QED BY <2>1, <3>1 DEF Parts
  <2>3. ~ (i - 1 < d)
    <3> SUFFICES ASSUME i - 1 < d PROVE FALSE
      OBVIOUS
    <3>1. i - 1 \in 0 .. d - 1 /\ i \in 1 .. a /\ p + i - 1 = p + (i - 1) /\ q + i - 1 = q + (i - 1)
      BY <1>2 DEF Parts
    <3>2. m[p + (i - 1)] = m[q + (i - 1)]
      BY <3>1 DEF Parts
    <3>3. s[i] = t[i]
      BY <3>1, <3>2, <1>3
    <3>4. m[p + (i - 1)] \in Nat
      <4>1. i \in 1 .. a /\ i \in 1 .. strlen(m, p)
        BY <3>1, <1>2
      <4>2. p + (i - 1) \in p .. p + strlen(m, p) - 1
        BY <4>1, <1>2
      <4>3. p + (i - 1) \in Addresses
        BY <4>2, Length
      <4> QED BY <4>3, StringAssumption DEF Memories, Bytes
    <3>5. s[i] \in Nat /\ t[i] \in Nat
      BY <3>1, <3>3, <3>4, <1>3
    <3>6. s[i] < t[i]
      BY <3>1, <1>6
    <3> QED BY ONLY <3>3, <3>5, <3>6
  <2>4. d = i - 1 /\ d < b
    BY <2>2, <2>3
  <2>5. CASE d = a
    BY <2>4, <2>5
  <2>6. CASE d # a
    <3>1. d < a /\ i \in 1 .. a /\ p + i - 1 = p + d /\ q + i - 1 = q + d
      BY <2>4, <2>6, <1>2 DEF Parts
    <3>2. s[i] < t[i]
      BY <3>1, <1>6
    <3>3. s[i] = m[p + d] /\ t[i] = m[q + d]
      BY <3>1, <1>3
    <3> QED BY <3>1, <3>2, <3>3, <2>4
  <2> QED BY <2>5, <2>6
<1>7. ASSUME \/ d < a /\ d < b /\ m[p + d] < m[q + d]
             \/ d = a /\ a < b
      PROVE  \E i \in 1 .. b :
               /\ i <= a + 1 /\ SubSeq(s, 1, i - 1) = SubSeq(t, 1, i - 1)
               /\ i <= a => s[i] < t[i]
  <2>1. /\ d + 1 \in 1 .. b /\ d + 1 <= a + 1 /\ (d + 1) - 2 = d - 1
        /\ p + (d + 1) - 1 = p + d /\ q + (d + 1) - 1 = q + d
    BY <1>7, <1>2 DEF Parts
  <2>2. \A j \in 0 .. (d + 1) - 2 : m[p + j] = m[q + j]
    BY <2>1 DEF Parts
  <2>3. SubSeq(s, 1, (d + 1) - 1) = SubSeq(t, 1, (d + 1) - 1)
    BY <2>1, <2>2, <1>4
  <2>4. d + 1 <= a => s[d + 1] < t[d + 1]
    <3> SUFFICES ASSUME d + 1 <= a PROVE s[d + 1] < t[d + 1]
      OBVIOUS
    <3>1. d + 1 \in 1 .. a /\ d < a /\ d # a
      OBVIOUS
    <3>2. m[p + d] < m[q + d]
      BY <3>1, <1>7
    <3> QED BY <3>1, <3>2, <2>1, <1>3
  <2> QED BY <2>1, <2>3, <2>4
<1> QED
  BY <1>0, <1>1, <1>5, <1>6, <1>7

LEMMA EqualIs ==
  ASSUME NEW m \in Memories, NEW p \in Strings(m), NEW q \in Strings(m),
         NEW a \in Nat, NEW b \in Nat, NEW d \in Nat, Parts(m, p, q, a, b, d)
  PROVE  Run(m, p, a) = Run(m, q, b) <=> d = a /\ d = b
<1>1. /\ a \in 0 .. strlen(m, p) /\ b \in 0 .. strlen(m, q) /\ p \in Nat /\ q \in Nat
      /\ strlen(m, p) \in Nat /\ strlen(m, q) \in Nat
  BY Length DEF Parts
<1>2. Len(Run(m, p, a)) = a /\ Len(Run(m, q, b)) = b
  BY <1>1, RunIs
<1>3. CASE a = b
  <2>1. a <= strlen(m, p) /\ a <= strlen(m, q)
    BY <1>3 DEF Parts
  <2>2. Run(m, p, a) = Run(m, q, a) <=> \A i \in 0 .. a - 1 : m[p + i] = m[q + i]
    BY <2>1, RunsAgree
  <2>3. ASSUME \A i \in 0 .. a - 1 : m[p + i] = m[q + i]
        PROVE  d = a
    <3>1. d # a => d \in 0 .. a - 1
      BY DEF Parts
    <3> QED BY <3>1, <2>3, <1>3 DEF Parts
  <2>4. ASSUME d = a
        PROVE  \A i \in 0 .. a - 1 : m[p + i] = m[q + i]
    BY <2>4 DEF Parts
  <2> QED BY <1>3, <2>2, <2>3, <2>4
<1>4. CASE a # b
  BY <1>2, <1>4
<1> QED
  BY <1>3, <1>4
(* Which text comes first shows in the characters at d, when the shorter   *)
(* one really ends there.                                                  *)
LEMMA Decides ==
  ASSUME NEW m \in Memories, NEW p \in Strings(m), NEW q \in Strings(m),
         NEW a \in Nat, NEW b \in Nat, NEW d \in Nat, Parts(m, p, q, a, b, d),
         d = a => a = strlen(m, p), d = b => b = strlen(m, q)
  PROVE  /\ m[p + d] \in Nat /\ m[q + d] \in Nat
         /\ Difference(m, p, q, d) < 0 <=> Precedes(Run(m, p, a), Run(m, q, b))
         /\ Difference(m, p, q, d) = 0 <=> Run(m, p, a) = Run(m, q, b)
         /\ Difference(m, p, q, d) > 0 <=> Precedes(Run(m, q, b), Run(m, p, a))
<1>1. PICK la \in Nat, lb \in Nat : la = strlen(m, p) /\ lb = strlen(m, q)
  BY Length
<1>2. /\ p \in Nat \ {0} /\ q \in Nat \ {0} /\ p + la <= Size /\ q + lb <= Size /\ Size \in Nat
      /\ m[p + la] = 0 /\ \A x \in p .. p + la - 1 : m[x] # 0
      /\ m[q + lb] = 0 /\ \A x \in q .. q + lb - 1 : m[x] # 0
  BY <1>1, Length
<1>3. a <= la /\ b <= lb /\ d <= a /\ d <= b /\ (d = a \/ d = b \/ m[p + d] # m[q + d])
  BY <1>1 DEF Parts
<1>4. m[p + d] \in Nat /\ m[q + d] \in Nat
  <2>1. p + d \in Addresses /\ q + d \in Addresses
    BY <1>2, <1>3 DEF Addresses
  <2> QED BY <2>1, StringAssumption DEF Memories, Bytes
<1>5. m[p + d] = 0 <=> d = a
  <2>1. d # a => p + d \in p .. p + la - 1
    BY <1>2, <1>3
  <2> QED BY <2>1, <1>1, <1>2
<1>6. m[q + d] = 0 <=> d = b
  <2>1. d # b => q + d \in q .. q + lb - 1
    BY <1>2, <1>3
  <2> QED BY <2>1, <1>1, <1>2
<1>7. Parts(m, q, p, b, a, d)
  BY DEF Parts
<1>8. Precedes(Run(m, p, a), Run(m, q, b))
           <=> \/ d < a /\ d < b /\ m[p + d] < m[q + d]
               \/ d = a /\ a < b
  BY PrecedesIs
<1>9. Precedes(Run(m, q, b), Run(m, p, a))
           <=> \/ d < b /\ d < a /\ m[q + d] < m[p + d]
               \/ d = b /\ b < a
  BY <1>7, PrecedesIs
<1>10. Run(m, p, a) = Run(m, q, b) <=> d = a /\ d = b
  BY EqualIs
<1>11. PICK x \in Nat, y \in Nat : x = m[p + d] /\ y = m[q + d]
  BY <1>4
<1>12. Difference(m, p, q, d) = x - y
  BY <1>11 DEF Difference
<1>13. /\ x - y < 0 <=> (d < a /\ d < b /\ x < y) \/ (d = a /\ a < b)
       /\ x - y = 0 <=> d = a /\ d = b
       /\ x - y > 0 <=> (d < b /\ d < a /\ y < x) \/ (d = b /\ b < a)
  BY <1>3, <1>5, <1>6, <1>11
<1> QED
  BY <1>4, <1>8, <1>9, <1>10, <1>11, <1>12, <1>13

(* The length of the shorter of two texts.                                 *)
LEMMA Shorter ==
  ASSUME NEW x \in Nat, NEW y \in Nat
  PROVE  /\ Min({x, y}) \in Nat /\ Min({x, y}) <= x /\ Min({x, y}) <= y
         /\ Min({x, y}) = x \/ Min({x, y}) = y
<1> DEFINE S == {x, y}
<1>1. S \subseteq Nat /\ S # {}
  OBVIOUS
<1>2. Min(S) \in S /\ \A z \in S : Min(S) =< z
  <2> HIDE DEF S
  <2> QED BY <1>1, MinOf
<1> QED
  BY <1>2

LEMMA StopIs ==
  ASSUME NEW m \in Memories, NEW p \in Strings(m), NEW q \in Strings(m),
         NEW n \in Nat, NEW k \in Nat, k = Min({strlen(m, p), strlen(m, q)}), n <= k + 1
  PROVE  /\ Stops(m, p, q, n) = {} =>
              n <= k /\ \A i \in 0 .. n - 1 : m[p + i] = m[q + i]
         /\ Stops(m, p, q, n) # {} =>
              \E d \in 0 .. n - 1 :
                /\ Min(Stops(m, p, q, n)) = d
                /\ d <= k /\ \A i \in 0 .. d - 1 : m[p + i] = m[q + i]
                /\ d = k \/ m[p + d] # m[q + d]
<1>1. PICK la \in Nat, lb \in Nat : la = strlen(m, p) /\ lb = strlen(m, q)
  BY Length
<1>2. /\ p \in Nat \ {0} /\ q \in Nat \ {0}
      /\ m[p + la] = 0 /\ \A x \in p .. p + la - 1 : m[x] # 0
      /\ m[q + lb] = 0 /\ \A x \in q .. q + lb - 1 : m[x] # 0
  BY <1>1, Length
<1>3. k <= la /\ k <= lb /\ (k = la \/ k = lb)
  BY <1>1, Shorter
<1> DEFINE S == Stops(m, p, q, n)
<1>4. /\ S \subseteq 0 .. n - 1
      /\ \A i \in 0 .. n - 1 : i \in S <=> m[p + i] = 0 \/ m[p + i] # m[q + i]
  BY DEF Stops
<1> HIDE DEF S
<1>5. n = k + 1 => k \in S
  <2>1. m[p + k] = 0 \/ m[p + k] # m[q + k]
    <3>1. k # la => p + k \in p .. p + la - 1 /\ k = lb
      BY <1>2, <1>3
    <3> QED BY <3>1, <1>2
  <2> QED BY <2>1, <1>4
<1>6. CASE S = {}
  <2>1. \A i \in 0 .. n - 1 : m[p + i] = m[q + i]
    BY <1>4, <1>6
  <2>2. n <= k
    BY <1>5, <1>6
  <2> QED BY <1>6, <2>1, <2>2 DEF S
<1>7. CASE S # {}
  <2>1. S \subseteq Nat
    BY <1>4
  <2>2. PICK d \in S : d = Min(S) /\ \A y \in S : d =< y
    BY <2>1, <1>7, MinOf
  <2>3. d \in 0 .. n - 1 /\ d <= k
    BY <1>4, <2>2
  <2>4. ASSUME NEW i \in 0 .. d - 1
        PROVE  m[p + i] = m[q + i]
    <3>1. i \in 0 .. n - 1 /\ i \notin S
      BY <2>2, <2>3
    <3> QED BY <3>1, <1>4
  <2>5. d = k \/ m[p + d] # m[q + d]
    <3>1. d # k => p + d \in p .. p + la - 1
      BY <2>3, <1>2, <1>3
    <3> QED BY <3>1, <1>2, <1>4, <2>2, <2>3
  <2> QED BY <1>7, <2>2, <2>3, <2>4, <2>5 DEF S
<1> QED
  BY <1>6, <1>7

LEMMA ComparesAre ==
  ASSUME NEW m \in Memories, NEW p \in Strings(m), NEW q \in Strings(m)
  PROVE  LET s == Text(m, p)
             t == Text(m, q)
         IN  /\ strcmp(m, p, q) < 0 <=> Precedes(s, t)
             /\ strcmp(m, p, q) = 0 <=> s = t
             /\ strcmp(m, p, q) > 0 <=> Precedes(t, s)
             /\ Sign(strcmp(m, p, q)) = memcmp(m, p, q, 1 + Min({Len(s), Len(t)}))
<1>1. PICK la \in Nat, lb \in Nat : la = strlen(m, p) /\ lb = strlen(m, q)
  BY Length
<1>2. /\ Text(m, p) = Run(m, p, la) /\ Text(m, q) = Run(m, q, lb)
      /\ Len(Text(m, p)) = la /\ Len(Text(m, q)) = lb
  <2>1. la \in 0 .. strlen(m, p) /\ lb \in 0 .. strlen(m, q)
    BY <1>1
  <2> QED BY <1>1, <2>1, TextIsRun, RunIs
<1>3. PICK k \in Nat : k = Min({la, lb})
  BY Shorter
<1>4. k <= la /\ k <= lb /\ (k = la \/ k = lb)
  BY <1>3, Shorter
<1>5. PICK n \in Nat : n = 1 + k
  OBVIOUS
<1>6. PICK d \in 0 .. n - 1 :
        /\ Min(Stops(m, p, q, n)) = d
        /\ d <= k /\ \A i \in 0 .. d - 1 : m[p + i] = m[q + i]
        /\ d = k \/ m[p + d] # m[q + d]
  <2>1. n <= k + 1 /\ ~ (n <= k) /\ k = Min({strlen(m, p), strlen(m, q)})
    BY <1>1, <1>3, <1>5
  <2>2. Stops(m, p, q, n) # {}
    BY <2>1, StopIs
  <2> QED BY <2>1, <2>2, StopIs
<1>7. strcmp(m, p, q) = Difference(m, p, q, d)
  BY <1>1, <1>3, <1>5, <1>6 DEF strcmp
<1>8. Parts(m, p, q, la, lb, d) /\ d \in Nat
  BY <1>1, <1>4, <1>6 DEF Parts
<1>9. /\ m[p + d] \in Nat /\ m[q + d] \in Nat
      /\ Difference(m, p, q, d) < 0 <=> Precedes(Run(m, p, la), Run(m, q, lb))
      /\ Difference(m, p, q, d) = 0 <=> Run(m, p, la) = Run(m, q, lb)
      /\ Difference(m, p, q, d) > 0 <=> Precedes(Run(m, q, lb), Run(m, p, la))
  BY <1>1, <1>8, Decides
<1> DEFINE M == {i \in 0 .. n - 1 : m[p + i] # m[q + i]}
<1>10. memcmp(m, p, q, n) = IF FirstOf(M, n) = n THEN 0
                            ELSE IF m[p + FirstOf(M, n)] > m[q + FirstOf(M, n)] THEN 1 ELSE -1
  BY DEF memcmp
<1>11. Sign(strcmp(m, p, q)) = memcmp(m, p, q, n)
  <2>1. PICK x \in Nat, y \in Nat : x = m[p + d] /\ y = m[q + d]
    BY <1>9
  <2>2. strcmp(m, p, q) = x - y
    BY <1>7, <2>1 DEF Difference
  <2>3. CASE x = y
    <3>1. d = k
      BY <1>6, <2>1, <2>3
    <3>2. ASSUME NEW i \in 0 .. n - 1
          PROVE  m[p + i] = m[q + i]
      <4>1. i \in 0 .. d - 1 \/ i = d
        BY <1>5, <3>1
      <4> QED BY <4>1, <1>6, <2>1, <2>3
    <3>3. M = {}
      BY <3>2
    <3>4. memcmp(m, p, q, n) = 0
      <4> HIDE DEF M
      <4> QED BY <1>10, <3>3 DEF FirstOf
    <3> QED BY <2>2, <2>3, <3>4 DEF Sign
  <2>4. CASE x # y
    <3>1. d \in M /\ M \subseteq Nat
      BY <2>1, <2>4
    <3>2. ASSUME NEW i \in M
          PROVE  d =< i
      <4>1. i \notin 0 .. d - 1 /\ i \in 0 .. n - 1
        BY <1>6
      <4> QED BY <4>1
    <3> HIDE DEF M
    <3>3. FirstOf(M, n) = d
      BY <3>1, <3>2, MinIs DEF FirstOf
    <3>4. memcmp(m, p, q, n) = IF x > y THEN 1 ELSE -1
      <4>1. d # n
        BY <1>6
      <4> QED BY <1>10, <3>3, <4>1, <2>1
    <3> QED BY <2>2, <2>4, <3>4 DEF Sign
  <2> QED BY <2>3, <2>4
<1> HIDE DEF M
<1> QED
  BY <1>2, <1>3, <1>5, <1>7, <1>9, <1>11

LEMMA LimitedComparesAre ==
  ASSUME NEW m \in Memories, NEW p \in Strings(m), NEW q \in Strings(m),
         NEW n \in 0 .. 1 + Min({Len(Text(m, p)), Len(Text(m, q))})
  PROVE  LET s == Text(m, p)
             t == Text(m, q)
             difference == strncmp(m, p, q, n)
             a == SubSeq(s, 1, Min({n, Len(s)}))
             b == SubSeq(t, 1, Min({n, Len(t)}))
         IN  (difference < 0 <=> Precedes(a, b)) /\ (difference = 0 <=> a = b)
<1>1. PICK la \in Nat, lb \in Nat : la = strlen(m, p) /\ lb = strlen(m, q)
  BY Length
<1>2. /\ Text(m, p) = Run(m, p, la) /\ Text(m, q) = Run(m, q, lb)
      /\ Len(Text(m, p)) = la /\ Len(Text(m, q)) = lb
      /\ \A x \in 0 .. la : SubSeq(Text(m, p), 1, x) = Run(m, p, x)
      /\ \A x \in 0 .. lb : SubSeq(Text(m, q), 1, x) = Run(m, q, x)
  <2>1. /\ Text(m, p) = Run(m, p, la) /\ Len(Run(m, p, la)) = la
        /\ \A x \in 0 .. la : SubSeq(Run(m, p, la), 1, x) = Run(m, p, x)
    <3>1. la \in 0 .. strlen(m, p)
      BY <1>1
    <3> QED BY <1>1, <3>1, TextIsRun, RunIs
  <2>2. /\ Text(m, q) = Run(m, q, lb) /\ Len(Run(m, q, lb)) = lb
        /\ \A x \in 0 .. lb : SubSeq(Run(m, q, lb), 1, x) = Run(m, q, x)
    <3>1. lb \in 0 .. strlen(m, q)
      BY <1>1
    <3> QED BY <1>1, <3>1, TextIsRun, RunIs
  <2> QED BY <2>1, <2>2
<1>3. PICK k \in Nat : k = Min({la, lb})
  BY Shorter
<1>4. k <= la /\ k <= lb /\ n \in Nat /\ n <= k + 1
  BY <1>2, <1>3, Shorter
<1>5. PICK a \in Nat, b \in Nat : a = Min({n, la}) /\ b = Min({n, lb})
  BY <1>4, Shorter
<1>6. /\ a <= n /\ a <= la /\ (a = n \/ a = la)
      /\ b <= n /\ b <= lb /\ (b = n \/ b = lb)
  BY <1>4, <1>5, Shorter
<1>7. /\ SubSeq(Text(m, p), 1, Min({n, Len(Text(m, p))})) = Run(m, p, a)
      /\ SubSeq(Text(m, q), 1, Min({n, Len(Text(m, q))})) = Run(m, q, b)
  <2>1. Min({n, Len(Text(m, p))}) = a /\ Min({n, Len(Text(m, q))}) = b
    BY <1>2, <1>5
  <2>2. a \in 0 .. la /\ b \in 0 .. lb
    BY <1>6
  <2> QED BY <1>2, <2>1, <2>2
<1>8. k = Min({strlen(m, p), strlen(m, q)})
  BY <1>1, <1>3
<1>9. CASE Stops(m, p, q, n) = {}
  <2>1. n <= k /\ \A i \in 0 .. n - 1 : m[p + i] = m[q + i]
    <3>1. n \in Nat /\ n <= k + 1
      BY <1>4
    <3> QED BY <1>8, <1>9, <3>1, StopIs
  <2>2. a = n /\ b = n /\ n \in Nat
    BY <1>4, <1>6, <2>1
  <2>3. Parts(m, p, q, a, b, n)
    BY <2>1, <2>2, <1>1, <1>6 DEF Parts
  <2>4. /\ Precedes(Run(m, p, a), Run(m, q, b)) <=>
             (n < a /\ n < b /\ m[p + n] < m[q + n]) \/ (n = a /\ a < b)
        /\ Run(m, p, a) = Run(m, q, b) <=> n = a /\ n = b
    BY <2>2, <2>3, PrecedesIs, EqualIs
  <2>5. strncmp(m, p, q, n) = 0
    BY <1>9 DEF strncmp, FirstOf
  <2>6. /\ ~ Precedes(Run(m, p, a), Run(m, q, b)) /\ Run(m, p, a) = Run(m, q, b)
    BY <2>2, <2>4
  <2>7. /\ strncmp(m, p, q, n) < 0 <=> Precedes(Run(m, p, a), Run(m, q, b))
        /\ strncmp(m, p, q, n) = 0 <=> Run(m, p, a) = Run(m, q, b)
    BY <2>5, <2>6
  <2> QED BY <2>7, <1>7
<1>10. CASE Stops(m, p, q, n) # {}
  <2>1. PICK d \in 0 .. n - 1 :
          /\ Min(Stops(m, p, q, n)) = d
          /\ d <= k /\ \A i \in 0 .. d - 1 : m[p + i] = m[q + i]
          /\ d = k \/ m[p + d] # m[q + d]
    BY <1>4, <1>8, <1>10, StopIs
  <2>2. d \in Nat /\ d # n /\ d < n
    BY <1>4
  <2>3. strncmp(m, p, q, n) = Difference(m, p, q, d)
    BY <1>10, <2>1, <2>2 DEF strncmp, FirstOf
  <2>4. k = la \/ k = lb
    BY <1>3, Shorter
  <2>5. /\ d <= a /\ d <= b /\ (d = a => a = la) /\ (d = b => b = lb)
        /\ d = k => d = a \/ d = b
    BY <2>1, <2>2, <2>4, <1>4, <1>6
  <2>6. Parts(m, p, q, a, b, d)
    BY <1>1, <1>6, <2>1, <2>5 DEF Parts
  <2>7. /\ Difference(m, p, q, d) < 0 <=> Precedes(Run(m, p, a), Run(m, q, b))
        /\ Difference(m, p, q, d) = 0 <=> Run(m, p, a) = Run(m, q, b)
    BY <1>1, <2>2, <2>5, <2>6, Decides
  <2> QED BY <2>3, <2>7, <1>7
<1> QED
  BY <1>9, <1>10
-----------------------------------------------------------------------------
(* The search of strstr.  What is left of the needle gets shorter, so that *)
(* there is one function that answers as the recursion says.               *)
Hit(m, h, n) == FirstOf({p \in Inside(m, h) : m[p] = m[n]}, NULL)

Answer(m, h, n, search) ==
  IF m[n] = 0 THEN h ELSE
  IF Hit(m, h, n) = NULL THEN NULL ELSE
  IF search[n + 1][Hit(m, h, n) + 1] = NULL THEN NULL
  ELSE search[n + 1][Hit(m, h, n) + 1] - 1

(* The needles that begin among the last k addresses.                      *)
Late(m, k) == {n \in Strings(m) : n > Size - k}

Searches(m, k, search) ==
  search = [n \in Late(m, k) |-> [h \in Strings(m) |-> Answer(m, h, n, search)]]

LEMMA NextLate ==
  ASSUME NEW m \in Memories, NEW k \in Nat, NEW n \in Late(m, k + 1), m[n] # 0
  PROVE  n + 1 \in Late(m, k)
<1>1. n \in Strings(m) /\ n > Size - (k + 1)
  BY DEF Late
<1>2. PICK l \in Nat : l = strlen(m, n)
  BY <1>1, Length
<1>3. n \in Nat /\ Size \in Nat /\ m[n + l] = 0
  BY <1>1, <1>2, Length
<1>4. l # 0
  BY <1>3
<1>5. n + 1 \in n .. n + strlen(m, n)
  BY <1>2, <1>3, <1>4
<1>6. n + 1 \in Strings(m)
  BY <1>1, <1>5, Rest
<1> QED
  BY <1>1, <1>3, <1>6 DEF Late

LEMMA SearchExists ==
  ASSUME NEW m \in Memories
  PROVE  \E search : Searches(m, Size, search)
<1> DEFINE S == {k \in Nat : \E search : Searches(m, k, search)}
<1>0. Size \in Nat
  BY StringAssumption
<1>1. 0 \in S
  <2>1. Late(m, 0) = {}
    <3>1. ASSUME NEW n \in Late(m, 0) PROVE FALSE
      <4>1. n \in Strings(m) /\ n > Size - 0
        BY DEF Late
      <4>2. n <= Size /\ n \in Nat
        BY <4>1, Length
      <4> QED BY <4>1, <4>2, <1>0
    <3> QED BY <3>1
  <2>2. PICK f : f = [n \in {} |-> 0]
    OBVIOUS
  <2>3. f = [n \in {} |-> [h \in Strings(m) |-> Answer(m, h, n, f)]]
    BY <2>2
  <2>4. Searches(m, 0, f)
    BY <2>1, <2>3 DEF Searches
  <2> QED BY <2>4
<1>2. ASSUME NEW k \in 0 .. Size - 1, k \in S
      PROVE  k + 1 \in S
  <2>1. PICK g : Searches(m, k, g)
    BY <1>2
  <2> DEFINE f == [n \in Late(m, k + 1) |->
                     IF n \in Late(m, k) THEN g[n]
                     ELSE [h \in Strings(m) |-> Answer(m, h, n, g)]]
  <2>2. \A n \in Late(m, k) : n \in Late(m, k + 1)
    <3>1. ASSUME NEW n \in Late(m, k) PROVE n \in Late(m, k + 1)
      <4>1. n \in Strings(m) /\ n > Size - k
        BY DEF Late
      <4>2. n \in Nat
        BY <4>1, Length
      <4> QED BY <4>1, <4>2, <1>0, <1>2 DEF Late
    <3> QED BY <3>1
  <2>3. ASSUME NEW n \in Late(m, k)
        PROVE  f[n] = g[n] /\ g[n] = [h \in Strings(m) |-> Answer(m, h, n, g)]
    BY <2>1, <2>2 DEF Searches
  <2>4. ASSUME NEW n \in Late(m, k + 1)
        PROVE  f[n] = [h \in Strings(m) |-> Answer(m, h, n, g)]
    BY <2>3
  <2>5. ASSUME NEW n \in Late(m, k + 1), NEW h
        PROVE  Answer(m, h, n, g) = Answer(m, h, n, f)
    <3>1. CASE m[n] = 0
      BY <3>1 DEF Answer
    <3>2. CASE m[n] # 0
      <4>1. n + 1 \in Late(m, k)
        BY <3>2, NextLate
      <4>2. f[n + 1] = g[n + 1]
        BY <2>3, <4>1
      <4> HIDE DEF f
      <4> QED BY <4>2 DEF Answer
    <3> QED BY <3>1, <3>2
  <2>6. f = [n \in Late(m, k + 1) |-> f[n]]
    OBVIOUS
  <2>7. Searches(m, k + 1, f)
    <3> HIDE DEF f
    <3>1. ASSUME NEW n \in Late(m, k + 1)
          PROVE  f[n] = [h \in Strings(m) |-> Answer(m, h, n, f)]
      BY <2>4, <2>5
    <3> QED BY <2>6, <3>1 DEF Searches
  <2> HIDE DEF f
  <2> QED BY <2>7
<1>3. Size \in S
  <2>1. Size \in 0 .. Size
    BY <1>0
  <2> HIDE DEF S
  <2> QED BY <1>0, <1>1, <1>2, <2>1, EveryRound
<1> QED
  BY <1>3

LEMMA SearchIs ==
  ASSUME NEW m \in Memories
  PROVE  \E search :
           \A n \in Strings(m), h \in Strings(m) :
             search[n][h] = Answer(m, h, n, search) /\ strstr(m, h, n) = search[n][h]
<1>1. Late(m, Size) = Strings(m)
  <2>1. ASSUME NEW n \in Strings(m) PROVE n \in Late(m, Size)
    <3>1. n \in Nat \ {0} /\ Size \in Nat
      BY Length
    <3> QED BY <3>1 DEF Late
  <2> QED BY <2>1 DEF Late
<1> DEFINE P(search) ==
             search = [n \in Strings(m) |-> [h \in Strings(m) |-> Answer(m, h, n, search)]]
           J == CHOOSE search : P(search)
<1>2. PICK g : Searches(m, Size, g)
  BY SearchExists
<1>3. P(g)
  BY <1>1, <1>2 DEF Searches
<1>4. P(J)
  <2> HIDE DEF P
  <2> QED BY <1>3
<1>5. ASSUME NEW n \in Strings(m), NEW h \in Strings(m)
      PROVE  J[n][h] = Answer(m, h, n, J)
  <2> HIDE DEF J
  <2> QED BY <1>4
<1>6. ASSUME NEW n \in Strings(m), NEW h \in Strings(m)
      PROVE  strstr(m, h, n) = J[n][h]
  BY DEF strstr, Answer, Hit
<1> HIDE DEF J
<1> QED
  BY <1>5, <1>6

LEMMA OccursIs ==
  ASSUME NEW m \in Memories, NEW p \in Strings(m), NEW n \in Strings(m)
  PROVE  Occurs(m, p, n) <=>
           /\ strlen(m, n) <= strlen(m, p)
           /\ \A i \in 0 .. strlen(m, n) - 1 : m[p + i] = m[n + i]
<1>1. PICK lp \in Nat, ln \in Nat : lp = strlen(m, p) /\ ln = strlen(m, n)
  BY Length
<1>2. Text(m, p) = Run(m, p, lp) /\ Text(m, n) = Run(m, n, ln)
  BY <1>1, TextIsRun
<1>3. Len(Run(m, p, lp)) = lp /\ \A k \in 0 .. lp : SubSeq(Run(m, p, lp), 1, k) = Run(m, p, k)
  <2>1. lp \in 0 .. strlen(m, p)
    BY <1>1
  <2> QED BY <2>1, RunIs
<1>4. Len(Run(m, n, ln)) = ln /\ SubSeq(Run(m, n, ln), 1, ln) = Run(m, n, ln)
  <2>1. ln \in 0 .. strlen(m, n) /\ ln \in 0 .. ln
    BY <1>1
  <2> QED BY <2>1, RunIs
<1>5. Occurs(m, p, n) <=> ln <= lp /\ SubSeq(Run(m, n, ln), 1, ln) = SubSeq(Run(m, p, lp), 1, ln)
  BY <1>2, <1>3, <1>4 DEF Occurs, IsPrefix
<1>6. ASSUME ln <= lp
      PROVE  SubSeq(Run(m, n, ln), 1, ln) = SubSeq(Run(m, p, lp), 1, ln)
               <=> \A i \in 0 .. ln - 1 : m[p + i] = m[n + i]
  <2>1. ln \in 0 .. lp /\ ln <= strlen(m, p) /\ ln <= strlen(m, n)
    BY <1>1, <1>6
  <2>2. Run(m, p, ln) = Run(m, n, ln) <=> \A i \in 0 .. ln - 1 : m[p + i] = m[n + i]
    BY <2>1, RunsAgree
  <2>3. SubSeq(Run(m, p, lp), 1, ln) = Run(m, p, ln)
    BY <2>1, <1>3
  <2> QED BY <2>2, <2>3, <1>4
<1> QED
  BY <1>1, <1>5, <1>6

(* Where a needle occurs its first character does, and the rest of it      *)
(* behind that.                                                            *)
LEMMA OccursFrom ==
  ASSUME NEW m \in Memories, NEW p \in Strings(m), NEW n \in Strings(m),
         m[n] # 0, Occurs(m, p, n)
  PROVE  /\ m[p] = m[n] /\ m[p] # 0
         /\ p + 1 \in Strings(m) /\ n + 1 \in Strings(m) /\ Occurs(m, p + 1, n + 1)
<1>1. PICK lp \in Nat, ln \in Nat : lp = strlen(m, p) /\ ln = strlen(m, n)
  BY Length
<1>2. /\ p \in Nat /\ n \in Nat
      /\ m[n + ln] = 0 /\ \A x \in p .. p + lp - 1 : m[x] # 0
  BY <1>1, Length
<1>3. ln <= lp /\ \A i \in 0 .. ln - 1 : m[p + i] = m[n + i]
  BY <1>1, OccursIs
<1>4. ln # 0
  BY <1>2
<1>5. m[p] = m[n] /\ m[p] # 0
  <2>1. 0 \in 0 .. ln - 1 /\ p + 0 = p /\ n + 0 = n
    BY <1>2, <1>4
  <2>2. m[p + 0] = m[n + 0]
    BY <1>3, <2>1
  <2> QED BY <2>1, <2>2
<1>6. /\ p + 1 \in Strings(m) /\ strlen(m, p + 1) = lp - 1
      /\ n + 1 \in Strings(m) /\ strlen(m, n + 1) = ln - 1
  <2>1. p + 1 \in p .. p + strlen(m, p) /\ n + 1 \in n .. n + strlen(m, n)
    BY <1>1, <1>2, <1>3, <1>4
  <2>2. /\ p + strlen(m, p) - (p + 1) = lp - 1
        /\ n + strlen(m, n) - (n + 1) = ln - 1
    BY <1>1, <1>2
  <2> QED BY <2>1, <2>2, Rest
<1>7. Occurs(m, p + 1, n + 1)
  <2>1. PICK x \in Strings(m), y \in Strings(m) : x = p + 1 /\ y = n + 1
    BY <1>6
  <2>2. ASSUME NEW i \in 0 .. ln - 2
        PROVE  m[x + i] = m[y + i]
    <3>1. i + 1 \in 0 .. ln - 1 /\ x + i = p + (i + 1) /\ y + i = n + (i + 1)
      BY <1>2, <2>1
    <3> QED BY <3>1, <1>3
  <2>3. strlen(m, x) = lp - 1 /\ strlen(m, y) = ln - 1 /\ ln - 1 <= lp - 1
    BY <1>3, <1>6, <2>1
  <2>4. (ln - 1) - 1 = ln - 2
    OBVIOUS
  <2>5. Occurs(m, x, y)
    BY <2>2, <2>3, <2>4, OccursIs
  <2> QED BY <2>1, <2>5
<1> QED
  BY <1>5, <1>6, <1>7

(* What the search answers is no place before the haystack, so that one    *)
(* can be taken from it without reaching NULL, and it is not NULL when the *)
(* needle occurs.                                                          *)
Finds(m, h, n, answer) ==
  /\ answer # NULL => answer \in Nat /\ answer >= h
  /\ (\E p \in h .. h + strlen(m, h) : Occurs(m, p, n)) => answer # NULL

LEMMA FindsStep ==
  ASSUME NEW m \in Memories, NEW n \in Strings(m), NEW h \in Strings(m), NEW search,
         m[n] # 0 => n + 1 \in Strings(m)
                       /\ \A x \in Strings(m) : Finds(m, x, n + 1, search[n + 1][x])
  PROVE  Finds(m, h, n, Answer(m, h, n, search))
<1>1. PICK l \in Nat : l = strlen(m, h)
  BY Length
<1>2. h \in Nat \ {0} /\ m[h + l] = 0
  BY <1>1, Length
<1>3. CASE m[n] = 0
  BY <1>2, <1>3 DEF Answer, Finds, NULL
<1>4. CASE m[n] # 0
  <2> DEFINE S == {p \in Inside(m, h) : m[p] = m[n]}
  <2>1. S \subseteq h .. h + l - 1 /\ S \subseteq Nat /\ Hit(m, h, n) = FirstOf(S, NULL)
    BY <1>1, <1>2 DEF Inside, Hit
  <2>2. ASSUME NEW p \in h .. h + l, Occurs(m, p, n)
        PROVE  p \in S /\ p + 1 \in h .. h + l /\ Occurs(m, p + 1, n + 1)
    <3>1. p \in Strings(m)
      BY <1>1, <2>2, Rest
    <3>2. m[p] = m[n] /\ m[p] # 0 /\ Occurs(m, p + 1, n + 1)
      BY <1>4, <2>2, <3>1, OccursFrom
    <3>3. p \in h .. h + l - 1 /\ p + 1 \in h .. h + l
      <4>1. p # h + l
        BY <1>2, <3>2
      <4> QED BY <4>1, <1>2
    <3> QED BY <1>1, <3>2, <3>3 DEF Inside
  <2> HIDE DEF S
  <2>3. CASE S = {}
    <3>1. Answer(m, h, n, search) = NULL
      BY <1>4, <2>1, <2>3 DEF Answer, FirstOf
    <3>2. ~ \E p \in h .. h + l : Occurs(m, p, n)
      BY <2>2, <2>3
    <3> QED BY <1>1, <3>1, <3>2 DEF Finds
  <2>4. CASE S # {}
    <3>1. PICK hit \in S : hit = Hit(m, h, n) /\ \A p \in S : hit =< p
      BY <2>1, <2>4, FirstIs
    <3>2. hit \in Nat /\ hit >= h /\ hit <= h + l - 1 /\ hit # NULL
      BY <1>2, <2>1 DEF NULL
    <3>3. hit + 1 \in Strings(m) /\ (hit + 1) + strlen(m, hit + 1) = h + l
      <4>1. hit + 1 \in h .. h + strlen(m, h)
        BY <1>1, <1>2, <3>2
      <4>2. hit + 1 \in Strings(m) /\ strlen(m, hit + 1) = h + l - (hit + 1)
        BY <1>1, <4>1, Rest
      <4> QED BY <1>2, <3>2, <4>2
    <3>4. PICK g : g = search[n + 1][hit + 1]
      OBVIOUS
    <3>5. Finds(m, hit + 1, n + 1, g)
      BY <1>4, <3>3, <3>4
    <3>6. Answer(m, h, n, search) = IF g = NULL THEN NULL ELSE g - 1
      BY <1>4, <3>1, <3>2, <3>4 DEF Answer
    <3>7. g # NULL => g \in Nat /\ g - 1 \in Nat /\ g - 1 >= h /\ g - 1 # NULL
      <4>1. g # NULL => g \in Nat /\ g >= hit + 1
        BY <3>5 DEF Finds
      <4> QED BY <4>1, <1>2, <3>2 DEF NULL
    <3>8. ASSUME NEW p \in h .. h + l, Occurs(m, p, n)
          PROVE  g # NULL
      <4>1. p \in S /\ p + 1 \in h .. h + l /\ Occurs(m, p + 1, n + 1)
        BY <2>2, <3>8
      <4>2. p + 1 \in hit + 1 .. (hit + 1) + strlen(m, hit + 1)
        BY <1>2, <3>1, <3>2, <3>3, <4>1
      <4> QED BY <3>5, <4>1, <4>2 DEF Finds
    <3> QED BY <1>1, <3>6, <3>7, <3>8 DEF Finds
  <2> QED BY <2>3, <2>4
<1> QED
  BY <1>3, <1>4

LEMMA FindsAre ==
  ASSUME NEW m \in Memories, NEW h \in Strings(m), NEW n \in Strings(m)
  PROVE  Finds(m, h, n, strstr(m, h, n))
<1>1. PICK search :
        \A y \in Strings(m), x \in Strings(m) :
          search[y][x] = Answer(m, x, y, search) /\ strstr(m, x, y) = search[y][x]
  BY SearchIs
<1> DEFINE S == {k \in Nat : \A y \in Late(m, k), x \in Strings(m) : Finds(m, x, y, search[y][x])}
<1>2. 0 \in S
  <2>1. ASSUME NEW y \in Late(m, 0) PROVE FALSE
    <3>1. y \in Strings(m) /\ y > Size - 0
      BY DEF Late
    <3>2. y <= Size /\ y \in Nat /\ Size \in Nat
      BY <3>1, Length
    <3> QED BY <3>1, <3>2
  <2> QED BY <2>1
<1>3. ASSUME NEW k \in 0 .. Size - 1, k \in S
      PROVE  k + 1 \in S
  <2>1. k \in Nat
    OBVIOUS
  <2>2. ASSUME NEW y \in Late(m, k + 1), NEW x \in Strings(m)
        PROVE  Finds(m, x, y, search[y][x])
    <3>1. y \in Strings(m)
      BY DEF Late
    <3>2. m[y] # 0 => y + 1 \in Late(m, k)
      BY <2>1, NextLate
    <3>3. m[y] # 0 => y + 1 \in Strings(m)
                        /\ \A z \in Strings(m) : Finds(m, z, y + 1, search[y + 1][z])
      BY <1>3, <3>2 DEF Late
    <3>4. Finds(m, x, y, Answer(m, x, y, search))
      BY <3>1, <3>3, FindsStep
    <3> QED BY <1>1, <3>1, <3>4
  <2> QED BY <2>1, <2>2
<1>4. Size \in S
  <2>1. Size \in Nat /\ Size \in 0 .. Size
    BY StringAssumption
  <2> HIDE DEF S
  <2> QED BY <1>2, <1>3, <2>1, EveryRound
<1>5. n \in Late(m, Size)
  <2>1. n \in Nat \ {0} /\ Size \in Nat
    BY Length
  <2> QED BY <2>1 DEF Late
<1> QED
  BY <1>1, <1>4, <1>5

LEMMA ReadsAre ==
  ASSUME TypeOK
  PROVE  ReadsAgree
<1>1. PICK m \in Memories : m = memory
  BY DEF TypeOK
<1> DEFINE Compares(x) ==
             \A p, q \in Strings(x) :
               LET s == Text(x, p)
                   t == Text(x, q)
               IN  /\ strcmp(x, p, q) < 0 <=> Precedes(s, t)
                   /\ strcmp(x, p, q) = 0 <=> s = t
                   /\ strcmp(x, p, q) > 0 <=> Precedes(t, s)
                   /\ \A n \in 0 .. 1 + Min({Len(s), Len(t)}) :
                        LET difference == strncmp(x, p, q, n)
                            a == SubSeq(s, 1, Min({n, Len(s)}))
                            b == SubSeq(t, 1, Min({n, Len(t)}))
                        IN  (difference < 0 <=> Precedes(a, b)) /\ (difference = 0 <=> a = b)
                   /\ Sign(strcmp(x, p, q)) = memcmp(x, p, q, 1 + Min({Len(s), Len(t)}))
<1>2. ComparesAsDictionary
  <2>1. Compares(m)
    <3> SUFFICES ASSUME NEW p \in Strings(m), NEW q \in Strings(m)
                 PROVE  LET s == Text(m, p)
                            t == Text(m, q)
                        IN  /\ strcmp(m, p, q) < 0 <=> Precedes(s, t)
                            /\ strcmp(m, p, q) = 0 <=> s = t
                            /\ strcmp(m, p, q) > 0 <=> Precedes(t, s)
                            /\ \A n \in 0 .. 1 + Min({Len(s), Len(t)}) :
                                 LET difference == strncmp(m, p, q, n)
                                     a == SubSeq(s, 1, Min({n, Len(s)}))
                                     b == SubSeq(t, 1, Min({n, Len(t)}))
                                 IN  (difference < 0 <=> Precedes(a, b)) /\ (difference = 0 <=> a = b)
                            /\ Sign(strcmp(m, p, q)) = memcmp(m, p, q, 1 + Min({Len(s), Len(t)}))
      BY Zenon
    <3> DEFINE Limited(n) == LET difference == strncmp(m, p, q, n)
                                 a == SubSeq(Text(m, p), 1, Min({n, Len(Text(m, p))}))
                                 b == SubSeq(Text(m, q), 1, Min({n, Len(Text(m, q))}))
                             IN  (difference < 0 <=> Precedes(a, b)) /\ (difference = 0 <=> a = b)
    <3>1. \A n \in 0 .. 1 + Min({Len(Text(m, p)), Len(Text(m, q))}) : Limited(n)
      BY LimitedComparesAre
    <3>2. /\ strcmp(m, p, q) < 0 <=> Precedes(Text(m, p), Text(m, q))
          /\ strcmp(m, p, q) = 0 <=> Text(m, p) = Text(m, q)
          /\ strcmp(m, p, q) > 0 <=> Precedes(Text(m, q), Text(m, p))
          /\ Sign(strcmp(m, p, q)) = memcmp(m, p, q, 1 + Min({Len(Text(m, p)), Len(Text(m, q))}))
      BY ComparesAre
    <3> QED BY ONLY <3>1, <3>2, Zenon
  <2>2. Compares(memory)
    <3> HIDE DEF Compares
    <3> QED BY <1>1, <2>1
  <2> QED BY <2>2 DEF ComparesAsDictionary
<1>3. SearchesAgree
  BY <1>1, SearchesAre DEF SearchesAgree
<1>4. FindsWhatOccurs
  BY <1>1, FindsAre DEF FindsWhatOccurs, Finds
<1> QED
  BY <1>2, <1>3, <1>4 DEF ReadsAgree

(* The functions that read say the same of every memory that the functions *)
(* that write can leave: comparing is the order of a dictionary, the       *)
(* searches agree, and strstr never misses.                                *)
THEOREM ReadsCorrect == StringsSpec => []ReadsAgree
<1>1. TypeOK => ReadsAgree
  BY ReadsAre
<1> QED
  BY <1>1, StringsTypeCorrect, PTL
=============================================================================
