----------------------------- MODULE Conversions -----------------------------
(***************************************************************************)
(* strtol and strtoul of lib/libc/src/stdlib.c, one character at a time.   *)
(* A character is the value that its digit or letter has (0 .. 35), or one *)
(* of the negative numbers below; a text ends with a Terminator.           *)
(***************************************************************************)
EXTENDS Integers, Sequences

CONSTANTS
  LONG_MAX,   (* the greatest long                                        *)
  Texts,      (* what is there to be read                                 *)
  Bases       (* what callers ask for: 0, or a base that has digits       *)

Space == -1
Minus == -2
Plus == -3
Terminator == -4
LetterX == 33

Characters == Terminator .. 35

ASSUME LongAssumption == LONG_MAX \in Nat \ {0}
ASSUME BasesAssumption == Bases \subseteq {0} \cup 2 .. 36
ASSUME TextsAssumption ==
  \A t \in Texts : t \in Seq(Characters) /\ Len(t) > 0 /\ t[Len(t)] = Terminator

ULONG_MAX == 2 * LONG_MAX + 1
Words == ULONG_MAX + 1          (* how many values a word has *)

VARIABLES
  reading,      (* "idle", "spaces", "digits" or "read": what the call is at *)
  function,     (* "strtol" or "strtoul"                                  *)
  text, at,     (* the text, and where character is in it: one before s   *)
  base, negative, accumulator, any,
  exact,        (* the number that the digits so far stand for            *)
  endp

conversionVars ==
  <<reading, function, text, at, base, negative, accumulator, any, exact, endp>>

(* No call is under way. *)
InitConversion ==
  /\ reading = "idle" /\ function = "strtol" /\ negative = 0
  /\ text = <<>> /\ at = 0 /\ endp = 0
  /\ base = 0 /\ accumulator = 0 /\ any = 0 /\ exact = 0

Call(name) ==
  /\ reading = "idle" /\ reading' = "spaces"
  /\ function' = name /\ text' \in Texts /\ base' \in Bases /\ at' = 1
  /\ UNCHANGED <<negative, accumulator, any, exact, endp>>

strtol == Call("strtol")
strtoul == Call("strtoul")

character == text[at]

SkipSpace ==
  /\ reading = "spaces" /\ character = Space /\ at' = at + 1
  /\ UNCHANGED <<reading, function, text, base, negative, accumulator, any, exact, endp>>

AfterSign == IF character \in {Minus, Plus} THEN at + 1 ELSE at

HasHexPrefix(p) == base \in {0, 16} /\ text[p] = 0 /\ text[p + 1] = LetterX

(* The sign, the prefix 0x, and the base that the text itself gives. *)
ReadPrefix ==
  /\ reading = "spaces" /\ character # Space /\ reading' = "digits"
  /\ negative' = IF character = Minus THEN 1 ELSE 0
  /\ \/ /\ HasHexPrefix(AfterSign)
        /\ at' = AfterSign + 2 /\ base' = 16
     \/ /\ ~ HasHexPrefix(AfterSign)
        /\ at' = AfterSign
        /\ base' = IF base # 0 THEN base ELSE IF text[AfterSign] = 0 THEN 8 ELSE 10
  /\ UNCHANGED <<function, text, accumulator, any, exact, endp>>

Largest == IF function = "strtoul" THEN ULONG_MAX ELSE IF negative = 1 THEN LONG_MAX + 1 ELSE LONG_MAX

cutoff == Largest \div base
cutLimit == Largest % base

(* Mutant: the last digit is not looked at. *)
Exceeds_Cutoff(digit) == accumulator > cutoff

Exceeds(digit) == accumulator > cutoff \/ (accumulator = cutoff /\ digit > cutLimit)

IsDigit == character >= 0 /\ character < base

ReadDigit ==
  /\ reading = "digits" /\ IsDigit
  /\ \/ /\ any < 0 \/ Exceeds(character)
        /\ any' = -1 /\ UNCHANGED accumulator
     \/ /\ ~ (any < 0 \/ Exceeds(character))
        /\ any' = 1
        /\ accumulator' = (accumulator * base + character) % Words
  /\ exact' = exact * base + character
  /\ at' = at + 1
  /\ UNCHANGED <<reading, function, text, base, negative, endp>>

(* What both return; a long counts the words above LONG_MAX as negative. *)
Result ==
  IF any < 0 THEN IF negative = 1 THEN LONG_MAX + 1 ELSE LONG_MAX
  ELSE IF negative = 1 THEN (0 - accumulator) % Words ELSE accumulator

EndDigits ==
  /\ reading = "digits" /\ ~ IsDigit /\ reading' = "read"
  /\ accumulator' = Result
  /\ endp' = IF any # 0 THEN at ELSE at + 1
  /\ UNCHANGED <<function, text, at, base, negative, any, exact>>

(* The caller has what the call returned. *)
EndConversion ==
  /\ reading = "read" /\ reading' = "idle" /\ function' = "strtol" /\ negative' = 0
  /\ text' = <<>> /\ at' = 0 /\ endp' = 0
  /\ base' = 0 /\ accumulator' = 0 /\ any' = 0 /\ exact' = 0

NextConversion ==
  strtol \/ strtoul \/ SkipSpace \/ ReadPrefix \/ ReadDigit \/ EndDigits \/ EndConversion

ConversionSpec == InitConversion /\ [][NextConversion]_conversionVars
-----------------------------------------------------------------------------
ConversionTypeOK ==
  /\ reading \in {"idle", "spaces", "digits", "read"}
  /\ function \in {"strtol", "strtoul"} /\ negative \in {0, 1}
  /\ accumulator \in 0 .. ULONG_MAX /\ any \in {-1, 0, 1} /\ exact \in Nat
  /\ reading \in {"spaces", "digits"} => text \in Texts /\ at \in 1 .. Len(text)
  /\ reading = "spaces" => base \in Bases
  /\ reading = "digits" => base \in 2 .. 36

(* The accumulator is the number itself until the digits stand for more    *)
(* than the result can be, and any tells which of the two it is.           *)
AccumulatorIsExact ==
  /\ reading \in {"idle", "spaces"} => any = 0 /\ accumulator = 0 /\ exact = 0
  /\ reading = "digits" =>
       /\ any = 0 => accumulator = 0 /\ exact = 0
       /\ any = 1 => accumulator = exact /\ exact <= Largest
       /\ any = -1 => exact > Largest

Value == IF function = "strtoul" \/ accumulator <= LONG_MAX THEN accumulator ELSE accumulator - Words

(* The accumulator never wraps: strtol returns the number that the digits  *)
(* stand for, or the end of its range that the number lies behind, and     *)
(* strtoul returns every number that fits, turned around by the sign.      *)
(* endp is where the first character stands that is no digit, if one is.   *)
ReadsExactly ==
  reading = "read" =>
    /\ function = "strtol" =>
         Value = IF negative = 1 THEN IF exact > LONG_MAX THEN - LONG_MAX - 1 ELSE 0 - exact
                 ELSE IF exact > LONG_MAX THEN LONG_MAX ELSE exact
    /\ function = "strtoul" /\ exact <= ULONG_MAX =>
         Value = IF negative = 1 /\ exact # 0 THEN Words - exact ELSE exact
    /\ any # 0 => endp = at

ConversionInv == ConversionTypeOK /\ AccumulatorIsExact /\ ReadsExactly
=============================================================================
