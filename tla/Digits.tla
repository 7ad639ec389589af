------------------------------- MODULE Digits -------------------------------
(***************************************************************************)
(* itoa of lib/libc/src/stdlib.c, one digit at a time, and atoi and atol,  *)
(* which read what it wrote.  Characters are those of Conversions.         *)
(***************************************************************************)
EXTENDS Conversions, SequencesExt

CONSTANTS
  INT_MAX,     (* the greatest int                                        *)
  Radixes      (* what callers ask for, bases that have no digits too     *)

ASSUME IntAssumption == INT_MAX \in Nat /\ INT_MAX <= LONG_MAX

INT_MIN == - INT_MAX - 1

VARIABLES
  writing,            (* "idle", "dividing" or "written": what itoa is at *)
  original, radix,    (* the number it was called with, and the base      *)
  number, resNumber,
  output              (* the characters in front of backPointer           *)

digitVars == <<writing, original, radix, number, resNumber, output>>

(* No call is under way. *)
InitDigits ==
  /\ writing = "idle" /\ original = 0 /\ radix = 0
  /\ number = 0 /\ resNumber = 0 /\ output = <<>>

HasDigits(b) == b \in 2 .. 36

itoa ==
  /\ writing = "idle"
  /\ original' \in INT_MIN .. INT_MAX /\ radix' \in Radixes
  /\ number' = original'
  /\ writing' = IF HasDigits(radix') THEN "dividing" ELSE "written"
  /\ UNCHANGED <<resNumber, output>>

(* The quotient of C, which is cut towards zero. *)
Quotient(n, d) == IF n >= 0 THEN n \div d ELSE -((-n) \div d)

(* The table of characters has the digits on both sides of its middle. *)
CharacterOf(remainder) == IF remainder < 0 THEN - remainder ELSE remainder

WriteDigit ==
  /\ writing = "dividing"
  /\ number # 0 \/ output = <<>>
  /\ resNumber' = number
  /\ number' = Quotient(number, radix)
  /\ output' = Append(output, CharacterOf(number - number' * radix))
  /\ UNCHANGED <<writing, original, radix>>

(* Mutant: the sign is that of what is left of the number. *)
Signed_Late(digits) == IF number < 0 THEN Append(digits, Minus) ELSE digits

Signed(digits) == IF resNumber < 0 THEN Append(digits, Minus) ELSE digits

TurnAround ==
  /\ writing = "dividing" /\ number = 0 /\ output # <<>>
  /\ writing' = "written"
  /\ output' = Reverse(Signed(output))
  /\ UNCHANGED <<original, radix, number, resNumber>>

(* The caller has the text. *)
EndItoa ==
  /\ writing = "written" /\ writing' = "idle" /\ original' = 0 /\ radix' = 0
  /\ number' = 0 /\ resNumber' = 0 /\ output' = <<>>

NextDigits == itoa \/ WriteDigit \/ TurnAround \/ EndItoa

DigitsSpec == InitDigits /\ [][NextDigits]_digitVars

(* How far a character is from '0': the minus sign lies in front of it,    *)
(* the letters 39 places behind where they are among the digits.           *)
FromZero(c) == CASE c = Minus -> -3 [] c >= 10 -> c + 39 [] OTHER -> c

Wrap(n, max) == ((n + max + 1) % (2 * max + 2)) - max - 1

atoi(t) == FoldLeft(LAMBDA result, c : Wrap(result * 10 + FromZero(c), INT_MAX), 0, t)
atol(t) == FoldLeft(LAMBDA result, c : Wrap(result * 10 + FromZero(c), LONG_MAX), 0, t)
-----------------------------------------------------------------------------
(* What a sequence of digits stands for. *)
Stands(digits, b) == FoldLeft(LAMBDA n, d : n * b + d, 0, digits)

(* itoa writes the number it was called with in its base, the least int    *)
(* included, which has no opposite: with digits of that base, no zero in   *)
(* front, and the sign of the number.  atoi and atol read it back when it  *)
(* is a decimal number without a sign.                                     *)
WritesNumber ==
  writing = "written" =>
    IF ~ HasDigits(radix) THEN output = <<>>
    ELSE LET digits == IF original < 0 THEN Tail(output) ELSE output
         IN  /\ original < 0 => output[1] = Minus
             /\ \A i \in DOMAIN digits : digits[i] \in 0 .. radix - 1
             /\ Len(digits) > 1 => digits[1] # 0
             /\ Stands(digits, radix) = IF original < 0 THEN - original ELSE original
             /\ radix = 10 /\ original >= 0 => atoi(output) = original /\ atol(output) = original
=============================================================================
