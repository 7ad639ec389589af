------------------------------- MODULE Stdlib -------------------------------
(***************************************************************************)
(* The functions of lib/libc/src/stdlib.c that search, read and write      *)
(* numbers, one call at a time: none of them calls another, and the caller *)
(* waits for what it called.                                               *)
(***************************************************************************)
EXTENDS Digits, BinarySearch

vars == <<searchVars, conversionVars, digitVars>>

Init == InitSearch /\ InitConversion /\ InitDigits

Bsearch ==
  reading = "idle" /\ writing = "idle" /\ NextSearch /\ UNCHANGED <<conversionVars, digitVars>>
Strto ==
  searching = "idle" /\ writing = "idle" /\ NextConversion /\ UNCHANGED <<searchVars, digitVars>>
Itoa ==
  searching = "idle" /\ reading = "idle" /\ NextDigits /\ UNCHANGED <<searchVars, conversionVars>>

Next == Bsearch \/ Strto \/ Itoa

Spec == Init /\ [][Next]_vars
=============================================================================
