----------------------------- MODULE MC_Stdlib -----------------------------
(***************************************************************************)
(* The texts are all those of at most MaxLength characters: spaces, signs, *)
(* the digits of base 4, and the letter of the prefix.  With longs of 6    *)
(* bits the ends of their range are 133, 200, 333 and 1000 in base 4.      *)
(***************************************************************************)
EXTENDS Stdlib

CONSTANT MaxLength

MCTexts ==
  {Append(t, Terminator) :
     t \in UNION {[1 .. n -> {Space, Minus, Plus, 0, 1, 2, 3, LetterX}] : n \in 0 .. MaxLength}}
=============================================================================
