---------------------------- MODULE MC_Terminal ----------------------------
(***************************************************************************)
(* A screen of two by two characters.  The keyboard has a letter, Enter,   *)
(* Backspace, the left shift pressed and released, and Caps Lock, the key  *)
(* behind the table, which has no character but shifted.                   *)
(***************************************************************************)
EXTENDS Terminal

AllKeys     == {30, 28, 14, 58, LeftShift, Released(LeftShift)}
PlainKeys   == {30, 28, 14}
Terminator  == {0}
SameText    == {<<97>>}
OtherText   == {<<98>>}
Home        == {0}
NoPositions == {}
=============================================================================
