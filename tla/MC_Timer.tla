------------------------------ MODULE MC_Timer ------------------------------
(***************************************************************************)
(* A tick of three units; sleeps of nothing, of less than a tick, of one   *)
(* and of more than two.  Time stops after three ticks.                    *)
(***************************************************************************)
EXTENDS Timer

Sleeps == {0, 2, 3, 7}
=============================================================================
