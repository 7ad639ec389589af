--------------------------- MODULE MC_Mathematics ---------------------------
(***************************************************************************)
(* Every double of few bits.  fmod is asked about the numbers whose low    *)
(* word is zero, where its sign does not matter, and about numbers that    *)
(* differ in their last places only, where it does.                        *)
(***************************************************************************)
EXTENDS Mathematics

Short         == {d \in Doubles : d.lo = 0}
PositiveShort == {d \in Short : ~ Negative(d)}
NearOne       == {Double(Bias * 2 ^ H, lo) : lo \in 0 .. Word - 1}
=============================================================================
