----------------------------- MODULE MC_Strings -----------------------------
(***************************************************************************)
(* Every memory of six characters out of three, which holds up to six      *)
(* texts that overlap, and every call on it.  The block of strtok has room *)
(* for four characters, so that texts end inside and behind it; it holds   *)
(* the same character everywhere when it is new, or each once.             *)
(***************************************************************************)
EXTENDS Strings

MC_Garbage ==
  {[k \in 0 .. BlockSize - 1 |-> c] : c \in Bytes}
    \cup {[k \in 0 .. BlockSize - 1 |-> (k + 2) % ByteLimit]}
=============================================================================
