------------------------------- MODULE MC_Heap -------------------------------
(***************************************************************************)
(* A small instance of Heap: pages of three units, two of which a header  *)
(* takes, and requests that leave room for a split, fill a segment         *)
(* exactly, and fill a page so that its header needs another.              *)
(***************************************************************************)
EXTENDS Heap

(* nothing, 1 unit (a page but for its header), 2 units, a whole page *)
MCRequests == {0, 10, 20, 48}
=============================================================================
