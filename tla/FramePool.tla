----------------------------- MODULE FramePool -----------------------------
(***************************************************************************)
(* What the kernel expects of a page frame allocator, without its bitmap,  *)
(* its scan cursor or its counters: a pool of frames nobody owns and the   *)
(* set of frames somebody does.  A request takes a frame out of the pool,  *)
(* and may be refused only when the pool is empty; no frame is ever in     *)
(* both sets.  PageFrameAllocator implements this module.                  *)
(***************************************************************************)
EXTENDS Naturals

VARIABLES
  pool,    (* the frames that a request may be answered with             *)
  held,    (* the frames in use, for whatever reason                     *)
  answer   (* the frame returned by the latest request, NULL for none    *)

vars == <<pool, held, answer>>

(* The C null pointer: also the address of frame 0. *)
NULL == 0

Init == pool = {} /\ held = {} /\ answer = NULL

(* The memory of the machine becomes known, part of it already in use. *)
Boot ==
  /\ pool \cup held = {}
  /\ pool' \cap held' = {}
  /\ UNCHANGED answer

Take ==
  \E f \in pool \ {NULL} :
    /\ pool' = pool \ {f}
    /\ held' = held \cup {f}
    /\ answer' = f

Refuse ==
  /\ pool = {}
  /\ answer' = NULL
  /\ UNCHANGED <<pool, held>>

(* Frames of the pool are put to use without having been asked for. *)
Withdraw ==
  /\ held \subseteq held'
  /\ held' \subseteq held \cup pool
  /\ pool' = pool \ held'
  /\ UNCHANGED answer

Return ==
  /\ held' \subseteq held
  /\ pool' = pool \cup (held \ held')
  /\ UNCHANGED answer

Next == Boot \/ Take \/ Refuse \/ Withdraw \/ Return

Spec == Init /\ [][Next]_vars
=============================================================================
