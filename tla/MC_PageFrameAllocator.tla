----------------------- MODULE MC_PageFrameAllocator -----------------------
(***************************************************************************)
(* Small instances of PageFrameAllocator for TLC: an ordinary machine, one *)
(* whose described memory is not contiguous, and one whose memory size is  *)
(* a multiple of what the bitmap can index.                                *)
(***************************************************************************)
EXTENDS PageFrameAllocator

Descriptor(type, start, pages) == [type |-> type, start |-> start, pages |-> pages]

(* 13 frames, 16 bits: frames 14 and 15 do not exist but are clear. *)
Ordinary == <<Descriptor(7, 0, 3), Descriptor(2, 3, 2), Descriptor(7, 5, 6),
              Descriptor(0, 11, 2)>>

(* 9 frames described up to frame 14: firmware data lies past the size. *)
Holed == <<Descriptor(7, 0, 3), Descriptor(6, 9, 6)>>

(* 7 frames, 8 bits: frame 8, one past the bitmap, is conventional. *)
OffByOne == <<Descriptor(7, 0, 2), Descriptor(0, 2, 2), Descriptor(7, 7, 3)>>

MCMemoryMaps == {Ordinary, Holed, OffByOne}

(* Inside, overlapping reserved memory, and across the end of the bitmaps. *)
MCClientRanges == {<<5, 2>>, <<6, 1>>, <<2, 3>>, <<8, 1>>, <<15, 3>>, <<1, 1>>}
=============================================================================
