----------------------------- MODULE PageFrames -----------------------------
(***************************************************************************)
(* The page frame allocator as operators:                                  *)
(* kernel/src/Paging/PageFrameAllocator.c over kernel/src/Memory/Bitmap.c  *)
(* and kernel/src/Memory/Memory.c.                                         *)
(*                                                                         *)
(* A frame is its number (address / 4096) and every memory size is in      *)
(* frames.  The bitmap is the set of the indices whose bit is 1.  Each     *)
(* function of the C file is an operator from an allocator state to an     *)
(* allocator state, so that the modules that use the allocator and the     *)
(* proofs about it share one definition.                                   *)
(***************************************************************************)
EXTENDS Integers, FiniteSets, FiniteSetsExt, Functions, Sequences

CONSTANTS
  LowPages,     (* frames below 1 MiB, reserved at boot: 0x100            *)
  PageSize,     (* bytes of a frame: 4096                                 *)
  CounterRange  (* counters are taken modulo this: 2^64 / 4096 frames     *)

ASSUME LowPagesAssumption == LowPages \in Nat \ {0}
ASSUME PageSizeAssumption == PageSize \in Nat \ {0}
ASSUME CounterRangeAssumption == CounterRange \in Nat \ {0}

NULL == 0

(* The static GlobalAllocator and Info of the C file. *)
AllocatorStates ==
  [size: Nat, bits: SUBSET Nat, freeMemory: Int, reservedMemory: Int,
   usedMemory: Int, pageBitmapIndex: Nat]

Frames(first, count) == first .. (first + count - 1)

(***************************************************************************)
(* Bitmap.c.  Both accessors refuse an index only if it is larger than     *)
(* size * 8, so the bit at size * 8, one past the last, is accessible.     *)
(***************************************************************************)
BitLimit(s) == 8 * s.size
Bitmap_Indices(s) == 0 .. (8 * s.size)

(* The frames RequestPage scans. *)
Managed(s) == 0 .. (8 * s.size - 1)
Clear(s)   == Managed(s) \ s.bits

(* The bits of R that a set-bit loop turns to 1, and a clear-bit loop to 0. *)
(* Mutant: Bitmap_Set without its bounds check. *)
Fresh_Unbounded(s, R) == R \ s.bits

Fresh(s, R)  == (R \cap Bitmap_Indices(s)) \ s.bits
Marked(s, R) == (R \cap Bitmap_Indices(s)) \cap s.bits

(***************************************************************************)
(* The four range loops.  Each skips the frames whose bit already has the  *)
(* wanted value, and the two that clear bits pull the cursor down.         *)
(***************************************************************************)
LockPages(s, R) ==
  [s EXCEPT !.bits       = @ \cup Fresh(s, R),
            !.freeMemory = @ - Cardinality(Fresh(s, R)),
            !.usedMemory = @ + Cardinality(Fresh(s, R))]

(* Mutant: ReservePage counting a page that was reserved already. *)
ReservePages_CountsTwice(s, R) ==
  [s EXCEPT !.bits           = @ \cup Fresh(s, R),
            !.freeMemory     = @ - Cardinality(Fresh(s, R)),
            !.reservedMemory = @ + Cardinality(R \cap Bitmap_Indices(s))]

ReservePages(s, R) ==
  [s EXCEPT !.bits           = @ \cup Fresh(s, R),
            !.freeMemory     = @ - Cardinality(Fresh(s, R)),
            !.reservedMemory = @ + Cardinality(Fresh(s, R))]

(* Mutant: FreePage forgetting the scan cursor. *)
FreePages_KeepsCursor(s, R) ==
  [s EXCEPT !.bits       = @ \ Marked(s, R),
            !.freeMemory = @ + Cardinality(Marked(s, R)),
            !.usedMemory = @ - Cardinality(Marked(s, R))]

FreePages(s, R) ==
  [s EXCEPT !.bits            = @ \ Marked(s, R),
            !.freeMemory      = @ + Cardinality(Marked(s, R)),
            !.usedMemory      = @ - Cardinality(Marked(s, R)),
            !.pageBitmapIndex = Min({@} \cup Marked(s, R))]

UnreservePages(s, R) ==
  [s EXCEPT !.bits            = @ \ Marked(s, R),
            !.freeMemory      = @ + Cardinality(Marked(s, R)),
            !.reservedMemory  = @ - Cardinality(Marked(s, R)),
            !.pageBitmapIndex = Min({@} \cup Marked(s, R))]

(* Mutants: the scan ignoring the bitmap, and starting after the cursor. *)
Candidates_Taken(s)     == {f \in Managed(s) : s.pageBitmapIndex =< f}
Candidates_SkipFirst(s) == {f \in Clear(s) : s.pageBitmapIndex < f}

(* Frames the scan of RequestPage can still find. *)
Candidates(s) == {f \in Managed(s) : s.pageBitmapIndex =< f /\ f \notin s.bits}

(* RequestPage: the cursor stops at the frame it locks, or at the end. *)
Found(s) == Candidates(s) # {}
FoundFrame(s) == Min(Candidates(s))
Grant(s) ==
  LockPages([s EXCEPT !.pageBitmapIndex = FoundFrame(s)], {FoundFrame(s)})
Exhaust(s) ==
  [s EXCEPT !.pageBitmapIndex = IF @ < BitLimit(s) THEN BitLimit(s) ELSE @]

(***************************************************************************)
(* The firmware's memory map: a sequence of descriptors, of which type 7   *)
(* is conventional (free) memory.                                          *)
(***************************************************************************)
GetMemorySize(map) == FoldFunction(+, 0, [i \in DOMAIN map |-> map[i].pages])

Conventional(map) == {i \in DOMAIN map : map[i].type = 7}

ConventionalFrames(map) ==
  UNION {Frames(map[i].start, map[i].pages) : i \in Conventional(map)}

(* The first of the largest conventional segments; its pointer starts NULL. *)
LargestFreeSegment(map) ==
  LET Largest == {i \in Conventional(map) :
                    /\ map[i].pages > 0
                    /\ \A j \in Conventional(map) : map[j].pages =< map[i].pages}
  IN  IF Largest = {} THEN NULL ELSE map[Min(Largest)].start

BitmapSize(map) == GetMemorySize(map) \div 8 + 1

(* The frames of the bitmap's own buffer, as LockPages is called on them. *)
BitmapFrames(map) ==
  Frames(LargestFreeSegment(map), BitmapSize(map) \div PageSize + 1)

(* The size bytes of the buffer are zeroed, the byte after them is not.   *)
InitBitmap(map, garbage) ==
  [size            |-> BitmapSize(map),
   bits            |-> garbage \cap {8 * BitmapSize(map)},
   freeMemory      |-> GetMemorySize(map),
   reservedMemory  |-> 0,
   usedMemory      |-> 0,
   pageBitmapIndex |-> 0]

(* Mutant: the memory that no descriptor calls conventional left clear. *)
ReserveFirmware_OnlyLow(map, garbage) ==
  ReservePages(UnreservePages(InitBitmap(map, garbage), ConventionalFrames(map)),
               Frames(0, LowPages))

(* Reserve everything, give back what is conventional, keep the low part. *)
ReserveFirmware(map, garbage) ==
  LET all   == ReservePages(InitBitmap(map, garbage),
                            Frames(0, GetMemorySize(map) + 1))
      usable == UnreservePages(all, ConventionalFrames(map))
  IN  ReservePages(usable, Frames(0, LowPages))

(* Mutant: the bitmap's own frames left to be handed out. *)
Boot_BitmapUnlocked(map, garbage) == ReserveFirmware(map, garbage)

Boot(map, garbage) == LockPages(ReserveFirmware(map, garbage), BitmapFrames(map))

(* The getters, in frames: 64-bit unsigned arithmetic. *)
GetFreeRAM(s)     == s.freeMemory % CounterRange
GetUsedRAM(s)     == s.usedMemory % CounterRange
GetReservedRAM(s) == s.reservedMemory % CounterRange

(* The statics of the C file before the memory map is read. *)
Unbooted ==
  [size |-> 0, bits |-> {}, freeMemory |-> 0, reservedMemory |-> 0,
   usedMemory |-> 0, pageBitmapIndex |-> 0]
=============================================================================
