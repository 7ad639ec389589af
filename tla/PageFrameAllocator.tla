------------------------- MODULE PageFrameAllocator -------------------------
(***************************************************************************)
(* The physical page frame allocator of the kernel and its callers: the    *)
(* operators of PageFrames, called in every order that                     *)
(* kernel/src/Paging/PageFrameAllocator.h offers them.                     *)
(***************************************************************************)
EXTENDS PageFrames

CONSTANTS
  MemoryMaps,   (* the EFI memory maps the firmware may hand over         *)
  ClientRanges  (* <<first, count>> arguments of the ...Pages calls       *)

ASSUME MemoryMapsAssumption ==
  \A map \in MemoryMaps : GetMemorySize(map) \in Nat

VARIABLES
  alloc,        (* the static GlobalAllocator and Info of the C file      *)
  memoryMap,    (* the firmware's memory map                              *)
  initialized,  (* Info.Initialized                                       *)
  answer,       (* the frame returned by the latest RequestPage           *)
  owner         (* history: who each set bit was set for                  *)

vars == <<alloc, memoryMap, initialized, answer, owner>>
-----------------------------------------------------------------------------
Nobody == [firmware |-> {}, bitmap |-> {}, handed |-> {}, pinned |-> {},
           reserved |-> {}, garbage |-> {}]

Init ==
  /\ memoryMap \in MemoryMaps
  /\ alloc = Unbooted
  /\ initialized = FALSE
  /\ answer = NULL
  /\ owner = Nobody

(* Frames no client has, so that a client may not give them back. *)
NotClients == owner.firmware \cup owner.bitmap

ReadEFIMemoryMap ==
  /\ ~initialized
  /\ initialized' = TRUE
  /\ \E garbage \in SUBSET {8 * BitmapSize(memoryMap)} :
       LET firmware == ReserveFirmware(memoryMap, garbage)
       IN  /\ alloc' = Boot(memoryMap, garbage)
           /\ owner' = [Nobody EXCEPT
                          !.firmware = firmware.bits,
                          !.bitmap   = Fresh(firmware, BitmapFrames(memoryMap)),
                          !.garbage  = garbage]
  /\ UNCHANGED <<memoryMap, answer>>

RequestGranted ==
  /\ Found(alloc)
  /\ alloc' = Grant(alloc)
  /\ answer' = FoundFrame(alloc)
  /\ owner' = [owner EXCEPT !.handed = @ \cup {FoundFrame(alloc)}]
  /\ UNCHANGED <<memoryMap, initialized>>

(* Also the answer before the memory map is read: the bitmap is empty. *)
RequestRefused ==
  /\ ~Found(alloc)
  /\ alloc' = Exhaust(alloc)
  /\ answer' = NULL
  /\ UNCHANGED <<memoryMap, initialized, owner>>

RequestPage == RequestGranted \/ RequestRefused

ClientLocksPages(R) ==
  /\ initialized
  /\ alloc' = LockPages(alloc, R)
  /\ owner' = [owner EXCEPT !.pinned = @ \cup Fresh(alloc, R)]
  /\ UNCHANGED <<memoryMap, initialized, answer>>

ClientReservesPages(R) ==
  /\ initialized
  /\ alloc' = ReservePages(alloc, R)
  /\ owner' = [owner EXCEPT !.reserved = @ \cup Fresh(alloc, R)]
  /\ UNCHANGED <<memoryMap, initialized, answer>>

(* FreePages and UnreservePages trust their caller: clients give back what *)
(* they were given, or what is clear already (a second free).              *)
ClientFreesPages(R) ==
  /\ initialized
  /\ R \cap (NotClients \cup owner.reserved) = {}
  /\ alloc' = FreePages(alloc, R)
  /\ owner' = [owner EXCEPT !.handed = @ \ R, !.pinned = @ \ R]
  /\ UNCHANGED <<memoryMap, initialized, answer>>

ClientUnreservesPages(R) ==
  /\ initialized
  /\ R \cap (NotClients \cup owner.handed \cup owner.pinned) = {}
  /\ alloc' = UnreservePages(alloc, R)
  /\ owner' = [owner EXCEPT !.reserved = @ \ R]
  /\ UNCHANGED <<memoryMap, initialized, answer>>

ClientCalls(R) ==
  \/ ClientLocksPages(R)
  \/ ClientReservesPages(R)
  \/ ClientFreesPages(R)
  \/ ClientUnreservesPages(R)

Next ==
  \/ ReadEFIMemoryMap
  \/ RequestPage
  \/ \E range \in ClientRanges : ClientCalls(Frames(range[1], range[2]))

Spec == Init /\ [][Next]_vars
-----------------------------------------------------------------------------
(***************************************************************************)
(* Properties.                                                             *)
(***************************************************************************)

OwnerStates ==
  [firmware: SUBSET Nat, bitmap: SUBSET Nat, handed: SUBSET Nat,
   pinned: SUBSET Nat, reserved: SUBSET Nat, garbage: SUBSET Nat]

(* The state has its types, no bit is set outside what Bitmap.c lets be    *)
(* accessed, and the cursor of RequestPage never runs past the bitmap.     *)
TypeOK ==
  /\ alloc \in AllocatorStates
  /\ alloc.bits \subseteq Bitmap_Indices(alloc)
  /\ alloc.pageBitmapIndex \in 0 .. BitLimit(alloc)
  /\ memoryMap \in MemoryMaps
  /\ initialized \in BOOLEAN
  /\ answer \in Nat
  /\ owner \in OwnerStates

(* Everything below the cursor is taken: RequestPage, which never looks    *)
(* back, misses no free frame.  Each call that clears a bit must keep it.  *)
CursorInv == \A f \in Clear(alloc) : alloc.pageBitmapIndex =< f

(* Every set bit has exactly one owner, whatever sequence of requests,     *)
(* locks, reservations and frees (second frees among them) came before:    *)
(* the pages of the bitmap itself and the firmware's are never given away. *)
Owners == {"firmware", "bitmap", "handed", "pinned", "reserved"}

Ownership ==
  /\ alloc.bits = UNION {owner[o] : o \in Owners}
  /\ \A o, p \in Owners : o # p => owner[o] \cap owner[p] = {}

(* What the getters report is what the bitmap says, modulo 2^64: used is   *)
(* what was locked, free is the installed memory without the set bits.     *)
(* (Free is not the number of clear frames: bits past the installed        *)
(* memory count, so the free counter wraps before the pool is empty.)      *)
CountersMatchBitmap ==
  initialized =>
    /\ GetUsedRAM(alloc)
         = Cardinality(owner.bitmap \cup owner.handed \cup owner.pinned)
             % CounterRange
    /\ GetFreeRAM(alloc)
         = (GetMemorySize(memoryMap) + Cardinality(owner.garbage)
              - Cardinality(alloc.bits)) % CounterRange
    /\ alloc.freeMemory + alloc.usedMemory + alloc.reservedMemory
         = GetMemorySize(memoryMap)

(* RequestPage only ever hands out conventional memory above the low part, *)
(* or a frame numbered past the size of the installed memory: the bits of  *)
(* the last byte that the initial ReservePages does not reach.             *)
HandedFramesAreConventional ==
  \A f \in owner.handed :
    /\ f >= LowPages
    /\ \/ f \in ConventionalFrames(memoryMap)
       \/ f > GetMemorySize(memoryMap)

(* The allocator keeps the promise of FramePool: a request is refused only *)
(* when no frame is free, and is answered with a frame that nobody has.    *)
Pool == INSTANCE FramePool
          WITH pool <- Clear(alloc), held <- Managed(alloc) \cap alloc.bits

ImplementsFramePool == Pool!Spec
=============================================================================
