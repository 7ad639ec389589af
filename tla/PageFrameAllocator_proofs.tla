--------------------- MODULE PageFrameAllocator_proofs ---------------------
(***************************************************************************)
(* Proofs about the page frame allocator, for every memory map and every   *)
(* sequence of calls its clients may make.                                 *)
(***************************************************************************)
EXTENDS PageFrameAllocator, PageFrames_proofs

(***************************************************************************)
(* The inductive invariant.  TypeOK, CursorInv and Ownership are not       *)
(* inductive alone: what the counters hold, and which frames the firmware  *)
(* keeps, is established at boot and relates the history to the bitmap.    *)
(***************************************************************************)
Locked == owner.bitmap \cup owner.handed \cup owner.pinned

Unusable(f) ==
  \/ f < LowPages
  \/ f \notin ConventionalFrames(memoryMap) /\ f =< GetMemorySize(memoryMap)

BootedInv ==
  /\ alloc.size = BitmapSize(memoryMap)
  /\ alloc.usedMemory = Cardinality(Locked)
  /\ Balance(alloc) = GetMemorySize(memoryMap) + Cardinality(owner.garbage)
  /\ Total(alloc) = GetMemorySize(memoryMap)
  /\ owner.garbage \subseteq {8 * BitmapSize(memoryMap)}
  /\ owner.handed \subseteq Managed(alloc)
  /\ \A f \in Managed(alloc) : Unusable(f) => f \in owner.firmware

IInv ==
  /\ TypeOK
  /\ CursorInv
  /\ Ownership
  /\ ~initialized => alloc = Unbooted /\ owner = Nobody
  /\ initialized => BootedInv

(* The allocator part of the invariant is the consistency of its state.    *)
LEMMA InvConsistent == IInv => Consistent(alloc)
BY DEF IInv, TypeOK, CursorInv, Consistent

(* Ownership, owner by owner.                                              *)
Disjoint(A, B) == A \cap B = {}

OwnershipOf(bits, o) ==
  /\ bits = o.firmware \cup o.bitmap \cup o.handed \cup o.pinned \cup o.reserved
  /\ Disjoint(o.firmware, o.bitmap) /\ Disjoint(o.firmware, o.handed)
  /\ Disjoint(o.firmware, o.pinned) /\ Disjoint(o.firmware, o.reserved)
  /\ Disjoint(o.bitmap, o.handed)   /\ Disjoint(o.bitmap, o.pinned)
  /\ Disjoint(o.bitmap, o.reserved) /\ Disjoint(o.handed, o.pinned)
  /\ Disjoint(o.handed, o.reserved) /\ Disjoint(o.pinned, o.reserved)

LEMMA OwnershipExpanded == Ownership <=> OwnershipOf(alloc.bits, owner)
<1>1. UNION {owner[o] : o \in Owners}
        = owner.firmware \cup owner.bitmap \cup owner.handed
            \cup owner.pinned \cup owner.reserved
  BY DEF Owners
<1>2. (\A o, p \in Owners : o # p => owner[o] \cap owner[p] = {})
        <=> /\ Disjoint(owner.firmware, owner.bitmap)
            /\ Disjoint(owner.firmware, owner.handed)
            /\ Disjoint(owner.firmware, owner.pinned)
            /\ Disjoint(owner.firmware, owner.reserved)
            /\ Disjoint(owner.bitmap, owner.handed)
            /\ Disjoint(owner.bitmap, owner.pinned)
            /\ Disjoint(owner.bitmap, owner.reserved)
            /\ Disjoint(owner.handed, owner.pinned)
            /\ Disjoint(owner.handed, owner.reserved)
            /\ Disjoint(owner.pinned, owner.reserved)
  BY DEF Owners, Disjoint
<1> QED BY <1>1, <1>2 DEF Ownership, OwnershipOf

LEMMA OwnershipExpandedNext == Ownership' <=> OwnershipOf(alloc'.bits, owner')
<1>1. UNION {owner'[o] : o \in Owners}
        = owner'.firmware \cup owner'.bitmap \cup owner'.handed
            \cup owner'.pinned \cup owner'.reserved
  BY DEF Owners
<1>2. (\A o, p \in Owners : o # p => owner'[o] \cap owner'[p] = {})
        <=> /\ Disjoint(owner'.firmware, owner'.bitmap)
            /\ Disjoint(owner'.firmware, owner'.handed)
            /\ Disjoint(owner'.firmware, owner'.pinned)
            /\ Disjoint(owner'.firmware, owner'.reserved)
            /\ Disjoint(owner'.bitmap, owner'.handed)
            /\ Disjoint(owner'.bitmap, owner'.pinned)
            /\ Disjoint(owner'.bitmap, owner'.reserved)
            /\ Disjoint(owner'.handed, owner'.pinned)
            /\ Disjoint(owner'.handed, owner'.reserved)
            /\ Disjoint(owner'.pinned, owner'.reserved)
  BY DEF Owners, Disjoint
<1> QED BY <1>1, <1>2 DEF Ownership, OwnershipOf, Owners

LEMMA InitInv == Init => IInv
<1> SUFFICES ASSUME Init PROVE IInv
  OBVIOUS
<1>1. TypeOK
  <2>1. alloc \in AllocatorStates
    BY DEF Init, Unbooted, AllocatorStates
  <2>2. owner \in OwnerStates
    BY DEF Init, Nobody, OwnerStates
  <2>3. alloc.bits = {} /\ alloc.pageBitmapIndex = 0 /\ alloc.size = 0
    BY DEF Init, Unbooted
  <2>4. alloc.pageBitmapIndex \in 0 .. BitLimit(alloc)
    BY <2>3 DEF BitLimit
  <2>5. alloc.bits \subseteq Bitmap_Indices(alloc)
    BY <2>3
  <2> QED
    BY <2>1, <2>2, <2>4, <2>5 DEF Init, TypeOK, NULL
<1>2. CursorInv
  BY DEF Init, CursorInv, Unbooted, Clear, Managed
<1>3. Ownership
  BY OwnershipExpanded DEF Init, Unbooted, Nobody, OwnershipOf, Disjoint
<1> QED BY <1>1, <1>2, <1>3 DEF Init, IInv
-----------------------------------------------------------------------------
(* Reading the memory map establishes the invariant.                       *)
LEMMA BootStep == IInv /\ ReadEFIMemoryMap => IInv'
<1> SUFFICES ASSUME IInv, ReadEFIMemoryMap PROVE IInv'
  OBVIOUS
<1>1. memoryMap \in MemoryMaps /\ GetMemorySize(memoryMap) \in Nat /\ answer \in Nat
  BY MemoryMapsAssumption DEF IInv, TypeOK
<1>2. PICK garbage \in SUBSET {8 * BitmapSize(memoryMap)} :
        /\ alloc' = Boot(memoryMap, garbage)
        /\ owner' = [Nobody EXCEPT
             !.firmware = ReserveFirmware(memoryMap, garbage).bits,
             !.bitmap   = Fresh(ReserveFirmware(memoryMap, garbage),
                                BitmapFrames(memoryMap)),
             !.garbage  = garbage]
  BY DEF ReadEFIMemoryMap
<1> DEFINE firmware == ReserveFirmware(memoryMap, garbage)
           new == Fresh(firmware, BitmapFrames(memoryMap))
<1>3. /\ Consistent(firmware)
      /\ Consistent(alloc')
      /\ alloc' = LockPages(firmware, BitmapFrames(memoryMap))
      /\ firmware.usedMemory = 0
      /\ firmware.size = BitmapSize(memoryMap)
      /\ alloc'.size = BitmapSize(memoryMap)
      /\ Balance(alloc') = GetMemorySize(memoryMap) + Cardinality(garbage)
      /\ Total(alloc') = GetMemorySize(memoryMap)
      /\ \A f \in 0 .. (8 * BitmapSize(memoryMap) - 1) :
           \/ f < LowPages
           \/ f \notin ConventionalFrames(memoryMap) /\ f =< GetMemorySize(memoryMap)
           => f \in firmware.bits
  BY <1>1, <1>2, BootFacts
<1>4. garbage \in SUBSET Nat /\ firmware.bits \in SUBSET Nat /\ new \in SUBSET Nat
  <2> HIDE DEF firmware
  <2>1. garbage \in SUBSET Nat
    BY <1>1, <1>2, InitBitmapFacts
  <2>2. firmware.bits \in SUBSET Nat
    BY <1>3 DEF Consistent, AllocatorStates
  <2>3. new \subseteq Bitmap_Indices(firmware)
    BY <1>3, FreshFacts
  <2> QED BY <2>1, <2>2, <2>3 DEF Bitmap_Indices
<1> HIDE DEF firmware
<1>5. /\ memoryMap' = memoryMap
      /\ answer' = answer
      /\ initialized' = TRUE
  BY DEF ReadEFIMemoryMap
<1>6. /\ owner' = [firmware |-> firmware.bits, bitmap |-> new, handed |-> {},
                   pinned |-> {}, reserved |-> {}, garbage |-> garbage]
      /\ owner' \in OwnerStates
  <2>1. owner' = [firmware |-> firmware.bits, bitmap |-> new, handed |-> {},
                  pinned |-> {}, reserved |-> {}, garbage |-> garbage]
    BY <1>2 DEF Nobody, firmware
  <2> HIDE DEF new
  <2> QED BY <1>4, <2>1 DEF OwnerStates
<1>7. /\ alloc'.bits = firmware.bits \cup new
      /\ alloc'.usedMemory = firmware.usedMemory + Cardinality(new)
      /\ firmware.bits \cap new = {}
      /\ Cardinality(new) \in Nat
  BY <1>3, SetBitsEffect, FreshFacts DEF Consistent
<1> HIDE DEF new
<1>8. TypeOK' /\ CursorInv'
  BY <1>1, <1>3, <1>5, <1>6 DEF TypeOK, CursorInv, Consistent, Bitmap_Indices,
     BitLimit, Clear, Managed
<1>9. Ownership'
  BY <1>6, <1>7, OwnershipExpandedNext DEF OwnershipOf, Disjoint
<1>10. BootedInv'
  <2>1. Locked' = new
    BY <1>6 DEF Locked
  <2>2. owner'.handed = {} /\ owner'.garbage = garbage
        /\ owner'.firmware = firmware.bits
    BY <1>6
  <2> QED
    BY <1>3, <1>5, <1>7, <2>1, <2>2
       DEF BootedInv, Managed, Unusable, Balance, Total
<1> QED BY <1>5, <1>8, <1>9, <1>10 DEF IInv
-----------------------------------------------------------------------------
(* What the bitmap and its owners have in common once booted.              *)
LEMMA InvFacts ==
  ASSUME IInv
  PROVE  /\ Consistent(alloc)
         /\ alloc \in AllocatorStates
         /\ IsFiniteSet(alloc.bits)
         /\ OwnershipOf(alloc.bits, owner)
         /\ owner \in OwnerStates
         /\ Locked \subseteq alloc.bits
         /\ IsFiniteSet(Locked)
<1>1. Consistent(alloc)
  BY InvConsistent
<1>2. IsFiniteSet(alloc.bits)
  BY <1>1, FreshFacts
<1>3. OwnershipOf(alloc.bits, owner)
  BY OwnershipExpanded DEF IInv
<1>4. Locked \subseteq alloc.bits
  BY <1>3 DEF OwnershipOf, Locked
<1>5. IsFiniteSet(Locked)
  BY <1>2, <1>4, FS_Subset
<1> QED BY <1>1, <1>2, <1>3, <1>4, <1>5 DEF Consistent, IInv, TypeOK

(* A frame that is granted was clear, so that it had no owner.             *)
LEMMA GrantedStep == IInv /\ RequestGranted => IInv'
<1> SUFFICES ASSUME IInv, RequestGranted PROVE IInv'
  OBVIOUS
<1> DEFINE f == FoundFrame(alloc)
           locked == LockPages(alloc, {f})
<1>1. /\ Consistent(alloc)
      /\ alloc \in AllocatorStates
      /\ OwnershipOf(alloc.bits, owner)
      /\ owner \in OwnerStates
      /\ Locked \subseteq alloc.bits
      /\ IsFiniteSet(Locked)
  BY InvFacts
<1>2. /\ f \in Clear(alloc)
      /\ f \in Nat
      /\ Fresh(alloc, {f}) = {f}
      /\ Consistent(alloc')
      /\ alloc' = [locked EXCEPT !.pageBitmapIndex = f]
  BY <1>1, GrantFacts DEF RequestGranted
<1>3. /\ Consistent(locked)
      /\ locked.size = alloc.size
      /\ Balance(locked) = Balance(alloc)
      /\ Total(locked) = Total(alloc)
  BY <1>1, SetBitsConsistent, LoopsKeepBalance
<1>4. /\ owner' = [owner EXCEPT !.handed = owner.handed \cup {f}]
      /\ answer' = f
      /\ memoryMap' = memoryMap
      /\ initialized' = initialized
  BY DEF RequestGranted
<1> HIDE DEF f
<1>5. /\ locked.bits = alloc.bits \cup {f}
      /\ locked.usedMemory = alloc.usedMemory + Cardinality({f})
  <2>1. PICK R : R = {f}
    OBVIOUS
  <2>2. /\ LockPages(alloc, R).bits = alloc.bits \cup Fresh(alloc, R)
        /\ LockPages(alloc, R).usedMemory = alloc.usedMemory + Cardinality(Fresh(alloc, R))
    BY ONLY <1>1, SetBitsEffect
  <2> QED BY ONLY <1>2, <2>1, <2>2
<1> HIDE DEF locked
<1>6. /\ alloc'.size = alloc.size
      /\ alloc'.bits = alloc.bits \cup {f}
      /\ alloc'.usedMemory = alloc.usedMemory + Cardinality({f})
      /\ Balance(alloc') = Balance(locked)
      /\ Total(alloc') = Total(locked)
  <2>1. PICK r \in AllocatorStates : r = locked
    BY <1>3 DEF Consistent
  <2>2. alloc' = [r EXCEPT !.pageBitmapIndex = f]
    BY <1>2, <2>1
  <2>3. /\ alloc'.size = r.size /\ alloc'.bits = r.bits
        /\ alloc'.freeMemory = r.freeMemory
        /\ alloc'.reservedMemory = r.reservedMemory
        /\ alloc'.usedMemory = r.usedMemory
    BY ONLY <2>2 DEF AllocatorStates
  <2>4. Balance(alloc') = Balance(r) /\ Total(alloc') = Total(r)
    BY ONLY <2>3 DEF Balance, Total
  <2> QED BY ONLY <1>3, <1>5, <2>1, <2>3, <2>4
<1>7. /\ owner' \in OwnerStates
      /\ owner'.handed = owner.handed \cup {f}
      /\ owner'.firmware = owner.firmware
      /\ owner'.bitmap = owner.bitmap
      /\ owner'.pinned = owner.pinned
      /\ owner'.reserved = owner.reserved
      /\ owner'.garbage = owner.garbage
  BY <1>1, <1>2, <1>4 DEF OwnerStates
<1>8. TypeOK' /\ CursorInv'
  BY <1>2, <1>4, <1>7 DEF IInv, TypeOK, CursorInv, Consistent, Bitmap_Indices,
     BitLimit, Clear, Managed
<1>9. f \notin alloc.bits /\ f \in Managed(alloc)
  BY <1>2 DEF Clear
<1>10. Ownership'
  BY <1>1, <1>6, <1>7, <1>9, OwnershipExpandedNext DEF OwnershipOf, Disjoint
<1>11. initialized
  <2>1. SUFFICES ASSUME ~initialized PROVE FALSE
    OBVIOUS
  <2>2. alloc.size = 0
    BY <2>1 DEF IInv, Unbooted
  <2> QED BY <1>9, <2>2 DEF Managed
<1>12. BootedInv'
  <2>1. BootedInv
    BY <1>11 DEF IInv
  <2>2. Locked' = Locked \cup {f}
    BY <1>7 DEF Locked
  <2>3. Cardinality(Locked \cup {f}) = Cardinality(Locked) + Cardinality({f})
    <3>1. IsFiniteSet({f}) /\ Locked \cap {f} = {}
      BY <1>1, <1>9, FS_Singleton
    <3> QED BY <1>1, <3>1, DisjointUnion
  <2> QED
    BY <1>3, <1>4, <1>6, <1>7, <1>9, <2>1, <2>2, <2>3
       DEF BootedInv, Managed, Unusable
<1> QED BY <1>4, <1>8, <1>10, <1>11, <1>12 DEF IInv

LEMMA RefusedStep == IInv /\ RequestRefused => IInv'
<1> SUFFICES ASSUME IInv, RequestRefused PROVE IInv'
  OBVIOUS
<1>1. /\ Consistent(alloc)
      /\ alloc \in AllocatorStates
      /\ OwnershipOf(alloc.bits, owner)
  BY InvFacts
<1>2. /\ Consistent(alloc')
      /\ alloc' = [alloc EXCEPT !.pageBitmapIndex = BitLimit(alloc)]
  BY <1>1, ExhaustFacts DEF RequestRefused
<1>3. /\ UNCHANGED <<memoryMap, initialized, owner>>
      /\ answer' = NULL
  BY DEF RequestRefused
<1>4. /\ alloc'.size = alloc.size
      /\ alloc'.bits = alloc.bits
      /\ alloc'.usedMemory = alloc.usedMemory
      /\ Balance(alloc') = Balance(alloc)
      /\ Total(alloc') = Total(alloc)
  BY <1>1, <1>2 DEF AllocatorStates, Balance, Total
<1>5. TypeOK' /\ CursorInv'
  BY <1>2, <1>3 DEF IInv, TypeOK, CursorInv, Consistent, Bitmap_Indices,
     BitLimit, Clear, Managed, NULL
<1>6. Ownership'
  BY <1>1, <1>3, <1>4, OwnershipExpandedNext
<1>7. ASSUME initialized PROVE BootedInv'
  BY <1>3, <1>4, <1>7 DEF IInv, BootedInv, Managed, Unusable, Locked
<1>8. ASSUME ~initialized PROVE alloc' = Unbooted
  BY <1>2, <1>8 DEF IInv, Unbooted, BitLimit
<1> QED BY <1>3, <1>5, <1>6, <1>7, <1>8 DEF IInv

(* Frames a client locks or reserves were clear, those it gives back were  *)
(* its own or clear already.                                               *)
LEMMA LocksPagesStep ==
  ASSUME IInv, NEW R, ClientLocksPages(R)
  PROVE  IInv'
<1> DEFINE new == Fresh(alloc, R)
<1>1. /\ Consistent(alloc)
      /\ alloc \in AllocatorStates
      /\ OwnershipOf(alloc.bits, owner)
      /\ owner \in OwnerStates
      /\ Locked \subseteq alloc.bits
      /\ IsFiniteSet(Locked)
  BY InvFacts
<1>2. /\ initialized
      /\ alloc' = LockPages(alloc, R)
      /\ UNCHANGED <<memoryMap, initialized, answer>>
  BY DEF ClientLocksPages
<1>3. /\ Consistent(alloc')
      /\ alloc'.size = alloc.size
      /\ Balance(alloc') = Balance(alloc)
      /\ Total(alloc') = Total(alloc)
  BY <1>1, <1>2, SetBitsConsistent, LoopsKeepBalance
<1>4. /\ new \in SUBSET Nat
      /\ new \cap alloc.bits = {}
      /\ IsFiniteSet(new)
  <2>1. /\ new \subseteq Bitmap_Indices(alloc)
        /\ new \cap alloc.bits = {}
        /\ IsFiniteSet(new)
    BY <1>1, FreshFacts
  <2> QED BY <2>1 DEF Bitmap_Indices
<1>5. /\ alloc'.bits = alloc.bits \cup new
      /\ alloc'.usedMemory = alloc.usedMemory + Cardinality(new)
  BY <1>1, <1>2, SetBitsEffect
<1>6. owner' = [owner EXCEPT !.pinned = owner.pinned \cup new]
  BY DEF ClientLocksPages
<1> HIDE DEF new
<1>7. /\ owner' \in OwnerStates
      /\ owner'.firmware = owner.firmware
      /\ owner'.bitmap = owner.bitmap
      /\ owner'.handed = owner.handed
      /\ owner'.pinned = owner.pinned \cup new
      /\ owner'.reserved = owner.reserved
      /\ owner'.garbage = owner.garbage
  BY <1>1, <1>4, <1>6 DEF OwnerStates
<1>8. TypeOK' /\ CursorInv'
  BY <1>2, <1>3, <1>7 DEF IInv, TypeOK, CursorInv, Consistent
<1>9. Ownership'
  BY <1>1, <1>4, <1>5, <1>6, <1>7, OwnershipExpandedNext DEF OwnershipOf, Disjoint
<1>10. BootedInv'
  <2>1. BootedInv
    BY <1>2 DEF IInv
  <2>2. Locked' = Locked \cup new
    BY <1>7 DEF Locked
  <2>3. Locked \cap new = {}
    BY <1>1, <1>4
  <2>4. Cardinality(Locked \cup new) = Cardinality(Locked) + Cardinality(new)
    BY <1>1, <1>4, <2>3, DisjointUnion
  <2> QED
    BY <1>2, <1>3, <1>5, <1>7, <2>1, <2>2, <2>4 DEF BootedInv, Managed, Unusable
<1> QED BY <1>2, <1>8, <1>9, <1>10 DEF IInv

LEMMA ReservesPagesStep ==
  ASSUME IInv, NEW R, ClientReservesPages(R)
  PROVE  IInv'
<1> DEFINE new == Fresh(alloc, R)
<1>1. /\ Consistent(alloc)
      /\ alloc \in AllocatorStates
      /\ OwnershipOf(alloc.bits, owner)
      /\ owner \in OwnerStates
      /\ Locked \subseteq alloc.bits
      /\ IsFiniteSet(Locked)
  BY InvFacts
<1>2. /\ initialized
      /\ alloc' = ReservePages(alloc, R)
      /\ UNCHANGED <<memoryMap, initialized, answer>>
  BY DEF ClientReservesPages
<1>3. /\ Consistent(alloc')
      /\ alloc'.size = alloc.size
      /\ Balance(alloc') = Balance(alloc)
      /\ Total(alloc') = Total(alloc)
  BY <1>1, <1>2, SetBitsConsistent, LoopsKeepBalance
<1>4. /\ new \in SUBSET Nat
      /\ new \cap alloc.bits = {}
      /\ IsFiniteSet(new)
  <2>1. /\ new \subseteq Bitmap_Indices(alloc)
        /\ new \cap alloc.bits = {}
        /\ IsFiniteSet(new)
    BY <1>1, FreshFacts
  <2> QED BY <2>1 DEF Bitmap_Indices
<1>5. /\ alloc'.bits = alloc.bits \cup new
      /\ alloc'.usedMemory = alloc.usedMemory
  BY <1>1, <1>2, SetBitsEffect
<1>6. owner' = [owner EXCEPT !.reserved = owner.reserved \cup new]
  BY DEF ClientReservesPages
<1> HIDE DEF new
<1>7. /\ owner' \in OwnerStates
      /\ owner'.firmware = owner.firmware
      /\ owner'.bitmap = owner.bitmap
      /\ owner'.handed = owner.handed
      /\ owner'.pinned = owner.pinned
      /\ owner'.reserved = owner.reserved \cup new
      /\ owner'.garbage = owner.garbage
  BY <1>1, <1>4, <1>6 DEF OwnerStates
<1>8. TypeOK' /\ CursorInv'
  BY <1>2, <1>3, <1>7 DEF IInv, TypeOK, CursorInv, Consistent
<1>9. Ownership'
  BY <1>1, <1>4, <1>5, <1>6, <1>7, OwnershipExpandedNext DEF OwnershipOf, Disjoint
<1>10. BootedInv'
  <2>1. BootedInv
    BY <1>2 DEF IInv
  <2>2. Locked' = Locked
    BY <1>7 DEF Locked
  <2> QED
    BY <1>2, <1>3, <1>5, <1>7, <2>1, <2>2 DEF BootedInv, Managed, Unusable
<1> QED BY <1>2, <1>8, <1>9, <1>10 DEF IInv

LEMMA FreesPagesStep ==
  ASSUME IInv, NEW R, ClientFreesPages(R)
  PROVE  IInv'
<1> DEFINE old == Marked(alloc, R)
<1>1. /\ Consistent(alloc)
      /\ alloc \in AllocatorStates
      /\ OwnershipOf(alloc.bits, owner)
      /\ owner \in OwnerStates
      /\ Locked \subseteq alloc.bits
      /\ IsFiniteSet(Locked)
  BY InvFacts
<1>2. /\ initialized
      /\ alloc' = FreePages(alloc, R)
      /\ UNCHANGED <<memoryMap, initialized, answer>>
  BY DEF ClientFreesPages
<1>3. /\ Consistent(alloc')
      /\ alloc'.size = alloc.size
      /\ Balance(alloc') = Balance(alloc)
      /\ Total(alloc') = Total(alloc)
  BY <1>1, <1>2, ClearBitsConsistent, LoopsKeepBalance
<1>4. /\ old = R \cap alloc.bits
      /\ IsFiniteSet(old)
  BY <1>1, MarkedFacts
<1>5. /\ alloc'.bits = alloc.bits \ old
      /\ alloc'.usedMemory = alloc.usedMemory - Cardinality(old)
  BY <1>1, <1>2, ClearBitsEffect
<1>6. /\ owner' = [owner EXCEPT !.handed = owner.handed \ R,
                               !.pinned = owner.pinned \ R]
      /\ R \cap (owner.firmware \cup owner.bitmap \cup owner.reserved) = {}
  BY DEF ClientFreesPages, NotClients
<1> HIDE DEF old
<1>7. /\ owner' \in OwnerStates
      /\ owner'.firmware = owner.firmware
      /\ owner'.bitmap = owner.bitmap
      /\ owner'.handed = owner.handed \ R
      /\ owner'.pinned = owner.pinned \ R
      /\ owner'.reserved = owner.reserved
      /\ owner'.garbage = owner.garbage
  BY <1>1, <1>6 DEF OwnerStates
<1>8. TypeOK' /\ CursorInv'
  BY <1>2, <1>3, <1>7 DEF IInv, TypeOK, CursorInv, Consistent
<1>9. Ownership'
  BY <1>1, <1>4, <1>5, <1>6, <1>7, OwnershipExpandedNext DEF OwnershipOf, Disjoint
<1>10. BootedInv'
  <2>1. BootedInv
    BY <1>2 DEF IInv
  <2>2. Locked' = Locked \ old /\ old \subseteq Locked
    BY <1>1, <1>4, <1>6, <1>7 DEF Locked, OwnershipOf
  <2>3. Cardinality(Locked \ old) = Cardinality(Locked) - Cardinality(old)
    BY <1>1, <2>2, RemoveSubset
  <2> QED
    BY <1>2, <1>3, <1>5, <1>7, <2>1, <2>2, <2>3 DEF BootedInv, Managed, Unusable
<1> QED BY <1>2, <1>8, <1>9, <1>10 DEF IInv

LEMMA UnreservesPagesStep ==
  ASSUME IInv, NEW R, ClientUnreservesPages(R)
  PROVE  IInv'
<1> DEFINE old == Marked(alloc, R)
<1>1. /\ Consistent(alloc)
      /\ alloc \in AllocatorStates
      /\ OwnershipOf(alloc.bits, owner)
      /\ owner \in OwnerStates
      /\ Locked \subseteq alloc.bits
      /\ IsFiniteSet(Locked)
  BY InvFacts
<1>2. /\ initialized
      /\ alloc' = UnreservePages(alloc, R)
      /\ UNCHANGED <<memoryMap, initialized, answer>>
  BY DEF ClientUnreservesPages
<1>3. /\ Consistent(alloc')
      /\ alloc'.size = alloc.size
      /\ Balance(alloc') = Balance(alloc)
      /\ Total(alloc') = Total(alloc)
  BY <1>1, <1>2, ClearBitsConsistent, LoopsKeepBalance
<1>4. old = R \cap alloc.bits
  BY <1>1, MarkedFacts
<1>5. /\ alloc'.bits = alloc.bits \ old
      /\ alloc'.usedMemory = alloc.usedMemory
  BY <1>1, <1>2, ClearBitsEffect
<1>6. /\ owner' = [owner EXCEPT !.reserved = owner.reserved \ R]
      /\ R \cap (owner.firmware \cup owner.bitmap \cup owner.handed
                 \cup owner.pinned) = {}
  BY DEF ClientUnreservesPages, NotClients
<1> HIDE DEF old
<1>7. /\ owner' \in OwnerStates
      /\ owner'.firmware = owner.firmware
      /\ owner'.bitmap = owner.bitmap
      /\ owner'.handed = owner.handed
      /\ owner'.pinned = owner.pinned
      /\ owner'.reserved = owner.reserved \ R
      /\ owner'.garbage = owner.garbage
  BY <1>1, <1>6 DEF OwnerStates
<1>8. TypeOK' /\ CursorInv'
  BY <1>2, <1>3, <1>7 DEF IInv, TypeOK, CursorInv, Consistent
<1>9. Ownership'
  BY <1>1, <1>4, <1>5, <1>6, <1>7, OwnershipExpandedNext DEF OwnershipOf, Disjoint
<1>10. BootedInv'
  <2>1. BootedInv
    BY <1>2 DEF IInv
  <2>2. Locked' = Locked
    BY <1>7 DEF Locked
  <2> QED
    BY <1>2, <1>3, <1>5, <1>7, <2>1, <2>2 DEF BootedInv, Managed, Unusable
<1> QED BY <1>2, <1>8, <1>9, <1>10 DEF IInv
-----------------------------------------------------------------------------
LEMMA StutterStep == IInv /\ UNCHANGED vars => IInv'
<1> SUFFICES ASSUME IInv, UNCHANGED vars PROVE IInv'
  OBVIOUS
<1> USE DEF vars
<1>1. TypeOK' /\ CursorInv'
  BY DEF IInv, TypeOK, CursorInv
<1>2. Ownership'
  BY OwnershipExpanded, OwnershipExpandedNext DEF IInv
<1>3. initialized => BootedInv'
  BY DEF IInv, BootedInv, Locked, Unusable
<1> QED BY <1>1, <1>2, <1>3 DEF IInv

LEMMA NextStep == IInv /\ [Next]_vars => IInv'
<1> SUFFICES ASSUME IInv, [Next]_vars PROVE IInv'
  OBVIOUS
<1>1. CASE ReadEFIMemoryMap
  BY <1>1, BootStep
<1>2. CASE RequestPage
  BY <1>2, GrantedStep, RefusedStep DEF RequestPage
<1>3. ASSUME NEW range \in ClientRanges,
             ClientCalls(Frames(range[1], range[2]))
      PROVE  IInv'
  BY <1>3, LocksPagesStep, ReservesPagesStep, FreesPagesStep, UnreservesPagesStep
     DEF ClientCalls
<1>4. CASE UNCHANGED vars
  BY <1>4, StutterStep
<1> QED BY <1>1, <1>2, <1>3, <1>4 DEF Next

THEOREM Invariance == Spec => []IInv
BY InitInv, NextStep, PTL DEF Spec

(* The allocator keeps its types in every execution.                       *)
THEOREM TypeCorrect == Spec => []TypeOK
<1>1. IInv => TypeOK
  BY DEF IInv
<1> QED BY <1>1, Invariance, PTL

(* RequestPage never overlooks a free frame: the cursor is not past one.   *)
THEOREM CursorCorrect == Spec => []CursorInv
<1>1. IInv => CursorInv
  BY DEF IInv
<1> QED BY <1>1, Invariance, PTL

(* No frame has two owners, and none is marked used without one.           *)
THEOREM OwnershipCorrect == Spec => []Ownership
<1>1. IInv => Ownership
  BY DEF IInv
<1> QED BY <1>1, Invariance, PTL

(* The three getters agree with the bitmap and with what was locked.       *)
THEOREM CountersCorrect == Spec => []CountersMatchBitmap
<1>1. IInv => CountersMatchBitmap
  <2> SUFFICES ASSUME IInv, initialized PROVE CountersMatchBitmap
    BY DEF CountersMatchBitmap
  <2>1. BootedInv
    BY DEF IInv
  <2>2. /\ alloc.freeMemory \in Int
        /\ alloc.usedMemory \in Int
        /\ alloc.reservedMemory \in Int
        /\ Cardinality(alloc.bits) \in Nat
        /\ Cardinality(owner.garbage) \in Nat
        /\ GetMemorySize(memoryMap) \in Nat
    <3>1. Consistent(alloc)
      BY InvConsistent
    <3>2. IsFiniteSet(owner.garbage)
      <4>1. owner.garbage \subseteq {8 * BitmapSize(memoryMap)}
        BY <2>1 DEF BootedInv
      <4>2. IsFiniteSet({8 * BitmapSize(memoryMap)})
        BY FS_Singleton
      <4> QED BY <4>1, <4>2, FS_Subset
    <3>3. GetMemorySize(memoryMap) \in Nat
      BY MemoryMapsAssumption DEF IInv, TypeOK
    <3> QED BY <3>1, <3>2, <3>3, FreshFacts, FS_CardinalityType
            DEF Consistent, AllocatorStates
  <2>3. alloc.freeMemory = GetMemorySize(memoryMap) + Cardinality(owner.garbage)
                             - Cardinality(alloc.bits)
    BY <2>1, <2>2 DEF BootedInv, Balance
  <2>4. GetUsedRAM(alloc)
          = Cardinality(owner.bitmap \cup owner.handed \cup owner.pinned)
              % CounterRange
    BY <2>1 DEF BootedInv, Locked, GetUsedRAM
  <2>5. GetFreeRAM(alloc)
          = (GetMemorySize(memoryMap) + Cardinality(owner.garbage)
               - Cardinality(alloc.bits)) % CounterRange
    BY <2>3 DEF GetFreeRAM
  <2>6. alloc.freeMemory + alloc.usedMemory + alloc.reservedMemory
          = GetMemorySize(memoryMap)
    BY <2>1 DEF BootedInv, Total
  <2> QED BY <2>4, <2>5, <2>6 DEF CountersMatchBitmap
<1> QED BY <1>1, Invariance, PTL

(* What RequestPage hands out is conventional memory above the low frames, *)
(* or has a number past the size of the installed memory.                  *)
THEOREM HandedFramesCorrect == Spec => []HandedFramesAreConventional
<1>1. IInv => HandedFramesAreConventional
  <2> SUFFICES ASSUME IInv, NEW f \in owner.handed
               PROVE  /\ f >= LowPages
                      /\ \/ f \in ConventionalFrames(memoryMap)
                         \/ f > GetMemorySize(memoryMap)
    BY DEF HandedFramesAreConventional
  <2>1. /\ f \notin owner.firmware
        /\ f \in Nat
    BY InvFacts DEF OwnershipOf, Disjoint, OwnerStates
  <2>2. initialized
    BY DEF IInv, Nobody
  <2>3. f \in Managed(alloc) /\ ~Unusable(f)
    BY <2>1, <2>2 DEF IInv, BootedInv
  <2>4. GetMemorySize(memoryMap) \in Nat /\ LowPages \in Nat
    BY MemoryMapsAssumption, LowPagesAssumption DEF IInv, TypeOK
  <2> QED BY <2>1, <2>3, <2>4 DEF Unusable
<1> QED BY <1>1, Invariance, PTL
-----------------------------------------------------------------------------
(***************************************************************************)
(* The allocator implements FramePool: one lemma for the initial state and *)
(* one for each action, then the refinement theorem.                       *)
(***************************************************************************)
LEMMA PoolInit == Init => Pool!Init
BY DEF Init, Pool!Init, Pool!NULL, NULL, Unbooted, Clear, Managed

LEMMA PoolBoot == IInv /\ ReadEFIMemoryMap => Pool!Boot
<1> SUFFICES ASSUME IInv, ReadEFIMemoryMap PROVE Pool!Boot
  OBVIOUS
<1>1. alloc.size = 0
  BY DEF IInv, ReadEFIMemoryMap, Unbooted
<1>2. answer' = answer
  BY DEF ReadEFIMemoryMap
<1> QED BY <1>1, <1>2 DEF Pool!Boot, Clear, Managed

(* Frame 0 is the firmware's: an answer of 0 can only mean a refusal.      *)
LEMMA PoolTake == IInv /\ RequestGranted => Pool!Take
<1> SUFFICES ASSUME IInv, RequestGranted PROVE Pool!Take
  OBVIOUS
<1> DEFINE f == FoundFrame(alloc)
<1>1. Consistent(alloc) /\ Found(alloc)
  BY InvConsistent DEF RequestGranted
<1>2. /\ f \in Clear(alloc)
      /\ Fresh(alloc, {f}) = {f}
      /\ alloc' = [LockPages(alloc, {f}) EXCEPT !.pageBitmapIndex = f]
      /\ answer' = f
  BY <1>1, GrantFacts DEF RequestGranted
<1> HIDE DEF f
<1>3. /\ LockPages(alloc, {f}).bits = alloc.bits \cup {f}
      /\ LockPages(alloc, {f}).size = alloc.size
      /\ LockPages(alloc, {f}) \in AllocatorStates
  <2>1. PICK R : R = {f}
    OBVIOUS
  <2>2. alloc \in AllocatorStates
    BY <1>1 DEF Consistent
  <2>3. /\ LockPages(alloc, R).bits = alloc.bits \cup Fresh(alloc, R)
        /\ LockPages(alloc, R).size = alloc.size
    BY ONLY <2>2, SetBitsEffect
  <2>4. Consistent(LockPages(alloc, R))
    BY ONLY <1>1, SetBitsConsistent
  <2> QED BY ONLY <1>2, <2>1, <2>3, <2>4 DEF Consistent
<1>4. alloc'.bits = alloc.bits \cup {f} /\ alloc'.size = alloc.size
  <2>1. PICK r \in AllocatorStates : r = LockPages(alloc, {f})
    BY <1>3
  <2>2. alloc' = [r EXCEPT !.pageBitmapIndex = f]
    BY <1>2, <2>1
  <2>3. alloc'.bits = r.bits /\ alloc'.size = r.size
    BY ONLY <2>2 DEF AllocatorStates
  <2> QED BY ONLY <1>3, <2>1, <2>3
<1>5. f # 0
  <2>1. initialized
    <3>1. SUFFICES ASSUME ~initialized PROVE FALSE
      OBVIOUS
    <3>2. alloc.size = 0
      BY <3>1 DEF IInv, Unbooted
    <3> QED BY <1>2, <3>2 DEF Clear, Managed
  <2>2. SUFFICES ASSUME f = 0 PROVE FALSE
    OBVIOUS
  <2>3. 0 \in owner.firmware
    BY <1>2, <2>1, <2>2, LowPagesAssumption
       DEF IInv, BootedInv, Unusable, Clear
  <2>4. 0 \in alloc.bits
    BY <2>3, InvFacts DEF OwnershipOf
  <2> QED BY <1>2, <2>2, <2>4 DEF Clear
<1>6. /\ Clear(alloc)' = Clear(alloc) \ {f}
      /\ (Managed(alloc) \cap alloc.bits)'
           = (Managed(alloc) \cap alloc.bits) \cup {f}
  BY <1>2, <1>4 DEF Clear, Managed
<1> QED BY <1>2, <1>5, <1>6 DEF Pool!Take, Pool!NULL

LEMMA PoolRefuse == IInv /\ RequestRefused => Pool!Refuse
<1> SUFFICES ASSUME IInv, RequestRefused PROVE Pool!Refuse
  OBVIOUS
<1>1. Consistent(alloc) /\ ~Found(alloc)
  BY InvConsistent DEF RequestRefused
<1>2. /\ Clear(alloc) = {}
      /\ alloc' = [alloc EXCEPT !.pageBitmapIndex = BitLimit(alloc)]
      /\ answer' = NULL
  BY <1>1, ExhaustFacts DEF RequestRefused
<1>3. alloc'.bits = alloc.bits /\ alloc'.size = alloc.size
  BY <1>1, <1>2 DEF Consistent, AllocatorStates
<1>4. /\ Clear(alloc)' = Clear(alloc)
      /\ (Managed(alloc) \cap alloc.bits)' = Managed(alloc) \cap alloc.bits
  BY <1>3 DEF Clear, Managed
<1> QED BY <1>2, <1>4 DEF Pool!Refuse, Pool!NULL, NULL

LEMMA PoolClient ==
  ASSUME IInv, NEW R, ClientCalls(R)
  PROVE  Pool!Withdraw \/ Pool!Return
<1>1. Consistent(alloc) /\ alloc \in AllocatorStates
  BY InvFacts
<1>2. answer' = answer
  BY DEF ClientCalls, ClientLocksPages, ClientReservesPages, ClientFreesPages,
         ClientUnreservesPages
<1>3. CASE ClientLocksPages(R) \/ ClientReservesPages(R)
  <2>1. /\ alloc'.bits = alloc.bits \cup Fresh(alloc, R)
        /\ alloc'.size = alloc.size
    BY <1>1, <1>3, SetBitsEffect DEF ClientLocksPages, ClientReservesPages
  <2>2. /\ Managed(alloc') = Managed(alloc)
        /\ Clear(alloc') = Managed(alloc) \ (alloc.bits \cup Fresh(alloc, R))
    BY <2>1 DEF Clear, Managed
  <2> QED BY <1>2, <2>1, <2>2 DEF Pool!Withdraw, Clear
<1>4. CASE ClientFreesPages(R) \/ ClientUnreservesPages(R)
  <2>1. /\ alloc'.bits = alloc.bits \ Marked(alloc, R)
        /\ alloc'.size = alloc.size
    BY <1>1, <1>4, ClearBitsEffect DEF ClientFreesPages, ClientUnreservesPages
  <2>2. /\ Managed(alloc') = Managed(alloc)
        /\ Clear(alloc') = Managed(alloc) \ (alloc.bits \ Marked(alloc, R))
    BY <2>1 DEF Clear, Managed
  <2> QED BY <1>2, <2>1, <2>2 DEF Pool!Return, Clear
<1> QED BY <1>3, <1>4 DEF ClientCalls

(* A request is refused only when every frame is taken, and is otherwise   *)
(* answered with a frame, never frame 0, that nobody else has.             *)
THEOREM Refinement == Spec => ImplementsFramePool
<1>1. Init => Pool!Init
  BY PoolInit
<1>2. IInv /\ [Next]_vars => [Pool!Next]_(Pool!vars)
  <2> SUFFICES ASSUME IInv, [Next]_vars PROVE [Pool!Next]_(Pool!vars)
    OBVIOUS
  <2>1. CASE ReadEFIMemoryMap
    BY <2>1, PoolBoot DEF Pool!Next
  <2>2. CASE RequestPage
    BY <2>2, PoolTake, PoolRefuse DEF RequestPage, Pool!Next
  <2>3. ASSUME NEW range \in ClientRanges,
               ClientCalls(Frames(range[1], range[2]))
        PROVE  Pool!Next
    BY <2>3, PoolClient DEF Pool!Next
  <2>4. CASE UNCHANGED vars
    BY <2>4 DEF vars, Pool!vars
  <2> QED BY <2>1, <2>2, <2>3, <2>4 DEF Next
<1> QED BY <1>1, <1>2, Invariance, PTL DEF Spec, Pool!Spec, ImplementsFramePool
=============================================================================
