------------------------- MODULE PageFrames_proofs -------------------------
(***************************************************************************)
(* Facts about the operators of PageFrames, for every allocator state and  *)
(* every memory map: what each loop over the bitmap keeps and changes, the *)
(* frame that a request is given, and what the boot leaves behind.  The    *)
(* proofs about the allocator and about the address space cite them.       *)
(***************************************************************************)
EXTENDS PageFrames, NaturalFacts

(* What every function of the allocator keeps, whoever calls it.           *)
Consistent(s) ==
  /\ s \in AllocatorStates
  /\ s.bits \subseteq Bitmap_Indices(s)
  /\ s.pageBitmapIndex \in 0 .. BitLimit(s)
  /\ \A f \in Clear(s) : s.pageBitmapIndex =< f

(* Installed memory is accounted for: the counters and the set bits agree. *)
Total(s) == s.freeMemory + s.usedMemory + s.reservedMemory
Balance(s) == s.freeMemory + Cardinality(s.bits)
-----------------------------------------------------------------------------
(* The minimum of a non-empty set of natural numbers is what it says.      *)
LEMMA MinIsLeast ==
  ASSUME NEW S, S \subseteq Nat, S # {}
  PROVE  Min(S) \in S /\ \A y \in S : Min(S) =< y
BY LeastElement DEF Min

(* The bits a set-bit loop turns on are new and finitely many.             *)
LEMMA FreshFacts ==
  ASSUME NEW s, Consistent(s), NEW R
  PROVE  /\ Fresh(s, R) \subseteq Bitmap_Indices(s)
         /\ Fresh(s, R) \cap s.bits = {}
         /\ IsFiniteSet(s.bits)
         /\ IsFiniteSet(Fresh(s, R))
         /\ Cardinality(Fresh(s, R)) \in Nat
         /\ Cardinality(s.bits) \in Nat
         /\ Cardinality(s.bits \cup Fresh(s, R))
              = Cardinality(s.bits) + Cardinality(Fresh(s, R))
<1>1. /\ Fresh(s, R) \subseteq Bitmap_Indices(s)
      /\ Fresh(s, R) \cap s.bits = {}
  BY DEF Fresh
<1>2. IsFiniteSet(Bitmap_Indices(s))
  <2>1. 8 * s.size \in Int
    BY DEF Consistent, AllocatorStates
  <2> QED BY <2>1, FS_Interval DEF Bitmap_Indices
<1>3. IsFiniteSet(s.bits) /\ IsFiniteSet(Fresh(s, R))
  BY <1>1, <1>2, FS_Subset DEF Consistent
<1> QED BY <1>1, <1>3, DisjointUnion, FS_CardinalityType

(* The bits a clear-bit loop turns off were set, and finitely many.        *)
LEMMA MarkedFacts ==
  ASSUME NEW s, Consistent(s), NEW R
  PROVE  /\ Marked(s, R) = R \cap s.bits
         /\ Marked(s, R) \subseteq Bitmap_Indices(s)
         /\ IsFiniteSet(Marked(s, R))
         /\ Cardinality(Marked(s, R)) \in Nat
         /\ Cardinality(s.bits \ Marked(s, R))
              = Cardinality(s.bits) - Cardinality(Marked(s, R))
<1>1. /\ Marked(s, R) = R \cap s.bits
      /\ Marked(s, R) \subseteq Bitmap_Indices(s)
      /\ Marked(s, R) \subseteq s.bits
  BY DEF Marked, Consistent
<1>2. IsFiniteSet(s.bits)
  BY FreshFacts
<1> QED BY <1>1, <1>2, RemoveSubset, FS_Subset

(* LockPages and ReservePages keep the allocator consistent.               *)
LEMMA SetBitsConsistent ==
  ASSUME NEW s, Consistent(s), NEW R
  PROVE  /\ Consistent(LockPages(s, R))
         /\ Consistent(ReservePages(s, R))
<1> DEFINE n == Cardinality(Fresh(s, R))
<1>1. /\ Fresh(s, R) \subseteq Bitmap_Indices(s)
      /\ n \in Nat
  BY FreshFacts
<1>2. Fresh(s, R) \subseteq Nat
  BY <1>1 DEF Bitmap_Indices
<1>3. LockPages(s, R) \in AllocatorStates /\ ReservePages(s, R) \in AllocatorStates
  <2>1. /\ s.bits \cup Fresh(s, R) \in SUBSET Nat
        /\ s.freeMemory - n \in Int
        /\ s.usedMemory + n \in Int
        /\ s.reservedMemory + n \in Int
    BY <1>1, <1>2 DEF Consistent, AllocatorStates
  <2>2. s \in AllocatorStates
    BY DEF Consistent
  <2>3. LockPages(s, R) \in AllocatorStates
    BY <2>1, <2>2 DEF LockPages, AllocatorStates
  <2> QED BY <2>1, <2>2, <2>3 DEF ReservePages, AllocatorStates
<1>4. /\ LockPages(s, R).bits = s.bits \cup Fresh(s, R)
      /\ LockPages(s, R).size = s.size
      /\ LockPages(s, R).pageBitmapIndex = s.pageBitmapIndex
  BY DEF LockPages, Consistent, AllocatorStates
<1>5. /\ ReservePages(s, R).bits = s.bits \cup Fresh(s, R)
      /\ ReservePages(s, R).size = s.size
      /\ ReservePages(s, R).pageBitmapIndex = s.pageBitmapIndex
  BY DEF ReservePages, Consistent, AllocatorStates
<1> HIDE DEF n
<1> QED
  BY <1>1, <1>3, <1>4, <1>5 DEF Consistent, Bitmap_Indices, BitLimit, Clear, Managed

(* FreePages and UnreservePages keep it consistent: they lower the cursor. *)
LEMMA ClearBitsConsistent ==
  ASSUME NEW s, Consistent(s), NEW R
  PROVE  /\ Consistent(FreePages(s, R))
         /\ Consistent(UnreservePages(s, R))
<1> DEFINE n == Cardinality(Marked(s, R))
           c == Min({s.pageBitmapIndex} \cup Marked(s, R))
<1>1. /\ Marked(s, R) \subseteq Bitmap_Indices(s)
      /\ n \in Nat
  BY MarkedFacts
<1>2. /\ c \in {s.pageBitmapIndex} \cup Marked(s, R)
      /\ \A f \in {s.pageBitmapIndex} \cup Marked(s, R) : c =< f
  <2>1. {s.pageBitmapIndex} \cup Marked(s, R) \subseteq Nat
    BY <1>1 DEF Bitmap_Indices, Consistent, AllocatorStates
  <2> QED BY <2>1, MinIsLeast
<1> HIDE DEF c
<1>3. c \in 0 .. BitLimit(s)
  BY <1>1, <1>2 DEF Consistent, Bitmap_Indices, BitLimit, AllocatorStates
<1>4. /\ FreePages(s, R) \in AllocatorStates
      /\ FreePages(s, R).bits = s.bits \ Marked(s, R)
      /\ FreePages(s, R).size = s.size
      /\ FreePages(s, R).pageBitmapIndex = c
  <2>1. /\ s \in AllocatorStates
        /\ s.bits \ Marked(s, R) \in SUBSET Nat
        /\ s.freeMemory + n \in Int
        /\ s.usedMemory - n \in Int
        /\ c \in Nat
    BY <1>1, <1>3 DEF Consistent, AllocatorStates, BitLimit
  <2>2. FreePages(s, R) =
          [s EXCEPT !.bits = s.bits \ Marked(s, R),
                    !.freeMemory = s.freeMemory + n,
                    !.usedMemory = s.usedMemory - n,
                    !.pageBitmapIndex = c]
    BY DEF FreePages, c
  <2> HIDE DEF n
  <2> QED BY <2>1, <2>2 DEF AllocatorStates
<1>5. /\ UnreservePages(s, R) \in AllocatorStates
      /\ UnreservePages(s, R).bits = s.bits \ Marked(s, R)
      /\ UnreservePages(s, R).size = s.size
      /\ UnreservePages(s, R).pageBitmapIndex = c
  <2>1. /\ s \in AllocatorStates
        /\ s.bits \ Marked(s, R) \in SUBSET Nat
        /\ s.freeMemory + n \in Int
        /\ s.reservedMemory - n \in Int
        /\ c \in Nat
    BY <1>1, <1>3 DEF Consistent, AllocatorStates, BitLimit
  <2>2. UnreservePages(s, R) =
          [s EXCEPT !.bits = s.bits \ Marked(s, R),
                    !.freeMemory = s.freeMemory + n,
                    !.reservedMemory = s.reservedMemory - n,
                    !.pageBitmapIndex = c]
    BY DEF UnreservePages, c
  <2> HIDE DEF n
  <2> QED BY <2>1, <2>2 DEF AllocatorStates
<1>6. \A f \in Managed(s) : f \notin s.bits \ Marked(s, R) => c =< f
  BY <1>2, <1>3 DEF Consistent, Clear, Managed, AllocatorStates, BitLimit
<1> QED
  BY <1>3, <1>4, <1>5, <1>6 DEF Consistent, Bitmap_Indices, BitLimit, Clear, Managed
(* What the set-bit loops do to each field.                                *)
LEMMA SetBitsEffect ==
  ASSUME NEW s \in AllocatorStates, NEW R
  PROVE  /\ LockPages(s, R).size = s.size
         /\ LockPages(s, R).bits = s.bits \cup Fresh(s, R)
         /\ LockPages(s, R).freeMemory = s.freeMemory - Cardinality(Fresh(s, R))
         /\ LockPages(s, R).usedMemory = s.usedMemory + Cardinality(Fresh(s, R))
         /\ LockPages(s, R).reservedMemory = s.reservedMemory
         /\ ReservePages(s, R).size = s.size
         /\ ReservePages(s, R).bits = s.bits \cup Fresh(s, R)
         /\ ReservePages(s, R).freeMemory = s.freeMemory - Cardinality(Fresh(s, R))
         /\ ReservePages(s, R).usedMemory = s.usedMemory
         /\ ReservePages(s, R).reservedMemory
              = s.reservedMemory + Cardinality(Fresh(s, R))
BY DEF LockPages, ReservePages, AllocatorStates

(* What the clear-bit loops do to each field.                              *)
LEMMA ClearBitsEffect ==
  ASSUME NEW s \in AllocatorStates, NEW R
  PROVE  /\ FreePages(s, R).size = s.size
         /\ FreePages(s, R).bits = s.bits \ Marked(s, R)
         /\ FreePages(s, R).freeMemory = s.freeMemory + Cardinality(Marked(s, R))
         /\ FreePages(s, R).usedMemory = s.usedMemory - Cardinality(Marked(s, R))
         /\ FreePages(s, R).reservedMemory = s.reservedMemory
         /\ UnreservePages(s, R).size = s.size
         /\ UnreservePages(s, R).bits = s.bits \ Marked(s, R)
         /\ UnreservePages(s, R).freeMemory
              = s.freeMemory + Cardinality(Marked(s, R))
         /\ UnreservePages(s, R).usedMemory = s.usedMemory
         /\ UnreservePages(s, R).reservedMemory
              = s.reservedMemory - Cardinality(Marked(s, R))
BY DEF FreePages, UnreservePages, AllocatorStates

(* No loop changes how the free counter and the set bits add up, nor the   *)
(* sum of the three counters: each skips the bits that need no change.     *)
LEMMA LoopsKeepBalance ==
  ASSUME NEW s, Consistent(s), NEW R,
         NEW t \in {LockPages(s, R), ReservePages(s, R),
                    FreePages(s, R), UnreservePages(s, R)}
  PROVE  /\ t.size = s.size
         /\ Balance(t) = Balance(s)
         /\ Total(t) = Total(s)
<1> DEFINE new == Cardinality(Fresh(s, R))
           old == Cardinality(Marked(s, R))
<1>1. /\ s \in AllocatorStates
      /\ s.freeMemory \in Int
      /\ s.usedMemory \in Int
      /\ s.reservedMemory \in Int
  BY DEF Consistent, AllocatorStates
<1>2. /\ new \in Nat
      /\ Cardinality(s.bits) \in Nat
      /\ Cardinality(s.bits \cup Fresh(s, R)) = Cardinality(s.bits) + new
  BY FreshFacts
<1>3. /\ old \in Nat
      /\ Cardinality(s.bits \ Marked(s, R)) = Cardinality(s.bits) - old
  BY MarkedFacts
<1>4. CASE t = LockPages(s, R)
  <2>1. /\ t.size = s.size
        /\ t.bits = s.bits \cup Fresh(s, R)
        /\ t.freeMemory = s.freeMemory - new
        /\ t.usedMemory = s.usedMemory + new
        /\ t.reservedMemory = s.reservedMemory
    BY <1>1, <1>4, SetBitsEffect
  <2> HIDE DEF new
  <2> QED BY <1>1, <1>2, <2>1 DEF Balance, Total
<1>5. CASE t = ReservePages(s, R)
  <2>1. /\ t.size = s.size
        /\ t.bits = s.bits \cup Fresh(s, R)
        /\ t.freeMemory = s.freeMemory - new
        /\ t.reservedMemory = s.reservedMemory + new
        /\ t.usedMemory = s.usedMemory
    BY <1>1, <1>5, SetBitsEffect
  <2> HIDE DEF new
  <2> QED BY <1>1, <1>2, <2>1 DEF Balance, Total
<1>6. CASE t = FreePages(s, R)
  <2>1. /\ t.size = s.size
        /\ t.bits = s.bits \ Marked(s, R)
        /\ t.freeMemory = s.freeMemory + old
        /\ t.usedMemory = s.usedMemory - old
        /\ t.reservedMemory = s.reservedMemory
    BY <1>1, <1>6, ClearBitsEffect
  <2> HIDE DEF old
  <2> QED BY <1>1, <1>2, <1>3, <2>1 DEF Balance, Total
<1>7. CASE t = UnreservePages(s, R)
  <2>1. /\ t.size = s.size
        /\ t.bits = s.bits \ Marked(s, R)
        /\ t.freeMemory = s.freeMemory + old
        /\ t.reservedMemory = s.reservedMemory - old
        /\ t.usedMemory = s.usedMemory
    BY <1>1, <1>7, ClearBitsEffect
  <2> HIDE DEF old
  <2> QED BY <1>1, <1>2, <1>3, <2>1 DEF Balance, Total
<1> QED BY <1>4, <1>5, <1>6, <1>7

(* The frame that RequestPage finds is the first clear one: the cursor may *)
(* stop there, and everything before it is taken.                          *)
LEMMA GrantFacts ==
  ASSUME NEW s, Consistent(s), Found(s)
  PROVE  /\ FoundFrame(s) \in Clear(s)
         /\ FoundFrame(s) \in Nat
         /\ Fresh(s, {FoundFrame(s)}) = {FoundFrame(s)}
         /\ Consistent([s EXCEPT !.pageBitmapIndex = FoundFrame(s)])
         /\ Consistent(Grant(s))
         /\ Grant(s) = [LockPages(s, {FoundFrame(s)})
                           EXCEPT !.pageBitmapIndex = FoundFrame(s)]
<1> DEFINE f == FoundFrame(s)
           u == [s EXCEPT !.pageBitmapIndex = f]
<1>1. Candidates(s) \subseteq Nat /\ Candidates(s) # {}
  BY DEF Found, Candidates, Managed, Consistent, AllocatorStates
<1>2. f \in Candidates(s) /\ \A y \in Candidates(s) : f =< y
  BY <1>1, MinIsLeast DEF FoundFrame
<1> HIDE DEF f
<1>3. /\ s \in AllocatorStates
      /\ f \in Managed(s)
      /\ f \in Nat
      /\ f \notin s.bits
      /\ s.pageBitmapIndex =< f
  BY <1>1, <1>2 DEF Candidates, Consistent
<1>4. /\ u \in AllocatorStates
      /\ u.bits = s.bits
      /\ u.size = s.size
      /\ u.pageBitmapIndex = f
  BY <1>3 DEF AllocatorStates
<1>5. f \in 0 .. BitLimit(s)
  BY <1>3 DEF Managed, BitLimit, AllocatorStates
<1>6. \A y \in Clear(s) : f =< y
  BY <1>2 DEF Candidates, Clear, Consistent
<1>7. Consistent(u)
  BY <1>4, <1>5, <1>6 DEF Consistent, Bitmap_Indices, BitLimit, Clear, Managed
<1>8. Fresh(s, {f}) = {f} /\ Fresh(u, {f}) = Fresh(s, {f})
  BY <1>3, <1>4 DEF Fresh, Bitmap_Indices, Managed, AllocatorStates
<1>9. Grant(s) = LockPages(u, {f})
  BY DEF Grant, f
<1>10. LockPages(u, {f}) = [LockPages(s, {f}) EXCEPT !.pageBitmapIndex = f]
  BY <1>3, <1>8 DEF LockPages, AllocatorStates
<1> QED
  BY <1>3, <1>7, <1>8, <1>9, <1>10, SetBitsConsistent DEF Clear, f

(* A refused request found every frame taken: the cursor may rest at the   *)
(* end, and only the cursor moves.                                         *)
LEMMA ExhaustFacts ==
  ASSUME NEW s, Consistent(s), ~Found(s)
  PROVE  /\ Clear(s) = {}
         /\ Consistent(Exhaust(s))
         /\ Exhaust(s) = [s EXCEPT !.pageBitmapIndex = BitLimit(s)]
<1>1. Clear(s) = {}
  BY DEF Found, Candidates, Clear, Consistent
<1>2. Exhaust(s) = [s EXCEPT !.pageBitmapIndex = BitLimit(s)]
  BY DEF Exhaust, Consistent, AllocatorStates, BitLimit
<1>3. BitLimit(s) \in Nat
  BY DEF BitLimit, Consistent, AllocatorStates
<1> QED
  BY <1>1, <1>2, <1>3
     DEF Consistent, AllocatorStates, Bitmap_Indices, BitLimit, Clear, Managed

(* A request takes the least of the clear frames, and nothing else.        *)
LEMMA GrantEffect ==
  ASSUME NEW s, Consistent(s), Found(s)
  PROVE  /\ Consistent(Grant(s))
         /\ FoundFrame(s) \in Clear(s) /\ FoundFrame(s) \in Nat
         /\ \A g \in Clear(s) : FoundFrame(s) =< g
         /\ Grant(s).size = s.size
         /\ Grant(s).bits = s.bits \cup {FoundFrame(s)}
         /\ Clear(Grant(s)) = Clear(s) \ {FoundFrame(s)}
<1>1. Candidates(s) \subseteq Nat /\ Candidates(s) # {}
  BY DEF Found, Candidates, Managed, Consistent, AllocatorStates
<1>2. \A y \in Candidates(s) : FoundFrame(s) =< y
  BY <1>1, MinIsLeast DEF FoundFrame
<1>3. Clear(s) \subseteq Candidates(s)
  BY DEF Clear, Candidates, Consistent
<1>4. PICK f \in Nat : f = FoundFrame(s)
  BY GrantFacts
<1>5. /\ f \in Clear(s) /\ Fresh(s, {f}) = {f} /\ Consistent(Grant(s))
      /\ Grant(s) = [LockPages(s, {f}) EXCEPT !.pageBitmapIndex = f]
  BY <1>4, GrantFacts
<1>6. /\ LockPages(s, {f}).bits = s.bits \cup {f}
      /\ LockPages(s, {f}).size = s.size
      /\ LockPages(s, {f}) \in AllocatorStates
  <2>1. s \in AllocatorStates
    BY DEF Consistent
  <2>2. LockPages(s, {f}) \in AllocatorStates
    BY SetBitsConsistent DEF Consistent
  <2>3. /\ LockPages(s, {f}).bits = s.bits \cup Fresh(s, {f})
        /\ LockPages(s, {f}).size = s.size
    BY <2>1, SetBitsEffect, Zenon
  <2> QED BY <1>5, <2>2, <2>3
<1>7. Grant(s).bits = s.bits \cup {f} /\ Grant(s).size = s.size
  <2>1. PICK L \in AllocatorStates : L = LockPages(s, {f})
    BY <1>6
  <2>2. Grant(s) = [L EXCEPT !.pageBitmapIndex = f]
    BY <1>5, <2>1
  <2>3. Grant(s).bits = L.bits /\ Grant(s).size = L.size
    BY <2>2 DEF AllocatorStates
  <2> QED BY <1>6, <2>1, <2>3
<1>8. Clear(Grant(s)) = Clear(s) \ {f}
  BY <1>7 DEF Clear, Managed
<1> QED BY <1>2, <1>3, <1>4, <1>5, <1>7, <1>8

(* Clear frames are numbers below the limit of the bitmap.                 *)
LEMMA ClearFacts ==
  ASSUME NEW s, Consistent(s)
  PROVE  /\ Clear(s) \subseteq Nat /\ IsFiniteSet(Clear(s))
         /\ Clear(s) \subseteq 0 .. (8 * s.size - 1)
         /\ s.bits \subseteq Nat /\ s.size \in Nat
<1>1. s.size \in Nat /\ s.bits \subseteq Nat
  BY DEF Consistent, AllocatorStates
<1>2. Clear(s) \subseteq 0 .. (8 * s.size - 1)
  BY DEF Clear, Managed
<1>3. IsFiniteSet(0 .. (8 * s.size - 1))
  BY <1>1, FS_Interval
<1>4. IsFiniteSet(Clear(s))
  BY <1>2, <1>3, FS_Subset
<1> QED BY <1>1, <1>2, <1>4
-----------------------------------------------------------------------------
(* The state of the bitmap after InitBitmap, whatever the byte after it.   *)
LEMMA InitBitmapFacts ==
  ASSUME NEW map, GetMemorySize(map) \in Nat,
         NEW garbage \in SUBSET {8 * BitmapSize(map)}
  PROVE  /\ Consistent(InitBitmap(map, garbage))
         /\ InitBitmap(map, garbage).size = BitmapSize(map)
         /\ InitBitmap(map, garbage).usedMemory = 0
         /\ Balance(InitBitmap(map, garbage))
              = GetMemorySize(map) + Cardinality(garbage)
         /\ Total(InitBitmap(map, garbage)) = GetMemorySize(map)
         /\ BitmapSize(map) \in Nat
         /\ garbage \in SUBSET Nat
<1> DEFINE b == InitBitmap(map, garbage)
<1>1. GetMemorySize(map) \in Nat
  OBVIOUS
<1>2. BitmapSize(map) \in Nat
  BY <1>1 DEF BitmapSize
<1>3. /\ b.size = BitmapSize(map)
      /\ b.bits = garbage
      /\ b.freeMemory = GetMemorySize(map)
      /\ b.usedMemory = 0
      /\ b.reservedMemory = 0
      /\ b.pageBitmapIndex = 0
  BY DEF InitBitmap
<1>4. garbage \in SUBSET Nat /\ garbage \subseteq 0 .. (8 * BitmapSize(map))
  BY <1>2
<1>5. b \in AllocatorStates
  BY <1>1, <1>2, <1>4 DEF InitBitmap, AllocatorStates
<1> HIDE DEF b
<1>6. Consistent(b)
  BY <1>2, <1>3, <1>4, <1>5
     DEF Consistent, Bitmap_Indices, BitLimit, Clear, Managed
<1>7. /\ Balance(b) = GetMemorySize(map) + Cardinality(garbage)
      /\ Total(b) = GetMemorySize(map)
  BY <1>1, <1>3 DEF Balance, Total
<1> QED BY <1>2, <1>3, <1>4, <1>6, <1>7 DEF b

(* What boot leaves behind: the loops of ReadEFIMemoryMap one after the    *)
(* other.                                                                  *)
LEMMA BootFacts ==
  ASSUME NEW map, GetMemorySize(map) \in Nat,
         NEW garbage \in SUBSET {8 * BitmapSize(map)},
         NEW firmware, firmware = ReserveFirmware(map, garbage),
         NEW booted, booted = Boot(map, garbage)
  PROVE  /\ Consistent(firmware)
         /\ Consistent(booted)
         /\ booted = LockPages(firmware, BitmapFrames(map))
         /\ firmware.size = BitmapSize(map)
         /\ firmware.usedMemory = 0
         /\ booted.size = BitmapSize(map)
         /\ Balance(booted) = GetMemorySize(map) + Cardinality(garbage)
         /\ Total(booted) = GetMemorySize(map)
         /\ \A f \in 0 .. (8 * BitmapSize(map) - 1) :
              \/ f < LowPages
              \/ f \notin ConventionalFrames(map) /\ f =< GetMemorySize(map)
              => f \in firmware.bits
         /\ (BitmapFrames(map) \cup Frames(0, LowPages)) \cap Bitmap_Indices(booted)
              \subseteq booted.bits
         /\ \A f \in ConventionalFrames(map) \ (Frames(0, LowPages) \cup BitmapFrames(map)) :
              f \notin booted.bits
<1> DEFINE blank  == InitBitmap(map, garbage)
           all    == ReservePages(blank, Frames(0, GetMemorySize(map) + 1))
           usable == UnreservePages(all, ConventionalFrames(map))
           size   == BitmapSize(map)
<1>1. /\ firmware = ReservePages(usable, Frames(0, LowPages))
      /\ booted = LockPages(firmware, BitmapFrames(map))
  BY DEF ReserveFirmware, Boot
<1>2. /\ Consistent(blank)
      /\ blank.size = size
      /\ blank.usedMemory = 0
      /\ Balance(blank) = GetMemorySize(map) + Cardinality(garbage)
      /\ Total(blank) = GetMemorySize(map)
      /\ size \in Nat
  BY InitBitmapFacts
<1> HIDE DEF blank, size
<1>3. /\ Consistent(all)
      /\ all.size = size
      /\ Balance(all) = Balance(blank)
      /\ Total(all) = Total(blank)
  BY <1>2, SetBitsConsistent, LoopsKeepBalance
<1>4. /\ all.usedMemory = 0
      /\ all.bits = blank.bits \cup Fresh(blank, Frames(0, GetMemorySize(map) + 1))
  BY <1>2, SetBitsEffect DEF Consistent
<1> HIDE DEF all
<1>5. /\ Consistent(usable)
      /\ usable.size = size
      /\ Balance(usable) = Balance(blank)
      /\ Total(usable) = Total(blank)
  BY <1>3, ClearBitsConsistent, LoopsKeepBalance
<1>6. /\ usable.usedMemory = 0
      /\ usable.bits = all.bits \ Marked(all, ConventionalFrames(map))
  BY <1>3, <1>4, ClearBitsEffect DEF Consistent
<1> HIDE DEF usable
<1>7. /\ Consistent(firmware)
      /\ firmware.size = size
      /\ Balance(firmware) = Balance(blank)
      /\ Total(firmware) = Total(blank)
  BY <1>1, <1>5, SetBitsConsistent, LoopsKeepBalance
<1>8. /\ firmware.usedMemory = 0
      /\ firmware.bits = usable.bits \cup Fresh(usable, Frames(0, LowPages))
  BY <1>1, <1>5, <1>6, SetBitsEffect DEF Consistent
<1>9. /\ Consistent(booted)
      /\ booted.size = size
      /\ Balance(booted) = Balance(blank)
      /\ Total(booted) = Total(blank)
  BY <1>1, <1>7, SetBitsConsistent, LoopsKeepBalance
<1>10. ASSUME NEW f \in 0 .. (8 * size - 1)
       PROVE  /\ f < LowPages => f \in firmware.bits
              /\ f \notin ConventionalFrames(map) /\ f =< GetMemorySize(map)
                   => f \in firmware.bits
  <2>1. GetMemorySize(map) \in Nat /\ LowPages \in Nat
    BY LowPagesAssumption
  <2>2. /\ f \in Bitmap_Indices(blank)
        /\ f \in Bitmap_Indices(usable)
        /\ f \in Nat
    BY <1>2, <1>5 DEF Bitmap_Indices
  <2>3. f < LowPages => f \in firmware.bits
    BY <1>8, <2>1, <2>2 DEF Fresh, Frames
  <2>4. f =< GetMemorySize(map) => f \in all.bits
    BY <1>4, <2>1, <2>2 DEF Fresh, Frames
  <2>5. f \in all.bits /\ f \notin ConventionalFrames(map) => f \in usable.bits
    BY <1>6 DEF Marked
  <2> QED BY <1>8, <2>3, <2>4, <2>5
<1>11. booted.bits = firmware.bits \cup Fresh(firmware, BitmapFrames(map))
  BY <1>1, <1>7, SetBitsEffect DEF Consistent
<1>12. (BitmapFrames(map) \cup Frames(0, LowPages)) \cap Bitmap_Indices(booted)
         \subseteq booted.bits
  <2>1. BitmapFrames(map) \cap Bitmap_Indices(booted) \subseteq booted.bits
    BY <1>7, <1>9, <1>11 DEF Fresh, Bitmap_Indices
  <2>2. Frames(0, LowPages) \cap Bitmap_Indices(booted) \subseteq firmware.bits
    BY <1>5, <1>8, <1>9 DEF Fresh, Bitmap_Indices
  <2> QED BY <1>11, <2>1, <2>2
<1>13. ASSUME NEW f \in ConventionalFrames(map) \ (Frames(0, LowPages) \cup BitmapFrames(map))
       PROVE  f \notin booted.bits
  <2>1. f \notin usable.bits
    <3>1. all.bits \subseteq Bitmap_Indices(all)
      BY <1>3 DEF Consistent
    <3> QED BY <1>6, <3>1 DEF Marked
  <2>2. f \notin firmware.bits
    BY <1>8, <1>13, <2>1 DEF Fresh
  <2> QED BY <1>11, <1>13, <2>2 DEF Fresh
<1> QED BY <1>1, <1>2, <1>7, <1>8, <1>9, <1>10, <1>12, <1>13 DEF size
=============================================================================
