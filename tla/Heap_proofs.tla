---------------------------- MODULE Heap_proofs ----------------------------
(***************************************************************************)
(* Proofs about the heap, for every heap size and every sequence of calls: *)
(* until free has merged two segments, malloc is sound.                    *)
(***************************************************************************)
EXTENDS Heap, NaturalFacts, TLAPS

Shape(s) ==
  /\ s = [seg |-> s.seg, end |-> s.end,
          lastHeader |-> s.lastHeader, merges |-> s.merges]
  /\ s.merges \in Nat

Typed(s) ==
  /\ Shape(s)
  /\ s.seg \in [Headers(s) -> SegmentHeaders]
  /\ Headers(s) \in SUBSET Nat
  /\ IsFiniteSet(Headers(s))
  /\ s.end \in Nat
  /\ s.lastHeader \in Nat

(* The layout of a heap without merged segments: the headers divide the     *)
(* heap, and every pointer leads to a header.                              *)
WellFormed(s) ==
  /\ HeapStart \in Headers(s)
  /\ s.lastHeader \in Headers(s)
  /\ SegmentsDivideHeap(s)
  /\ ListLeadsUp(s)
  /\ \A h \in Headers(s) : s.seg[h].last # NULL => s.seg[h].last \in Headers(s)

Blocks(b) == b \in [DOMAIN b -> Nat \ {0}] /\ DOMAIN b \in SUBSET Nat

HInv ==
  /\ Shape(heap)
  /\ request \in Nat
  /\ heap.merges = 0 => /\ Typed(heap)
                        /\ WellFormed(heap)
                        /\ Blocks(live)
                        /\ BlocksFillSegments(heap, live)
                        /\ status \in {"ok", "fault"}
-----------------------------------------------------------------------------
(* A walk up a finite list ends: no set of segments leads only into itself. *)
LEMMA WalkEnds ==
  ASSUME NEW s, Typed(s), WellFormed(s), NEW V \in SUBSET Headers(s), V # {}
  PROVE  \E h \in V : s.seg[h].next \notin V
<1>1. V \subseteq Nat /\ IsFiniteSet(V)
  BY FS_Subset DEF Typed
<1>2. PICK m \in V : \A y \in V : y =< m
  BY <1>1, GreatestElement
<1>3. CASE s.seg[m].next = NULL
  <2>1. 0 \notin Headers(s)
    BY HeapStartAssumption DEF WellFormed, SegmentsDivideHeap
  <2> QED BY <1>3, <2>1 DEF NULL
<1>4. CASE s.seg[m].next # NULL
  <2>1. m < s.seg[m].next /\ s.seg[m].next \in Headers(s)
    BY <1>4 DEF WellFormed, ListLeadsUp
  <2> QED BY <1>1, <1>2, <2>1 DEF Typed
<1> QED BY <1>3, <1>4

(* Hence no request hangs, and none is led to an overwritten header.       *)
LEMMA NoHang ==
  ASSUME NEW s, Typed(s), WellFormed(s), NEW n
  PROVE  /\ ~NeverEnds(s, n)
         /\ Dangling(s) = {}
<1>1. ~NeverEnds(s, n)
  <2> SUFFICES ASSUME NEW V \in SUBSET Headers(s), PassesOver(s, n, V, {})
               PROVE  FALSE
    BY DEF NeverEnds
  <2>1. V # {} /\ \A h \in V : s.seg[h].next \in V
    BY DEF PassesOver
  <2> QED BY <2>1, WalkEnds
<1>2. Dangling(s) = {}
  BY DEF Dangling, WellFormed, ListLeadsUp
<1> QED BY <1>1, <1>2

(* Splitting a free segment: the new header lies inside it, so that it     *)
(* overwrites no other, and the list still leads up.                       *)
LEMMA SplitShape ==
  ASSUME NEW s, Typed(s), WellFormed(s), NEW h \in Headers(s), NEW n \in Nat,
         Splits(s, h, n),
         NEW new, new = h + HeaderUnits + n
  PROVE  /\ new \in Nat
         /\ new \notin Headers(s) /\ new - 1 \notin Headers(s) \ {h}
         /\ new + 1 \notin Headers(s)
         /\ h < new - 1
         /\ new + HeaderUnits + (s.seg[h].size - n - HeaderUnits) = SegEnd(s, h)
<1>1. /\ h \in Nat
      /\ s.seg[h].size \in Nat
  BY DEF Typed, SegmentHeaders
<1>2. \A g \in Headers(s) : g \in Nat /\ (h < g => SegEnd(s, h) =< g)
  BY DEF Typed, WellFormed, SegmentsDivideHeap
<1>3. n + 3 =< s.seg[h].size /\ SegEnd(s, h) = h + 2 + s.seg[h].size /\ new = h + 2 + n
  BY <1>1 DEF Splits, SegEnd, HeaderUnits
<1> QED BY <1>1, <1>2, <1>3 DEF HeaderUnits

(* What Split writes, header by header.                                    *)
LEMMA SplitFields ==
  ASSUME NEW s, Typed(s), WellFormed(s), NEW h \in Headers(s), NEW n \in Nat,
         Splits(s, h, n),
         NEW new, new = h + HeaderUnits + n,
         NEW t, t = Split(s, h, n)
  PROVE  /\ Typed(t)
         /\ Headers(t) = Headers(s) \cup {new}
         /\ t.end = s.end /\ t.lastHeader = s.lastHeader /\ t.merges = s.merges
         /\ t.seg[new].size = s.seg[h].size - n - HeaderUnits
         /\ t.seg[new].free = s.seg[h].free
         /\ t.seg[new].next = s.seg[h].next
         /\ t.seg[new].last = h
         /\ t.seg[h].size = n
         /\ t.seg[h].free = s.seg[h].free
         /\ t.seg[h].next = new
         /\ t.seg[h].last = s.seg[h].last
         /\ \A g \in Headers(s) \ {h} :
              /\ t.seg[g].size = s.seg[g].size
              /\ t.seg[g].free = s.seg[g].free
              /\ t.seg[g].next = s.seg[g].next
              /\ g # s.seg[h].next => t.seg[g].last = s.seg[g].last
              /\ g = s.seg[h].next => t.seg[g].last = new
<1> DEFINE seg1 == SetLast(s.seg, s.seg[h].next, new)
           header == [size |-> s.seg[h].size - n - HeaderUnits,
                      free |-> s.seg[h].free,
                      next |-> s.seg[h].next, last |-> h]
           seg2 == PutHeader(seg1, new, header)
           seg3 == [seg2 EXCEPT ![h] = [size |-> n, free |-> seg2[h].free,
                                        next |-> new, last |-> seg2[h].last]]
<1>1. /\ new \in Nat
      /\ new \notin Headers(s)
      /\ new - 1 \notin Headers(s)
      /\ new + 1 \notin Headers(s)
      /\ h # new
  <2>1. h \in Nat
    BY DEF Typed
  <2> QED BY <2>1, SplitShape
<1>2. /\ s.seg \in [Headers(s) -> SegmentHeaders]
      /\ s.seg[h].next # h
      /\ 0 \notin Headers(s)
  <2>1. h \in Nat /\ h # 0
    BY HeapStartAssumption DEF Typed, WellFormed, SegmentsDivideHeap
  <2>2. 0 \notin Headers(s)
    BY HeapStartAssumption DEF WellFormed, SegmentsDivideHeap
  <2> QED BY <2>1, <2>2 DEF Typed, WellFormed, ListLeadsUp, NULL
<1>3. /\ DOMAIN seg1 = Headers(s)
      /\ \A g \in Headers(s) :
           seg1[g] = [size |-> s.seg[g].size, free |-> s.seg[g].free,
                      next |-> s.seg[g].next,
                      last |-> IF g = s.seg[h].next THEN new ELSE s.seg[g].last]
  <2>1. \A g \in Headers(s) : s.seg[g] \in SegmentHeaders
    BY <1>2
  <2>2. CASE s.seg[h].next = NULL
    BY <1>2, <2>1, <2>2 DEF SetLast, NULL, SegmentHeaders, Headers
  <2>3. CASE s.seg[h].next # NULL
    BY <1>2, <2>1, <2>3 DEF SetLast, SegmentHeaders, Headers
  <2> QED BY <2>2, <2>3
<1> HIDE DEF seg1, header
<1>4. /\ DOMAIN seg2 = Headers(s) \cup {new}
      /\ seg2[new] = header
      /\ \A g \in Headers(s) : seg2[g] = seg1[g]
  BY <1>1, <1>3 DEF PutHeader
<1> HIDE DEF seg2
<1>5. /\ DOMAIN seg3 = Headers(s) \cup {new}
      /\ seg3[new] = header
      /\ \A g \in Headers(s) \ {h} : seg3[g] = seg1[g]
      /\ seg3[h] = [size |-> n, free |-> s.seg[h].free,
                    next |-> new, last |-> s.seg[h].last]
  <2>1. seg2[h] = [size |-> s.seg[h].size, free |-> s.seg[h].free,
                   next |-> s.seg[h].next, last |-> s.seg[h].last]
    BY <1>2, <1>3, <1>4
  <2>2. DOMAIN seg3 = DOMAIN seg2
    OBVIOUS
  <2>3. \A g \in DOMAIN seg2 : g # h => seg3[g] = seg2[g]
    OBVIOUS
  <2>4. seg3[h] = [size |-> n, free |-> seg2[h].free,
                   next |-> new, last |-> seg2[h].last]
    BY <1>4
  <2> HIDE DEF seg3
  <2>5. seg3[h] = [size |-> n, free |-> s.seg[h].free,
                   next |-> new, last |-> s.seg[h].last]
    BY <2>1, <2>4
  <2> QED BY <1>1, <1>4, <2>2, <2>3, <2>5
<1> HIDE DEF seg3
<1>6. t = [s EXCEPT !.seg = seg3]
  BY DEF Split, seg1, seg2, seg3, header
<1>7. /\ t.seg = seg3
      /\ t.end = s.end
      /\ t.lastHeader = s.lastHeader
      /\ t.merges = s.merges
      /\ t = [seg |-> t.seg, end |-> t.end, lastHeader |-> t.lastHeader,
              merges |-> t.merges]
  BY <1>6 DEF Typed, Shape
<1>8. Headers(t) = Headers(s) \cup {new}
  BY <1>5, <1>7 DEF Headers
<1>9. Typed(t)
  <2>1. \A g \in Headers(s) : s.seg[g] \in SegmentHeaders
    BY <1>2
  <2>2. header \in SegmentHeaders
    <3>1. s.seg[h].size - n - HeaderUnits \in Nat
      BY <2>1 DEF Splits, SegmentHeaders, HeaderUnits
    <3> QED BY <2>1, <3>1 DEF header, SegmentHeaders, Typed
  <2>3. seg3[h] \in SegmentHeaders
    BY <1>1, <1>5, <2>1 DEF SegmentHeaders
  <2>4. \A g \in Headers(s) \ {h} : seg3[g] \in SegmentHeaders
    BY <1>1, <1>3, <1>5, <2>1 DEF SegmentHeaders
  <2>5. seg3 \in [Headers(s) \cup {new} -> SegmentHeaders]
    <3>1. \A g \in Headers(s) \cup {new} : seg3[g] \in SegmentHeaders
      BY <1>5, <2>2, <2>3, <2>4
    <3>2. seg3 = [g \in Headers(s) \cup {new} |-> seg3[g]]
      BY <1>5 DEF seg3
    <3> QED BY <3>1, <3>2
  <2>6. IsFiniteSet(Headers(s) \cup {new})
    BY FS_AddElement DEF Typed
  <2> QED BY <1>1, <1>7, <1>8, <2>5, <2>6 DEF Typed, Shape
<1> QED BY <1>3, <1>5, <1>7, <1>8, <1>9 DEF header

(* Marking a segment used or free changes nothing else.                    *)
Mark(s, h, b) == [s EXCEPT !.seg[h].free = b]

LEMMA MarkFields ==
  ASSUME NEW s, Typed(s), NEW h \in Headers(s), NEW b \in BOOLEAN,
         NEW t, t = Mark(s, h, b)
  PROVE  /\ Typed(t)
         /\ Headers(t) = Headers(s)
         /\ t.end = s.end /\ t.lastHeader = s.lastHeader /\ t.merges = s.merges
         /\ t.seg[h].free = b
         /\ \A g \in Headers(s) :
              /\ t.seg[g].size = s.seg[g].size
              /\ g # h => t.seg[g].free = s.seg[g].free
              /\ t.seg[g].next = s.seg[g].next
              /\ t.seg[g].last = s.seg[g].last
<1> DEFINE seg1 == [s.seg EXCEPT ![h].free = b]
<1>1. /\ s.seg \in [Headers(s) -> SegmentHeaders]
      /\ Headers(s) = DOMAIN s.seg
  BY DEF Typed, Headers
<1>2. \A g \in Headers(s) :
        /\ seg1[g] = [size |-> s.seg[g].size,
                      free |-> IF g = h THEN b ELSE s.seg[g].free,
                      next |-> s.seg[g].next, last |-> s.seg[g].last]
        /\ seg1[g] \in SegmentHeaders
  BY <1>1 DEF SegmentHeaders
<1>3. DOMAIN seg1 = Headers(s) /\ seg1 = [g \in Headers(s) |-> seg1[g]]
  BY <1>1
<1> HIDE DEF seg1
<1>4. seg1 \in [Headers(s) -> SegmentHeaders]
  BY <1>2, <1>3
<1>5. t = [s EXCEPT !.seg = seg1]
  BY DEF Mark, seg1
<1>6. /\ t = [seg |-> t.seg, end |-> t.end, lastHeader |-> t.lastHeader,
              merges |-> t.merges]
      /\ t.seg = seg1
      /\ t.end = s.end /\ t.lastHeader = s.lastHeader /\ t.merges = s.merges
  BY <1>5 DEF Typed, Shape
<1>7. Headers(t) = Headers(s)
  BY <1>3, <1>6 DEF Headers
<1> QED BY <1>2, <1>4, <1>6, <1>7 DEF Typed, Shape

LEMMA MarkWellFormed ==
  ASSUME NEW s, Typed(s), WellFormed(s), NEW h \in Headers(s), NEW b \in BOOLEAN,
         NEW t, t = Mark(s, h, b)
  PROVE  WellFormed(t)
<1>1. /\ Headers(t) = Headers(s)
      /\ t.end = s.end /\ t.lastHeader = s.lastHeader
      /\ \A g \in Headers(s) : /\ t.seg[g].size = s.seg[g].size
                              /\ t.seg[g].next = s.seg[g].next
                              /\ t.seg[g].last = s.seg[g].last
  BY MarkFields
<1>2. SegmentsDivideHeap(t)
  BY <1>1 DEF WellFormed, SegmentsDivideHeap, SegEnd
<1>3. ListLeadsUp(t)
  <2> SUFFICES ASSUME NEW g \in Headers(t), t.seg[g].next # NULL
               PROVE  /\ t.seg[g].next \in Headers(t)
                      /\ g < t.seg[g].next
                      /\ t.seg[t.seg[g].next].last = g
    BY DEF ListLeadsUp
  <2> QED BY <1>1 DEF WellFormed, ListLeadsUp
<1> QED BY <1>1, <1>2, <1>3 DEF WellFormed

(* A split keeps the heap well-formed.                                     *)
LEMMA SplitWellFormed ==
  ASSUME NEW s, Typed(s), WellFormed(s), NEW h \in Headers(s), NEW n \in Nat,
         Splits(s, h, n), NEW t, t = Split(s, h, n)
  PROVE  WellFormed(t)
<1> DEFINE new == h + HeaderUnits + n
<1>1. /\ Headers(t) = Headers(s) \cup {new}
      /\ t.end = s.end /\ t.lastHeader = s.lastHeader
      /\ t.seg[new].size = s.seg[h].size - n - HeaderUnits
      /\ t.seg[new].free = s.seg[h].free
      /\ t.seg[new].next = s.seg[h].next
      /\ t.seg[new].last = h
      /\ t.seg[h].size = n
      /\ t.seg[h].free = s.seg[h].free
      /\ t.seg[h].next = new
      /\ t.seg[h].last = s.seg[h].last
      /\ \A g \in Headers(s) \ {h} :
           /\ t.seg[g].size = s.seg[g].size
           /\ t.seg[g].free = s.seg[g].free
           /\ t.seg[g].next = s.seg[g].next
           /\ g # s.seg[h].next => t.seg[g].last = s.seg[g].last
           /\ g = s.seg[h].next => t.seg[g].last = new
  BY SplitFields
<1>2. /\ new \in Nat
      /\ new \notin Headers(s)
      /\ h < new
      /\ SegEnd(t, new) = SegEnd(s, h)
      /\ SegEnd(t, h) = new
      /\ \A g \in Headers(s) \ {h} : SegEnd(t, g) = SegEnd(s, g)
  <2>1. h \in Nat /\ s.seg[h].size \in Nat
    BY DEF Typed, SegmentHeaders
  <2>2. new \in Nat /\ new \notin Headers(s) /\ h < new - 1
        /\ new + HeaderUnits + (s.seg[h].size - n - HeaderUnits) = SegEnd(s, h)
    BY SplitShape
  <2>3. SegEnd(t, new) = SegEnd(s, h)
    BY <1>1, <2>2 DEF SegEnd
  <2>4. SegEnd(t, h) = new
    BY <1>1 DEF SegEnd
  <2>5. \A g \in Headers(s) \ {h} : SegEnd(t, g) = SegEnd(s, g)
    BY <1>1 DEF SegEnd
  <2> QED BY <2>1, <2>2, <2>3, <2>4, <2>5
<1>3. /\ \A g \in Headers(s) : /\ g \in Nat /\ SegEnd(s, g) \in Nat
                              /\ HeapStart =< g /\ SegEnd(s, g) =< s.end
                              /\ g < SegEnd(s, g)
      /\ \A f, g \in Headers(s) : f < g => SegEnd(s, f) =< g
      /\ new < SegEnd(s, h)
      /\ HeapStart \in Nat
  <2>1. \A g \in Headers(s) : g \in Nat /\ s.seg[g].size \in Nat
    BY DEF Typed, SegmentHeaders
  <2>2. new < SegEnd(s, h)
    BY <2>1 DEF Splits, SegEnd, HeaderUnits
  <2>3. \A g \in Headers(s) : SegEnd(s, g) \in Nat /\ g < SegEnd(s, g)
    BY <2>1 DEF SegEnd, HeaderUnits
  <2> QED BY <2>1, <2>2, <2>3, HeapStartAssumption DEF WellFormed, SegmentsDivideHeap
<1> HIDE DEF new
<1>4. SegmentsDivideHeap(t)
  <2>0. Headers(t) = Headers(s) \cup {new} /\ t.end = s.end
    BY <1>1
  <2>1. ASSUME NEW g \in Headers(t)
        PROVE  HeapStart =< g /\ SegEnd(t, g) =< t.end
    <3>1. CASE g = new
      <4>1. HeapStart =< h /\ SegEnd(s, h) =< s.end /\ h \in Nat
        BY <1>3
      <4> QED BY <1>2, <1>3, <2>0, <3>1, <4>1
    <3>2. CASE g = h
      <4>1. HeapStart =< h /\ SegEnd(s, h) =< s.end /\ h \in Nat
            /\ SegEnd(s, h) \in Nat
        BY <1>3
      <4>2. s.end \in Nat
        BY DEF Typed
      <4> QED BY <1>2, <1>3, <2>0, <3>2, <4>1, <4>2
    <3>3. CASE g # new /\ g # h
      BY <1>2, <1>3, <2>0, <2>1, <3>3
    <3> QED BY <3>1, <3>2, <3>3
  <2>2. ASSUME NEW f \in Headers(t), NEW g \in Headers(t), f < g
        PROVE  SegEnd(t, f) =< g
    <3>1. CASE f = new
      <4>1. g \in Headers(s) /\ h < g
        BY <1>2, <1>3, <2>0, <2>2, <3>1
      <4> QED BY <1>2, <1>3, <3>1, <4>1
    <3>2. CASE g = new
      <4>1. f \in Headers(s) /\ f # new
        BY <1>2, <2>0, <2>2, <3>2
      <4>2. CASE f = h
        BY <1>2, <3>2, <4>2
      <4>3. CASE f # h
        <5>1. ~(h < f)
          <6>1. SUFFICES ASSUME h < f PROVE FALSE
            OBVIOUS
          <6>2. SegEnd(s, h) =< f
            BY <1>3, <4>1, <6>1
          <6> QED BY <1>2, <1>3, <2>2, <3>2, <4>1, <6>2
        <5>2. f < h
          BY <1>3, <4>1, <4>3, <5>1
        <5>3. SegEnd(s, f) =< h
          BY <1>3, <4>1, <5>2
        <5> QED BY <1>2, <1>3, <3>2, <4>1, <4>3, <5>3
      <4> QED BY <4>2, <4>3
    <3>3. CASE f # new /\ g # new
      <4>1. f \in Headers(s) /\ g \in Headers(s)
        BY <2>0, <3>3
      <4>2. SegEnd(s, f) =< g
        BY <1>3, <2>2, <4>1
      <4>3. CASE f = h
        BY <1>2, <1>3, <4>1, <4>2, <4>3
      <4>4. CASE f # h
        BY <1>2, <4>1, <4>2, <4>4
      <4> QED BY <4>3, <4>4
    <3> QED BY <3>1, <3>2, <3>3
  <2> QED BY <2>1, <2>2 DEF SegmentsDivideHeap
<1>5. ListLeadsUp(t)
  <2> SUFFICES ASSUME NEW g \in Headers(t), t.seg[g].next # NULL
               PROVE  /\ t.seg[g].next \in Headers(t)
                      /\ g < t.seg[g].next
                      /\ t.seg[t.seg[g].next].last = g
    BY DEF ListLeadsUp
  <2>1. CASE g = h
    BY <1>1, <1>2, <2>1
  <2>2. CASE g = new
    <3>1. /\ s.seg[h].next \in Headers(s)
          /\ h < s.seg[h].next
          /\ t.seg[g].next = s.seg[h].next
      BY <1>1, <2>2 DEF WellFormed, ListLeadsUp
    <3>2. new < s.seg[h].next
      BY <1>2, <1>3, <3>1
    <3> QED BY <1>1, <1>3, <2>2, <3>1, <3>2
  <2>3. CASE g # h /\ g # new
    <3>1. /\ g \in Headers(s)
          /\ t.seg[g].next = s.seg[g].next
          /\ s.seg[g].next \in Headers(s)
          /\ g < s.seg[g].next
          /\ s.seg[s.seg[g].next].last = g
      BY <1>1, <2>3 DEF WellFormed, ListLeadsUp
    <3>2. s.seg[h].next # s.seg[g].next
      BY <2>3, <3>1 DEF WellFormed, ListLeadsUp
    <3>3. t.seg[s.seg[g].next].last = s.seg[s.seg[g].next].last
      BY <1>1, <3>1, <3>2
    <3> QED BY <1>1, <3>1, <3>3
  <2> QED BY <2>1, <2>2, <2>3
<1>6. \A g \in Headers(t) : t.seg[g].last # NULL => t.seg[g].last \in Headers(t)
  BY <1>1 DEF WellFormed
<1> QED BY <1>1, <1>4, <1>5, <1>6 DEF WellFormed
-----------------------------------------------------------------------------
(* No operation takes back a merge.                                        *)
LEMMA CombineMonotone ==
  ASSUME NEW s, Shape(s), NEW h
  PROVE  /\ Shape(CombineForward(s, h)) /\ Shape(CombineBackward(s, h))
         /\ CombineForward(s, h).merges \in {s.merges, s.merges + 1}
         /\ CombineForward(s, h).merges = s.merges => CombineForward(s, h) = s
         /\ CombineBackward(s, h).merges \in {s.merges, s.merges + 1}
         /\ CombineBackward(s, h).merges = s.merges => CombineBackward(s, h) = s
<1>1. \A g : Shape(Merge(s, g)) /\ Merge(s, g).merges = s.merges + 1
  <2> TAKE g
  <2> DEFINE x == s.seg[g].next
             relinked == SetLast(s.seg, s.seg[x].next, g)
             seg1 == [relinked EXCEPT
                        ![g].size = @ + relinked[x].size + HeaderUnits]
             last1 == IF s.lastHeader = x THEN g ELSE s.lastHeader
  <2>1. Merge(s, g) = [s EXCEPT !.seg = seg1, !.lastHeader = last1,
                                !.merges = s.merges + 1]
    BY DEF Merge
  <2> HIDE DEF seg1, last1
  <2>2. Merge(s, g) = [seg |-> seg1, end |-> s.end, lastHeader |-> last1,
                       merges |-> s.merges + 1]
    BY <2>1 DEF Shape
  <2>3. s.merges + 1 \in Nat
    BY DEF Shape
  <2> QED BY <2>2, <2>3 DEF Shape
<1>2. \A g : \/ CombineForward(s, g) = s
             \/ CombineForward(s, g) = Merge(s, g)
  BY DEF CombineForward
<1>3. \A g : /\ Shape(CombineForward(s, g))
             /\ CombineForward(s, g).merges \in {s.merges, s.merges + 1}
             /\ CombineForward(s, g).merges = s.merges => CombineForward(s, g) = s
  BY <1>1, <1>2 DEF Shape
<1>4. \/ CombineBackward(s, h) = s
      \/ CombineBackward(s, h) = CombineForward(s, s.seg[h].last)
  BY DEF CombineBackward
<1> QED BY <1>3, <1>4

LEMMA OccupyMonotone ==
  ASSUME NEW s, Shape(s), NEW h, NEW n
  PROVE  Shape(Occupy(s, h, n)) /\ Occupy(s, h, n).merges = s.merges
<1>1. ASSUME NEW seg1
      PROVE  /\ Shape([s EXCEPT !.seg = seg1])
             /\ [s EXCEPT !.seg = seg1].merges = s.merges
  BY DEF Shape
<1>2. \E seg1 : Split(s, h, n) = [s EXCEPT !.seg = seg1]
  BY DEF Split
<1> DEFINE cut == IF Splits(s, h, n) THEN Split(s, h, n) ELSE s
<1>3. Shape(cut) /\ cut.merges = s.merges
  BY <1>1, <1>2
<1>4. Occupy(s, h, n) = [cut EXCEPT !.seg[h].free = FALSE]
  BY DEF Occupy
<1> HIDE DEF cut
<1> DEFINE seg2 == [cut.seg EXCEPT ![h].free = FALSE]
<1>5. Occupy(s, h, n) = [cut EXCEPT !.seg = seg2]
  BY <1>4
<1> HIDE DEF seg2
<1> QED BY <1>3, <1>5 DEF Shape

LEMMA ExpandMonotone ==
  ASSUME NEW s, Shape(s), NEW n
  PROVE  /\ Shape(Expand(s, n))
         /\ Expand(s, n).merges \in {s.merges, s.merges + 1}
         /\ Expand(s, n).merges = s.merges => Expand(s, n) = Grown(s, n)
<1>1. Expand(s, n) = CombineBackward(Grown(s, n), s.end)
  BY DEF Expand
<1>2. \E seg1, end1, last1 :
        Grown(s, n) = [s EXCEPT !.seg = seg1, !.end = end1, !.lastHeader = last1]
  BY DEF Grown
<1>3. Shape(Grown(s, n)) /\ Grown(s, n).merges = s.merges
  BY <1>2 DEF Shape
<1> QED BY <1>1, <1>3, CombineMonotone

LEMMA ReleaseMonotone ==
  ASSUME NEW s, Shape(s), NEW h,
         NEW freed, freed = [s EXCEPT !.seg[h].free = TRUE]
  PROVE  /\ Shape(Release(s, h))
         /\ Release(s, h).merges \in Nat
         /\ Release(s, h).merges >= s.merges
         /\ Release(s, h).merges = s.merges => Release(s, h) = freed
<1> DEFINE seg1 == [s.seg EXCEPT ![h].free = TRUE]
           forward == CombineForward(freed, h)
<1>1. freed = [s EXCEPT !.seg = seg1]
  OBVIOUS
<1> HIDE DEF seg1
<1>2. Shape(freed) /\ freed.merges = s.merges
  BY <1>1 DEF Shape
<1>3. Release(s, h) = CombineBackward(forward, h)
  BY DEF Release
<1>4. /\ Shape(forward)
      /\ forward.merges \in {s.merges, s.merges + 1}
      /\ forward.merges = s.merges => forward = freed
  <2>1. \A f : Shape(f) =>
          /\ Shape(CombineForward(f, h))
          /\ CombineForward(f, h).merges \in {f.merges, f.merges + 1}
          /\ CombineForward(f, h).merges = f.merges => CombineForward(f, h) = f
    BY CombineMonotone
  <2> QED BY <1>2, <2>1
<1> HIDE DEF forward
<1>5. /\ Shape(CombineBackward(forward, h))
      /\ CombineBackward(forward, h).merges \in {forward.merges, forward.merges + 1}
      /\ CombineBackward(forward, h).merges = forward.merges
           => CombineBackward(forward, h) = forward
  BY <1>4, CombineMonotone
<1>6. s.merges \in Nat
  BY DEF Shape
<1> QED BY <1>3, <1>4, <1>5, <1>6
-----------------------------------------------------------------------------
(* malloc takes a free segment that is large enough: a new segment is free, *)
(* and of the others only h changes.                                       *)
LEMMA CutFields ==
  ASSUME NEW s, Typed(s), WellFormed(s),
         NEW h \in Headers(s), NEW n \in Nat \ {0}, Fits(s, h, n),
         NEW cut, cut = IF Splits(s, h, n) THEN Split(s, h, n) ELSE s
  PROVE  /\ Typed(cut) /\ WellFormed(cut) /\ cut.merges = s.merges
         /\ Headers(s) \subseteq Headers(cut)
         /\ \A g \in Headers(cut) \ Headers(s) : cut.seg[g].free
         /\ cut.seg[h].size >= n
         /\ \A g \in Headers(s) \ {h} : /\ cut.seg[g].size = s.seg[g].size
                                        /\ cut.seg[g].free = s.seg[g].free
<1> DEFINE new == h + HeaderUnits + n
<1>1. s.seg[h].free /\ s.seg[h].size >= n
  BY DEF Fits
<1>2. CASE ~Splits(s, h, n)
  BY <1>1, <1>2
<1>3. CASE Splits(s, h, n)
  <2>1. cut = Split(s, h, n)
    BY <1>3
  <2>2. WellFormed(cut)
    BY <1>3, <2>1, SplitWellFormed
  <2>3. /\ Typed(cut) /\ cut.merges = s.merges
        /\ Headers(cut) = Headers(s) \cup {new}
        /\ cut.seg[new].free = s.seg[h].free
        /\ cut.seg[h].size = n
        /\ \A g \in Headers(s) \ {h} : /\ cut.seg[g].size = s.seg[g].size
                                       /\ cut.seg[g].free = s.seg[g].free
    BY <1>3, <2>1, SplitFields
  <2>4. n >= n
    OBVIOUS
  <2> HIDE DEF new
  <2> QED BY <1>1, <2>2, <2>3, <2>4
<1> QED BY <1>2, <1>3

MarkUsed(s, h) == [s EXCEPT !.seg[h].free = FALSE]
MarkFree(s, h) == [s EXCEPT !.seg[h].free = TRUE]

LEMMA UsedFields ==
  ASSUME NEW s, Typed(s), NEW h \in Headers(s)
  PROVE  /\ Typed(MarkUsed(s, h))
         /\ WellFormed(s) => WellFormed(MarkUsed(s, h))
         /\ Headers(MarkUsed(s, h)) = Headers(s)
         /\ MarkUsed(s, h).merges = s.merges
         /\ ~MarkUsed(s, h).seg[h].free
         /\ \A g \in Headers(s) :
              /\ MarkUsed(s, h).seg[g].size = s.seg[g].size
              /\ g # h => MarkUsed(s, h).seg[g].free = s.seg[g].free
<1>1. ASSUME NEW b \in BOOLEAN
      PROVE  /\ Typed(Mark(s, h, b))
             /\ WellFormed(s) => WellFormed(Mark(s, h, b))
             /\ Headers(Mark(s, h, b)) = Headers(s)
             /\ Mark(s, h, b).merges = s.merges
             /\ Mark(s, h, b).seg[h].free = b
             /\ \A g \in Headers(s) :
                  /\ Mark(s, h, b).seg[g].size = s.seg[g].size
                  /\ g # h => Mark(s, h, b).seg[g].free = s.seg[g].free
  <2>1. WellFormed(s) => WellFormed(Mark(s, h, b))
    BY MarkWellFormed
  <2> QED BY <2>1, MarkFields
<1>2. MarkUsed(s, h) = Mark(s, h, FALSE)
  BY DEF MarkUsed, Mark
<1> QED BY <1>1, <1>2

LEMMA FreedFields ==
  ASSUME NEW s, Typed(s), NEW h \in Headers(s)
  PROVE  /\ Typed(MarkFree(s, h))
         /\ WellFormed(s) => WellFormed(MarkFree(s, h))
         /\ Headers(MarkFree(s, h)) = Headers(s)
         /\ MarkFree(s, h).merges = s.merges
         /\ MarkFree(s, h).seg[h].free
         /\ \A g \in Headers(s) :
              /\ MarkFree(s, h).seg[g].size = s.seg[g].size
              /\ g # h => MarkFree(s, h).seg[g].free = s.seg[g].free
<1>1. ASSUME NEW b \in BOOLEAN
      PROVE  /\ Typed(Mark(s, h, b))
             /\ WellFormed(s) => WellFormed(Mark(s, h, b))
             /\ Headers(Mark(s, h, b)) = Headers(s)
             /\ Mark(s, h, b).merges = s.merges
             /\ Mark(s, h, b).seg[h].free = b
             /\ \A g \in Headers(s) :
                  /\ Mark(s, h, b).seg[g].size = s.seg[g].size
                  /\ g # h => Mark(s, h, b).seg[g].free = s.seg[g].free
  <2>1. WellFormed(s) => WellFormed(Mark(s, h, b))
    BY MarkWellFormed
  <2> QED BY <2>1, MarkFields
<1>2. MarkFree(s, h) = Mark(s, h, TRUE)
  BY DEF MarkFree, Mark
<1> QED BY <1>1, <1>2

LEMMA OccupyFields ==
  ASSUME NEW s, Typed(s), WellFormed(s),
         NEW h \in Headers(s), NEW n \in Nat \ {0}, Fits(s, h, n),
         NEW t, t = Occupy(s, h, n)
  PROVE  /\ Typed(t) /\ WellFormed(t) /\ t.merges = s.merges
         /\ Headers(s) \subseteq Headers(t)
         /\ \A g \in Headers(t) \ Headers(s) : t.seg[g].free
         /\ ~t.seg[h].free
         /\ t.seg[h].size >= n
         /\ \A g \in Headers(s) \ {h} : /\ t.seg[g].size = s.seg[g].size
                                        /\ t.seg[g].free = s.seg[g].free
<1> DEFINE cut == IF Splits(s, h, n) THEN Split(s, h, n) ELSE s
<1>1. /\ Typed(cut) /\ WellFormed(cut) /\ cut.merges = s.merges
      /\ Headers(s) \subseteq Headers(cut)
      /\ \A g \in Headers(cut) \ Headers(s) : cut.seg[g].free
      /\ cut.seg[h].size >= n
      /\ \A g \in Headers(s) \ {h} : /\ cut.seg[g].size = s.seg[g].size
                                     /\ cut.seg[g].free = s.seg[g].free
  <2> HIDE DEF cut
  <2>1. cut = IF Splits(s, h, n) THEN Split(s, h, n) ELSE s
    BY DEF cut
  <2> QED BY <2>1, CutFields
<1>2. t = MarkUsed(cut, h)
  BY DEF Occupy, MarkUsed
<1> HIDE DEF cut
<1>3. h \in Headers(cut)
  BY <1>1
<1>4. /\ Typed(t) /\ WellFormed(t)
      /\ Headers(t) = Headers(cut) /\ t.merges = cut.merges
      /\ ~t.seg[h].free
      /\ \A g \in Headers(cut) : /\ t.seg[g].size = cut.seg[g].size
                                 /\ g # h => t.seg[g].free = cut.seg[g].free
  BY <1>1, <1>2, <1>3, UsedFields
<1> QED BY <1>1, <1>3, <1>4

(* malloc keeps the blocks and the segments in step.                       *)
LEMMA OccupySound ==
  ASSUME NEW s, Typed(s), WellFormed(s),
         NEW b, Blocks(b), BlocksFillSegments(s, b),
         NEW h \in Headers(s), NEW n \in Nat \ {0}, Fits(s, h, n),
         NEW t, t = Occupy(s, h, n),
         NEW c, c = [p \in DOMAIN b \cup {h + HeaderUnits} |->
                       IF p = h + HeaderUnits THEN n ELSE b[p]]
  PROVE  Blocks(c) /\ BlocksFillSegments(t, c)
<1>1. \A g \in Headers(s) : g \in Nat
  BY DEF Typed
<1>2. /\ Headers(s) \subseteq Headers(t)
      /\ \A g \in Headers(t) \ Headers(s) : t.seg[g].free
      /\ ~t.seg[h].free
      /\ t.seg[h].size >= n /\ t.seg[h].size \in Nat
      /\ \A g \in Headers(s) \ {h} : /\ t.seg[g].size = s.seg[g].size
                                     /\ t.seg[g].free = s.seg[g].free
  <2>1. /\ Headers(s) \subseteq Headers(t)
        /\ \A g \in Headers(t) \ Headers(s) : t.seg[g].free
        /\ ~t.seg[h].free
        /\ t.seg[h].size >= n /\ Typed(t)
        /\ \A g \in Headers(s) \ {h} : /\ t.seg[g].size = s.seg[g].size
                                       /\ t.seg[g].free = s.seg[g].free
    BY OccupyFields
  <2>2. t.seg[h].size \in Nat
    BY <2>1 DEF Typed, SegmentHeaders
  <2> QED BY <2>1, <2>2
<1>3. Blocks(c)
  BY <1>1 DEF Blocks, HeaderUnits
<1>4. ASSUME NEW p \in DOMAIN c
      PROVE  /\ p - HeaderUnits \in Headers(t)
             /\ ~t.seg[p - HeaderUnits].free
             /\ c[p] =< t.seg[p - HeaderUnits].size
  <2>1. CASE p = h + HeaderUnits
    <3>1. p - HeaderUnits = h /\ c[p] = n
      BY <1>1, <2>1 DEF HeaderUnits
    <3> QED BY <1>2, <3>1
  <2>2. CASE p # h + HeaderUnits
    <3>1. p \in DOMAIN b /\ p \in Nat /\ c[p] = b[p]
      BY <2>2 DEF Blocks
    <3>2. /\ p - HeaderUnits \in Headers(s)
          /\ ~s.seg[p - HeaderUnits].free
          /\ b[p] =< s.seg[p - HeaderUnits].size
      BY <3>1 DEF BlocksFillSegments
    <3>3. p - HeaderUnits # h
      BY <1>1, <2>2, <3>1 DEF HeaderUnits
    <3> QED BY <1>2, <3>1, <3>2, <3>3
  <2> QED BY <2>1, <2>2
<1>5. ASSUME NEW g \in Headers(t), ~t.seg[g].free
      PROVE  g + HeaderUnits \in DOMAIN c
  <2>1. CASE g = h
    BY <2>1
  <2>2. CASE g # h
    <3>1. g \in Headers(s) /\ ~s.seg[g].free
      BY <1>2, <1>5, <2>2
    <3> QED BY <3>1 DEF BlocksFillSegments
  <2> QED BY <2>1, <2>2
<1> QED BY <1>3, <1>4, <1>5 DEF BlocksFillSegments

(* The block lies in its own segment, beside every other block.            *)
LEMMA GrantedApart ==
  ASSUME NEW s, Typed(s), WellFormed(s),
         NEW b, Blocks(b), BlocksFillSegments(s, b),
         NEW h \in Headers(s), NEW n \in Nat \ {0}, Fits(s, h, n)
  PROVE  /\ \A q \in DOMAIN b : Extent(h + HeaderUnits, n) \cap Extent(q, b[q]) = {}
         /\ h + HeaderUnits + n + (IF Splits(s, h, n) THEN HeaderUnits ELSE 0)
              =< s.end
<1>1. /\ \A g \in Headers(s) : g \in Nat /\ s.seg[g].size \in Nat
      /\ s.end \in Nat
      /\ s.seg[h].free /\ s.seg[h].size >= n
  BY DEF Typed, SegmentHeaders, Fits
<1>2. ASSUME NEW q \in DOMAIN b
      PROVE  Extent(h + HeaderUnits, n) \cap Extent(q, b[q]) = {}
  <2> DEFINE g == q - HeaderUnits
  <2>1. /\ g \in Headers(s) /\ g # h
        /\ b[q] =< s.seg[g].size
        /\ q \in Nat /\ b[q] \in Nat
    BY <1>1 DEF BlocksFillSegments, Blocks
  <2>2. \/ SegEnd(s, g) =< h
        \/ SegEnd(s, h) =< g
    <3>1. g < h \/ h < g
      BY <1>1, <2>1
    <3> HIDE DEF g
    <3> QED BY <2>1, <3>1 DEF WellFormed, SegmentsDivideHeap
  <2>3. /\ SegEnd(s, g) = q + s.seg[g].size
        /\ SegEnd(s, h) = h + 2 + s.seg[h].size
        /\ h + HeaderUnits = h + 2
        /\ q = g + 2
        /\ g \in Nat /\ h \in Nat
        /\ s.seg[g].size \in Nat /\ s.seg[h].size \in Nat
    BY <1>1, <2>1 DEF SegEnd, HeaderUnits
  <2> HIDE DEF g
  <2>4. q + b[q] =< h + 2 \/ h + 2 + n =< q
    BY <1>1, <2>1, <2>2, <2>3
  <2> QED BY <1>1, <2>1, <2>3, <2>4 DEF Extent
<1>3. SegEnd(s, h) =< s.end
  BY DEF WellFormed, SegmentsDivideHeap
<1>4. h + HeaderUnits + n + (IF Splits(s, h, n) THEN HeaderUnits ELSE 0)
        =< SegEnd(s, h)
  BY <1>1 DEF Splits, SegEnd, HeaderUnits
<1>5. SegEnd(s, h) \in Nat /\ h \in Nat
  BY <1>1 DEF SegEnd, HeaderUnits
<1> HIDE DEF SegEnd
<1> QED BY <1>1, <1>2, <1>3, <1>4, <1>5 DEF HeaderUnits
-----------------------------------------------------------------------------
(* ExpandHeap maps whole pages, at least one, which have room for a header. *)
LEMMA PagesForRequest ==
  ASSUME NEW n \in Nat \ {0}
  PROVE  /\ CeilDiv(n, PageUnits) * PageUnits \in Nat
         /\ CeilDiv(n, PageUnits) * PageUnits > HeaderUnits
<1>1. PageUnits \in Nat /\ PageUnits > 2
  BY PageUnitsAssumption DEF HeaderUnits
<1>2. \A a, d \in Nat : d > 0 /\ a >= d => a \div d \in Nat /\ a \div d >= 1
  OBVIOUS
<1>3. CeilDiv(n, PageUnits) \in Nat /\ CeilDiv(n, PageUnits) >= 1
  BY <1>1, <1>2 DEF CeilDiv
<1>4. \A q, d \in Nat : q >= 1 => q * d \in Nat /\ q * d >= d
  OBVIOUS
<1> QED BY <1>1, <1>3, <1>4 DEF HeaderUnits

LEMMA GrownFields ==
  ASSUME NEW s, Typed(s), WellFormed(s), NEW n \in Nat \ {0},
         NEW t, t = Grown(s, n)
  PROVE  /\ Typed(t)
         /\ s.end \notin Headers(s)
         /\ Headers(t) = Headers(s) \cup {s.end}
         /\ t.lastHeader = s.end /\ t.merges = s.merges
         /\ SegEnd(t, s.end) = t.end /\ s.end < t.end
         /\ t.seg[s.end].free
         /\ t.seg[s.end].next = NULL
         /\ t.seg[s.end].last = s.lastHeader
         /\ \A g \in Headers(s) :
              /\ t.seg[g].size = s.seg[g].size
              /\ t.seg[g].free = s.seg[g].free
              /\ t.seg[g].last = s.seg[g].last
              /\ t.seg[g].next = IF g = s.lastHeader THEN s.end ELSE s.seg[g].next
<1> DEFINE units == CeilDiv(n, PageUnits) * PageUnits
           e == s.end
           l == s.lastHeader
           header == [size |-> units - HeaderUnits, free |-> TRUE,
                      next |-> NULL, last |-> l]
           seg1 == PutHeader(s.seg, e, header)
           seg2 == [seg1 EXCEPT ![l].next = e]
<1>1. /\ units \in Nat /\ units > HeaderUnits
      /\ e \in Nat /\ l \in Nat /\ l \in Headers(s)
      /\ s.seg \in [Headers(s) -> SegmentHeaders]
  BY PagesForRequest DEF Typed, WellFormed
<1>2. e \notin Headers(s) /\ e - 1 \notin Headers(s) /\ e + 1 \notin Headers(s)
  <2> SUFFICES ASSUME NEW h \in Headers(s) PROVE h < e - 1
    BY <1>1 DEF Typed
  <2>1. h \in Nat /\ s.seg[h].size \in Nat
    BY DEF Typed, SegmentHeaders
  <2>2. SegEnd(s, h) =< e
    BY DEF WellFormed, SegmentsDivideHeap
  <2> QED BY <1>1, <2>1, <2>2 DEF SegEnd, HeaderUnits
<1> HIDE DEF units, header
<1>3. /\ DOMAIN seg1 = Headers(s) \cup {e}
      /\ seg1[e] = header
      /\ \A g \in Headers(s) : seg1[g] = s.seg[g]
  BY <1>1, <1>2 DEF PutHeader, Headers
<1> HIDE DEF seg1
<1>4. \A g \in Headers(s) : s.seg[g] \in SegmentHeaders
  BY <1>1
<1>5. seg1[l] \in SegmentHeaders
  BY <1>1, <1>3, <1>4
<1>6. /\ DOMAIN seg2 = Headers(s) \cup {e}
      /\ seg2[e] = header
      /\ \A g \in Headers(s) \ {l} : seg2[g] = s.seg[g]
      /\ seg2[l] = [size |-> s.seg[l].size, free |-> s.seg[l].free,
                    next |-> e, last |-> s.seg[l].last]
  <2>1. e # l
    BY <1>1, <1>2
  <2>2. seg2[l] = [size |-> seg1[l].size, free |-> seg1[l].free,
                   next |-> e, last |-> seg1[l].last]
    BY <1>1, <1>3, <1>5 DEF SegmentHeaders
  <2> QED BY <1>1, <1>2, <1>3, <2>1, <2>2
<1>7. seg2 \in [Headers(s) \cup {e} -> SegmentHeaders]
  <2>1. header \in SegmentHeaders
    BY <1>1 DEF header, SegmentHeaders, HeaderUnits, NULL
  <2>2. seg2[l] \in SegmentHeaders
    <3>1. s.seg[l].size \in Nat /\ s.seg[l].free \in BOOLEAN /\ s.seg[l].last \in Nat
      BY <1>1, <1>4 DEF SegmentHeaders
    <3> HIDE DEF seg2
    <3> QED BY <1>1, <1>6, <3>1 DEF SegmentHeaders
  <2>3. seg2 = [g \in Headers(s) \cup {e} |-> seg2[g]]
    BY <1>3
  <2> HIDE DEF seg2
  <2>4. \A g \in Headers(s) \cup {e} : seg2[g] \in SegmentHeaders
    BY <1>4, <1>6, <2>1, <2>2
  <2> QED BY <2>3, <2>4
<1> HIDE DEF seg2
<1>8. t = [s EXCEPT !.seg = seg2, !.end = e + units, !.lastHeader = e]
  BY DEF Grown, seg2, seg1, header, units
<1>9. /\ t = [seg |-> t.seg, end |-> t.end, lastHeader |-> t.lastHeader,
              merges |-> t.merges]
      /\ t.seg = seg2 /\ t.end = e + units /\ t.lastHeader = e
      /\ t.merges = s.merges
  BY <1>8 DEF Typed, Shape
<1>10. Headers(t) = Headers(s) \cup {e}
  BY <1>6, <1>9 DEF Headers
<1>11. Typed(t)
  <2>1. IsFiniteSet(Headers(s) \cup {e})
    BY FS_AddElement DEF Typed
  <2>2. Headers(s) \subseteq Nat /\ s.merges \in Nat
    BY DEF Typed, Shape
  <2> QED BY <1>1, <1>7, <1>9, <1>10, <2>1, <2>2 DEF Typed, Shape
<1>12. SegEnd(t, e) = t.end /\ e < t.end
  BY <1>1, <1>6, <1>9 DEF SegEnd, header, HeaderUnits
<1>13. t.seg[e].free /\ t.seg[e].next = NULL /\ t.seg[e].last = l
  BY <1>6, <1>9 DEF header
<1>14. \A g \in Headers(s) :
         /\ t.seg[g].size = s.seg[g].size
         /\ t.seg[g].free = s.seg[g].free
         /\ t.seg[g].last = s.seg[g].last
         /\ t.seg[g].next = IF g = l THEN e ELSE s.seg[g].next
  BY <1>6, <1>9
<1> QED BY <1>2, <1>9, <1>10, <1>11, <1>12, <1>13, <1>14

LEMMA GrownWellFormed ==
  ASSUME NEW s, Typed(s), WellFormed(s), NEW n \in Nat \ {0},
         NEW t, t = Grown(s, n)
  PROVE  WellFormed(t)
<1> DEFINE e == s.end
           l == s.lastHeader
<1>1. /\ Headers(t) = Headers(s) \cup {e} /\ e \notin Headers(s)
      /\ t.lastHeader = e
      /\ SegEnd(t, e) = t.end /\ e < t.end
      /\ t.seg[e].next = NULL
      /\ t.seg[e].last = l
      /\ \A g \in Headers(s) :
           /\ t.seg[g].size = s.seg[g].size
           /\ t.seg[g].last = s.seg[g].last
           /\ t.seg[g].next = IF g = l THEN e ELSE s.seg[g].next
  BY GrownFields
<1>2. /\ \A g \in Headers(s) : /\ g \in Nat /\ SegEnd(s, g) \in Nat
                              /\ HeapStart =< g /\ SegEnd(s, g) =< e
                              /\ g < e
                              /\ SegEnd(t, g) = SegEnd(s, g)
      /\ \A f, g \in Headers(s) : f < g => SegEnd(s, f) =< g
      /\ HeapStart \in Headers(s) /\ l \in Headers(s)
      /\ e \in Nat /\ HeapStart \in Nat
  <2>1. \A g \in Headers(s) : g \in Nat /\ s.seg[g].size \in Nat
    BY DEF Typed, SegmentHeaders
  <2>2. \A g \in Headers(s) : SegEnd(s, g) \in Nat /\ g < SegEnd(s, g)
                             /\ SegEnd(t, g) = SegEnd(s, g)
    BY <1>1, <2>1 DEF SegEnd, HeaderUnits
  <2>3. e \in Nat
    BY DEF Typed
  <2> QED BY <2>1, <2>2, <2>3, HeapStartAssumption DEF WellFormed, SegmentsDivideHeap
<1>3. t.end \in Nat
  BY GrownFields DEF Typed
<1> HIDE DEF e, l
<1>4. SegmentsDivideHeap(t)
  <2>1. ASSUME NEW g \in Headers(t)
        PROVE  HeapStart =< g /\ SegEnd(t, g) =< t.end
    <3>1. CASE g = e
      BY <1>1, <1>2, <1>3, <3>1
    <3>2. CASE g \in Headers(s)
      <4>1. SegEnd(t, g) =< e /\ SegEnd(t, g) \in Nat /\ HeapStart =< g
        BY <1>2, <3>2
      <4> QED BY <1>1, <1>2, <1>3, <4>1
    <3> QED BY <1>1, <3>1, <3>2
  <2>2. ASSUME NEW f \in Headers(t), NEW g \in Headers(t), f < g
        PROVE  SegEnd(t, f) =< g
    <3>1. f \in Headers(s)
      <4>1. g \in Nat /\ g =< e
        BY <1>1, <1>2
      <4> QED BY <1>1, <1>2, <2>2, <4>1
    <3> QED BY <1>1, <1>2, <2>2, <3>1
  <2> QED BY <2>1, <2>2 DEF SegmentsDivideHeap
<1>5. ListLeadsUp(t)
  <2> SUFFICES ASSUME NEW g \in Headers(t), t.seg[g].next # NULL
               PROVE  /\ t.seg[g].next \in Headers(t)
                      /\ g < t.seg[g].next
                      /\ t.seg[t.seg[g].next].last = g
    BY DEF ListLeadsUp
  <2>1. CASE g = l
    BY <1>1, <1>2, <2>1
  <2>2. CASE g # l
    <3>1. g \in Headers(s) /\ t.seg[g].next = s.seg[g].next
      BY <1>1, <2>2
    <3> QED BY <1>1, <3>1 DEF WellFormed, ListLeadsUp
  <2> QED BY <2>1, <2>2
<1>6. \A g \in Headers(t) : t.seg[g].last # NULL => t.seg[g].last \in Headers(t)
  BY <1>1, <1>2 DEF WellFormed
<1> QED BY <1>1, <1>2, <1>4, <1>5, <1>6 DEF WellFormed
-----------------------------------------------------------------------------
LEMMA InitInv == Init => HInv
<1> SUFFICES ASSUME Init PROVE HInv
  OBVIOUS
<1> DEFINE size == InitPages * PageUnits - HeaderUnits
           header == [size |-> size, free |-> TRUE, next |-> NULL, last |-> NULL]
<1>1. size \in Nat /\ HeapStart \in Nat /\ HeapStart # 0
      /\ HeapStart + HeaderUnits + size = HeapStart + InitPages * PageUnits
      /\ InitPages * PageUnits \in Nat
  <2>1. \A q, d \in Nat : q >= 1 => q * d \in Nat /\ q * d >= d
    OBVIOUS
  <2>2. InitPages \in Nat /\ InitPages >= 1 /\ PageUnits \in Nat /\ PageUnits > 2
    BY InitPagesAssumption, PageUnitsAssumption DEF HeaderUnits
  <2>3. InitPages * PageUnits \in Nat /\ InitPages * PageUnits > 2
    BY <2>1, <2>2
  <2> QED BY <2>3, HeapStartAssumption DEF HeaderUnits
<1> HIDE DEF size
<1>2. /\ heap = [seg |-> heap.seg, end |-> heap.end,
                 lastHeader |-> heap.lastHeader, merges |-> heap.merges]
      /\ heap.seg = [h \in {HeapStart} |-> header]
      /\ heap.end = HeapStart + InitPages * PageUnits
      /\ heap.lastHeader = HeapStart
      /\ heap.merges = 0
  BY DEF Init, InitHeap, size
<1>3. /\ Headers(heap) = {HeapStart}
      /\ heap.seg[HeapStart] = header
  BY <1>2 DEF Headers
<1>4. header \in SegmentHeaders
  BY <1>1 DEF SegmentHeaders, NULL
<1>5. Typed(heap)
  <2>1. heap.seg \in [{HeapStart} -> SegmentHeaders]
    BY <1>2, <1>4
  <2>2. IsFiniteSet({HeapStart})
    BY FS_Singleton
  <2>3. heap.end \in Nat
    BY <1>1, <1>2
  <2> QED BY <1>1, <1>2, <1>3, <2>1, <2>2, <2>3 DEF Typed, Shape
<1>6. WellFormed(heap)
  <2>1. SegEnd(heap, HeapStart) = heap.end
    BY <1>1, <1>2, <1>3 DEF SegEnd
  <2>2. SegmentsDivideHeap(heap)
    BY <1>1, <1>2, <1>3, <2>1 DEF SegmentsDivideHeap
  <2> QED BY <1>1, <1>2, <1>3, <2>2 DEF WellFormed, ListLeadsUp, NULL
<1>7. Blocks(live) /\ BlocksFillSegments(heap, live)
  BY <1>2, <1>3 DEF Init, Blocks, BlocksFillSegments
<1> QED BY <1>2, <1>5, <1>6, <1>7 DEF HInv, Init, Shape, Typed

LEMMA GrantStep == HInv /\ GrantFirstFit => HInv'
<1> SUFFICES ASSUME HInv, GrantFirstFit PROVE HInv'
  OBVIOUS
<1>1. PICK h \in Headers(heap) :
        /\ FirstFit(heap, request, h)
        /\ heap' = Occupy(heap, h, request)
        /\ live' = [p \in DOMAIN live \cup {h + HeaderUnits} |->
                      IF p = h + HeaderUnits THEN request ELSE live[p]]
        /\ status' = Verdict(h, request)
  BY DEF GrantFirstFit
<1>2. /\ request \in Nat \ {0} /\ request' = 0
      /\ Fits(heap, h, request)
  BY <1>1 DEF GrantFirstFit, Running, HInv, FirstFit
<1>3. Shape(heap') /\ heap'.merges = heap.merges
  BY <1>1, OccupyMonotone DEF HInv
<1>4. ASSUME heap.merges = 0
      PROVE  Typed(heap') /\ WellFormed(heap') /\ Blocks(live')
             /\ BlocksFillSegments(heap', live') /\ status' = "ok"
  <2>1. Typed(heap) /\ WellFormed(heap) /\ Blocks(live)
        /\ BlocksFillSegments(heap, live)
    BY <1>4 DEF HInv
  <2>2. Typed(heap') /\ WellFormed(heap')
    BY <1>1, <1>2, <2>1, OccupyFields
  <2>3. Blocks(live') /\ BlocksFillSegments(heap', live')
    BY <1>1, <1>2, <2>1, OccupySound
  <2>4. /\ \A q \in DOMAIN live :
             Extent(h + HeaderUnits, request) \cap Extent(q, live[q]) = {}
        /\ h + HeaderUnits + request
             + (IF Splits(heap, h, request) THEN HeaderUnits ELSE 0) =< heap.end
    BY <1>2, <2>1, GrantedApart
  <2>5. h \in Nat /\ heap.end \in Nat
    BY <2>1 DEF Typed
  <2>6. h + HeaderUnits
          + (request + (IF Splits(heap, h, request) THEN HeaderUnits ELSE 0))
            =< heap.end
    BY <1>2, <2>4, <2>5 DEF HeaderUnits
  <2>7. ~(h + HeaderUnits
            + (request + (IF Splits(heap, h, request) THEN HeaderUnits ELSE 0))
              > heap.end)
    BY <1>2, <2>5, <2>6 DEF HeaderUnits
  <2>8. Verdict(h, request) = "ok"
    BY <2>4, <2>7 DEF Verdict
  <2> QED BY <1>1, <2>2, <2>3, <2>8
<1> QED BY <1>2, <1>3, <1>4 DEF HInv

LEMMA ExpandStep == HInv /\ ExpandHeap => HInv'
<1> SUFFICES ASSUME HInv, ExpandHeap PROVE HInv'
  OBVIOUS
<1>1. /\ request \in Nat \ {0} /\ heap' = Expand(heap, request)
      /\ UNCHANGED <<live, request, status>>
  BY DEF ExpandHeap, Running, HInv
<1>2. /\ Shape(heap')
      /\ heap'.merges \in {heap.merges, heap.merges + 1}
      /\ heap'.merges = heap.merges => heap' = Grown(heap, request)
      /\ heap.merges \in Nat
  BY <1>1, ExpandMonotone DEF HInv, Shape
<1>3. ASSUME heap'.merges = 0
      PROVE  Typed(heap') /\ WellFormed(heap') /\ BlocksFillSegments(heap', live)
             /\ Blocks(live) /\ status \in {"ok", "fault"}
  <2>1. heap.merges = 0 /\ heap' = Grown(heap, request)
    BY <1>2, <1>3
  <2>2. Typed(heap) /\ WellFormed(heap) /\ Blocks(live)
        /\ BlocksFillSegments(heap, live) /\ status \in {"ok", "fault"}
    BY <2>1 DEF HInv
  <2>3. WellFormed(heap')
    BY <1>1, <2>1, <2>2, GrownWellFormed
  <2>4. /\ Typed(heap')
        /\ Headers(heap') = Headers(heap) \cup {heap.end}
        /\ heap'.seg[heap.end].free
        /\ \A g \in Headers(heap) : /\ heap'.seg[g].size = heap.seg[g].size
                                    /\ heap'.seg[g].free = heap.seg[g].free
    BY <1>1, <2>1, <2>2, GrownFields
  <2>5. BlocksFillSegments(heap', live)
    BY <2>2, <2>4 DEF BlocksFillSegments
  <2> QED BY <2>2, <2>3, <2>4, <2>5
<1> QED BY <1>1, <1>2, <1>3 DEF HInv

LEMMA FreeStep == HInv /\ (\E p \in DOMAIN live : HeapFree(p)) => HInv'
<1> SUFFICES ASSUME HInv, NEW p \in DOMAIN live, HeapFree(p) PROVE HInv'
  OBVIOUS
<1> DEFINE h == p - HeaderUnits
           freed == MarkFree(heap, h)
<1>1. /\ heap' = Release(heap, h)
      /\ live' = [q \in DOMAIN live \ {p} |-> live[q]]
      /\ request' = request /\ status' = status
  BY DEF HeapFree
<1>2. /\ Shape(heap')
      /\ heap'.merges \in Nat /\ heap.merges \in Nat
      /\ heap'.merges >= heap.merges
      /\ heap'.merges = heap.merges => heap' = freed
  <2>1. freed = [heap EXCEPT !.seg[h].free = TRUE]
    BY DEF MarkFree
  <2>2. heap.merges \in Nat
    BY DEF HInv, Shape
  <2> HIDE DEF freed, h
  <2> QED BY <1>1, <2>1, <2>2, ReleaseMonotone DEF HInv
<1>3. ASSUME heap'.merges = 0
      PROVE  Typed(heap') /\ WellFormed(heap') /\ BlocksFillSegments(heap', live')
             /\ Blocks(live') /\ status' \in {"ok", "fault"}
  <2>1. heap.merges = 0 /\ heap' = freed
    BY <1>2, <1>3
  <2>2. Typed(heap) /\ WellFormed(heap) /\ Blocks(live)
        /\ BlocksFillSegments(heap, live) /\ status \in {"ok", "fault"}
    BY <2>1 DEF HInv
  <2>3. h \in Headers(heap) /\ p \in Nat
    BY <2>2 DEF BlocksFillSegments, Blocks
  <2> HIDE DEF h
  <2>4. /\ Typed(heap') /\ WellFormed(heap')
        /\ Headers(heap') = Headers(heap)
        /\ heap'.seg[h].free
        /\ \A g \in Headers(heap) :
             /\ heap'.seg[g].size = heap.seg[g].size
             /\ g # h => heap'.seg[g].free = heap.seg[g].free
    BY <2>1, <2>2, <2>3, FreedFields
  <2>5. Blocks(live')
    BY <1>1, <2>2 DEF Blocks
  <2>6. ASSUME NEW q \in DOMAIN live'
        PROVE  /\ q - HeaderUnits \in Headers(heap')
               /\ ~heap'.seg[q - HeaderUnits].free
               /\ live'[q] =< heap'.seg[q - HeaderUnits].size
    <3>1. q \in DOMAIN live /\ q # p /\ live'[q] = live[q] /\ q \in Nat
      BY <1>1, <2>2 DEF Blocks
    <3>2. q - HeaderUnits # h
      BY <2>3, <3>1 DEF h, HeaderUnits
    <3> QED BY <2>2, <2>4, <3>1, <3>2 DEF BlocksFillSegments
  <2>7. ASSUME NEW g \in Headers(heap'), ~heap'.seg[g].free
        PROVE  g + HeaderUnits \in DOMAIN live'
    <3>1. g \in Headers(heap) /\ g # h /\ ~heap.seg[g].free
      BY <2>4, <2>7
    <3>2. g + HeaderUnits \in DOMAIN live
      BY <2>2, <3>1 DEF BlocksFillSegments
    <3>3. g + HeaderUnits # p
      BY <2>2, <2>3, <3>1 DEF h, HeaderUnits, Typed
    <3> QED BY <1>1, <3>2, <3>3
  <2>8. BlocksFillSegments(heap', live')
    BY <2>6, <2>7 DEF BlocksFillSegments
  <2> QED BY <1>1, <2>2, <2>4, <2>5, <2>8
<1> QED BY <1>1, <1>2, <1>3 DEF HInv

(* Until a merge no action that gives up on the heap is enabled.           *)
LEMMA NoFailure ==
  HInv /\ heap.merges = 0 =>
    /\ ~Hang
    /\ ~WalkIntoOverwritten
    /\ \A p \in DOMAIN live : ~HeapFreeOverwritten(p)
<1> SUFFICES ASSUME HInv, heap.merges = 0
             PROVE  /\ ~Hang
                    /\ ~WalkIntoOverwritten
                    /\ \A p \in DOMAIN live : ~HeapFreeOverwritten(p)
  OBVIOUS
<1>1. Typed(heap) /\ WellFormed(heap) /\ BlocksFillSegments(heap, live)
  BY DEF HInv
<1>2. ~NeverEnds(heap, request) /\ Dangling(heap) = {}
  BY <1>1, NoHang
<1>3. \A h \in Headers(heap) : /\ heap.seg[h].next \in Headers(heap) \cup {NULL}
                               /\ heap.seg[h].last \in Headers(heap) \cup {NULL}
  BY <1>1 DEF WellFormed, ListLeadsUp
<1>4. ~Hang
  BY <1>2 DEF Hang
<1>5. ~WalkIntoOverwritten
  BY <1>1, <1>2, <1>3 DEF WalkIntoOverwritten, SplitReadable, WellFormed
<1>6. ASSUME NEW p \in DOMAIN live PROVE ~HeapFreeOverwritten(p)
  <2>1. p - HeaderUnits \in Headers(heap)
    BY <1>1 DEF BlocksFillSegments
  <2>2. Neighbours(heap, p - HeaderUnits) \subseteq Headers(heap)
    BY <1>3, <2>1 DEF Neighbours
  <2> QED BY <2>2 DEF HeapFreeOverwritten
<1> QED BY <1>4, <1>5, <1>6

LEMMA NextInv == HInv /\ [Next]_vars => HInv'
<1> SUFFICES ASSUME HInv, [Next]_vars PROVE HInv'
  OBVIOUS
<1>1. ASSUME NEW bytes \in Requests, CallHeapAllocate(bytes) PROVE HInv'
  <2>1. Units(bytes) \in Nat
    <3>1. bytes \in Nat
      BY RequestsAssumption
    <3>2. \A a, d \in Nat : d > 0 => a \div d \in Nat
      OBVIOUS
    <3>3. bytes + 16 - 1 \in Nat
      BY <3>1
    <3> QED BY <3>2, <3>3 DEF Units, CeilDiv, UnitBytes
  <2> QED BY <1>1, <2>1 DEF CallHeapAllocate, HInv
<1>2. CASE GrantFirstFit
  BY <1>2, GrantStep
<1>3. CASE ExpandHeap
  BY <1>3, ExpandStep
<1>4. CASE Hang
  BY <1>4, NoFailure DEF Hang, HInv
<1>5. CASE WalkIntoOverwritten
  BY <1>5, NoFailure DEF WalkIntoOverwritten, HInv
<1>6. ASSUME NEW p \in DOMAIN live, HeapFree(p) PROVE HInv'
  BY <1>6, FreeStep
<1>7. ASSUME NEW p \in DOMAIN live, HeapFreeOverwritten(p) PROVE HInv'
  BY <1>7, NoFailure DEF HeapFreeOverwritten, HInv
<1>8. CASE HeapFreeNull
  BY <1>8 DEF HeapFreeNull, HInv
<1>9. CASE UNCHANGED vars
  BY <1>9 DEF vars, HInv
<1> QED
  BY <1>1, <1>2, <1>3, <1>4, <1>5, <1>6, <1>7, <1>8, <1>9 DEF Next

THEOREM Invariance == Spec => []HInv
  BY InitInv, NextInv, PTL DEF Spec

(* Until free merges segments, no two blocks overlap, none runs past the   *)
(* heap, every walk of the list ends and no overwritten header is read.    *)
THEOREM SoundCorrect == Spec => []SoundUntilMerged
<1>1. HInv => SoundUntilMerged
  BY DEF HInv, SoundUntilMerged
<1> QED BY <1>1, Invariance, PTL

(* Until then the segments divide the heap, and blocks fill the used ones. *)
THEOREM LayoutCorrect == Spec => []LayoutUntilMerged
<1>1. HInv => LayoutUntilMerged
  BY DEF HInv, LayoutUntilMerged, WellFormed
<1> QED BY <1>1, Invariance, PTL

(* Until then the list leads up, and its back pointers match.              *)
THEOREM LinksCorrect == Spec => []LinksUntilMerged
<1>1. HInv => LinksUntilMerged
  BY DEF HInv, LinksUntilMerged, WellFormed
<1> QED BY <1>1, Invariance, PTL
-----------------------------------------------------------------------------
(***************************************************************************)
(* What holds of every heap, also behind a merge: its fields keep their    *)
(* types, whatever headers overwrite each other.                           *)
(***************************************************************************)
Stored(s) ==
  /\ Shape(s)
  /\ s.seg \in [Headers(s) -> SegmentHeaders]
  /\ Headers(s) \in SUBSET Nat
  /\ s.end \in Nat /\ s.lastHeader \in Nat

(* A header is written where the heap is mapped, or the heap has failed.   *)
InBounds(s) == \A h \in Headers(s) : HeapStart =< h /\ h + HeaderUnits =< s.end

TInv ==
  /\ TypeOK
  /\ status = "ok" => InBounds(heap)
  /\ \A p \in DOMAIN live : HeapStart + HeaderUnits =< p

LEMMA SetLastTyped ==
  ASSUME NEW D, NEW seg \in [D -> SegmentHeaders], NEW h, NEW l \in Nat,
         NEW x, x = SetLast(seg, h, l)
  PROVE  /\ x \in [D -> SegmentHeaders]
         /\ \A g \in D : /\ x[g].size = seg[g].size /\ x[g].free = seg[g].free
                         /\ x[g].next = seg[g].next
                         /\ x[g].last \in {seg[g].last, l}
<1>1. CASE h = NULL
  BY <1>1 DEF SetLast
<1>2. CASE h # NULL
  <2>1. x = [seg EXCEPT ![h].last = l]
    BY <1>2 DEF SetLast
  <2>2. \A g \in D : seg[g] \in SegmentHeaders
    OBVIOUS
  <2>3. /\ DOMAIN x = D
        /\ \A g \in D : g # h => x[g] = seg[g]
        /\ h \in D => x[h] = [seg[h] EXCEPT !.last = l]
    BY <2>1
  <2>4. x = [g \in D |-> x[g]]
    BY <2>1
  <2>5. h \in D => /\ x[h] = [size |-> seg[h].size, free |-> seg[h].free,
                              next |-> seg[h].next, last |-> l]
                   /\ x[h] \in SegmentHeaders
    BY <2>2, <2>3 DEF SegmentHeaders
  <2> HIDE <2>1
  <2>6. \A g \in D : x[g] \in SegmentHeaders
    BY <2>2, <2>3, <2>5
  <2>7. x \in [D -> SegmentHeaders]
    BY <2>4, <2>6
  <2> QED BY <2>3, <2>5, <2>7
<1> QED BY <1>1, <1>2

LEMMA PutTyped ==
  ASSUME NEW D, D \subseteq Nat, NEW seg \in [D -> SegmentHeaders],
         NEW a \in Nat, NEW header \in SegmentHeaders,
         NEW x, x = PutHeader(seg, a, header)
  PROVE  /\ x \in [(D \ {a - 1, a + 1}) \cup {a} -> SegmentHeaders]
         /\ (D \ {a - 1, a + 1}) \cup {a} \subseteq Nat
         /\ x[a] = header
         /\ \A g \in D \ {a - 1, a, a + 1} : x[g] = seg[g]
<1>1. x = [g \in (D \ {a - 1, a + 1}) \cup {a} |-> IF g = a THEN header ELSE seg[g]]
  BY DEF PutHeader
<1>2. \A g \in D : seg[g] \in SegmentHeaders
  OBVIOUS
<1> QED BY <1>1, <1>2

LEMMA SplitStored ==
  ASSUME NEW s, Stored(s), NEW h \in Headers(s), NEW n \in Nat \ {0}, Splits(s, h, n),
         NEW t, t = Split(s, h, n)
  PROVE  /\ Stored(t) /\ t.end = s.end /\ h \in Headers(t)
         /\ Headers(t) \subseteq Headers(s) \cup {h + HeaderUnits + n}
<1> DEFINE new == h + HeaderUnits + n
           header == [size |-> s.seg[h].size - n - HeaderUnits, free |-> s.seg[h].free,
                      next |-> s.seg[h].next, last |-> h]
           seg1 == SetLast(s.seg, s.seg[h].next, new)
           seg2 == PutHeader(seg1, new, header)
           seg3 == [seg2 EXCEPT ![h] = [size |-> n, free |-> @.free,
                                        next |-> new, last |-> @.last]]
           D == (Headers(s) \ {new - 1, new + 1}) \cup {new}
<1>1. /\ s.seg \in [Headers(s) -> SegmentHeaders] /\ Headers(s) \subseteq Nat
      /\ h \in Nat /\ s.seg[h] \in SegmentHeaders
  BY DEF Stored
<1>2. /\ new \in Nat /\ h # new /\ h # new - 1 /\ h # new + 1
      /\ s.seg[h].size - n - HeaderUnits \in Nat
  BY <1>1 DEF Splits, SegmentHeaders, HeaderUnits
<1>3. header \in SegmentHeaders
  BY <1>1, <1>2 DEF SegmentHeaders
<1> HIDE DEF header, new
<1>4. seg1 \in [Headers(s) -> SegmentHeaders]
  BY <1>1, <1>2, SetLastTyped
<1> HIDE DEF seg1
<1>5. seg2 \in [D -> SegmentHeaders] /\ D \subseteq Nat /\ h \in D
  <2>1. seg2 \in [D -> SegmentHeaders] /\ D \subseteq Nat
    BY <1>1, <1>2, <1>3, <1>4, PutTyped
  <2> QED BY <1>2, <2>1
<1> HIDE DEF seg2, D
<1>6. seg3 \in [D -> SegmentHeaders]
  <2>1. [size |-> n, free |-> seg2[h].free, next |-> new, last |-> seg2[h].last]
          \in SegmentHeaders
    <3>1. seg2[h] \in SegmentHeaders
      BY <1>5
    <3> QED BY <1>2, <3>1 DEF SegmentHeaders
  <2>2. PICK y : y = [size |-> n, free |-> seg2[h].free, next |-> new, last |-> seg2[h].last]
    OBVIOUS
  <2>3. seg3 = [seg2 EXCEPT ![h] = y]
    BY <2>2
  <2> QED BY <1>5, <2>1, <2>2, <2>3
<1> HIDE DEF seg3
<1>7. t = [s EXCEPT !.seg = seg3]
  BY DEF Split, seg3, seg2, seg1, header, new
<1>8. /\ t = [seg |-> t.seg, end |-> t.end, lastHeader |-> t.lastHeader, merges |-> t.merges]
      /\ t.seg = seg3 /\ t.end = s.end /\ t.lastHeader = s.lastHeader /\ t.merges = s.merges
  BY <1>7 DEF Stored, Shape
<1>9. Headers(t) = D
  BY <1>6, <1>8 DEF Headers
<1>10. Stored(t)
  BY <1>5, <1>6, <1>8, <1>9 DEF Stored, Shape
<1> QED BY <1>5, <1>8, <1>9, <1>10 DEF D, new

LEMMA MarkStored ==
  ASSUME NEW s, Stored(s), NEW h \in Headers(s), NEW b \in BOOLEAN,
         NEW t, t = Mark(s, h, b)
  PROVE  /\ Stored(t) /\ Headers(t) = Headers(s) /\ t.end = s.end
         /\ \A g \in Headers(s) : /\ t.seg[g].next = s.seg[g].next
                                  /\ t.seg[g].last = s.seg[g].last
<1> DEFINE seg1 == [s.seg EXCEPT ![h].free = b]
<1>1. /\ s.seg \in [Headers(s) -> SegmentHeaders]
      /\ Headers(s) = DOMAIN s.seg
  BY DEF Stored, Headers
<1>2. \A g \in Headers(s) :
        /\ seg1[g] = [size |-> s.seg[g].size,
                      free |-> IF g = h THEN b ELSE s.seg[g].free,
                      next |-> s.seg[g].next, last |-> s.seg[g].last]
        /\ seg1[g] \in SegmentHeaders
  BY <1>1 DEF SegmentHeaders
<1>3. DOMAIN seg1 = Headers(s) /\ seg1 = [g \in Headers(s) |-> seg1[g]]
  BY <1>1
<1> HIDE DEF seg1
<1>4. seg1 \in [Headers(s) -> SegmentHeaders]
  BY <1>2, <1>3
<1>5. t = [s EXCEPT !.seg = seg1]
  BY DEF Mark, seg1
<1>6. /\ t = [seg |-> t.seg, end |-> t.end, lastHeader |-> t.lastHeader, merges |-> t.merges]
      /\ t.seg = seg1
      /\ t.end = s.end /\ t.lastHeader = s.lastHeader /\ t.merges = s.merges
  BY <1>5 DEF Stored, Shape
<1>7. Headers(t) = Headers(s)
  BY <1>3, <1>6 DEF Headers
<1> QED BY <1>2, <1>4, <1>6, <1>7 DEF Stored, Shape

LEMMA OccupyStored ==
  ASSUME NEW s, Stored(s), NEW h \in Headers(s), NEW n \in Nat \ {0},
         NEW t, t = Occupy(s, h, n)
  PROVE  /\ Stored(t) /\ t.end = s.end
         /\ ~Splits(s, h, n) => Headers(t) = Headers(s)
         /\ Headers(t) \subseteq Headers(s) \cup {h + HeaderUnits + n}
<1> DEFINE cut == IF Splits(s, h, n) THEN Split(s, h, n) ELSE s
<1>1. /\ Stored(cut) /\ cut.end = s.end /\ h \in Headers(cut)
      /\ ~Splits(s, h, n) => Headers(cut) = Headers(s)
      /\ Headers(cut) \subseteq Headers(s) \cup {h + HeaderUnits + n}
  <2>1. CASE Splits(s, h, n)
    BY <2>1, SplitStored
  <2>2. CASE ~Splits(s, h, n)
    BY <2>2
  <2> QED BY <2>1, <2>2
<1>2. PICK b \in BOOLEAN : b = FALSE
  OBVIOUS
<1>3. t = Mark(cut, h, b)
  BY <1>2 DEF Occupy, Mark
<1> HIDE DEF cut
<1>4. Stored(t) /\ Headers(t) = Headers(cut) /\ t.end = cut.end
  BY <1>1, <1>3, MarkStored
<1> QED BY <1>1, <1>4

LEMMA GrownStored ==
  ASSUME NEW s, Stored(s), InBounds(s), s.lastHeader \in Headers(s),
         NEW n \in Nat \ {0}, NEW t, t = Grown(s, n)
  PROVE  /\ Stored(t) /\ InBounds(t)
         /\ Headers(t) = Headers(s) \cup {s.end}
         /\ t.end = s.end + CeilDiv(n, PageUnits) * PageUnits
         /\ t.merges = s.merges
         /\ t.seg[s.end].last = s.lastHeader
         /\ t.seg[s.lastHeader].next = s.end
<1> DEFINE units == CeilDiv(n, PageUnits) * PageUnits
           e == s.end
           l == s.lastHeader
           header == [size |-> units - HeaderUnits, free |-> TRUE,
                      next |-> NULL, last |-> l]
           seg1 == PutHeader(s.seg, e, header)
           seg2 == [seg1 EXCEPT ![l].next = e]
           D == (Headers(s) \ {e - 1, e + 1}) \cup {e}
<1>1. /\ units \in Nat /\ units > HeaderUnits
      /\ e \in Nat /\ l \in Nat
      /\ s.seg \in [Headers(s) -> SegmentHeaders] /\ Headers(s) \subseteq Nat
  BY PagesForRequest DEF Stored
<1>2. \A g \in Headers(s) : g \in Nat /\ HeapStart =< g /\ g + 2 =< e
  BY <1>1 DEF InBounds, HeaderUnits
<1>3. e \notin Headers(s) /\ e - 1 \notin Headers(s) /\ e + 1 \notin Headers(s)
  BY <1>1, <1>2
<1>4. HeapStart =< e /\ HeapStart \in Nat
  BY <1>1, <1>2, HeapStartAssumption
<1>5. header \in SegmentHeaders
  BY <1>1 DEF SegmentHeaders, HeaderUnits, NULL
<1> HIDE DEF units
<1>6. header.last = l
  OBVIOUS
<1> HIDE DEF header
<1>7. /\ seg1 \in [D -> SegmentHeaders] /\ seg1[e] = header
      /\ \A g \in Headers(s) \ {e - 1, e, e + 1} : seg1[g] = s.seg[g]
  <2>1. seg1 = [g \in D |-> IF g = e THEN header ELSE s.seg[g]]
    BY DEF PutHeader, Headers
  <2>2. \A g \in Headers(s) : s.seg[g] \in SegmentHeaders
    BY <1>1
  <2> HIDE DEF seg1
  <2>3. \A g \in D : g = e \/ g \in Headers(s) \ {e - 1, e, e + 1}
    OBVIOUS
  <2> HIDE DEF D
  <2>4. \A g \in D : seg1[g] \in SegmentHeaders
    BY <1>5, <2>1, <2>2, <2>3
  <2>5. seg1 \in [D -> SegmentHeaders]
    BY <2>1, <2>4
  <2> QED BY <2>1, <2>5 DEF D
<1> HIDE DEF seg1
<1>8. D = Headers(s) \cup {e}
  BY <1>3
<1> HIDE DEF D
<1>9. l \in D /\ e \in D /\ l # e
  BY <1>3, <1>8
<1>10. /\ seg2 \in [D -> SegmentHeaders] /\ seg2[e] = header /\ seg2[l].next = e
  <2>1. seg1[l] \in SegmentHeaders /\ DOMAIN seg1 = D
    BY <1>7, <1>9
  <2>2. /\ seg2[l] = [size |-> seg1[l].size, free |-> seg1[l].free,
                      next |-> e, last |-> seg1[l].last]
        /\ seg2[l] \in SegmentHeaders
    BY <1>1, <1>9, <2>1 DEF SegmentHeaders
  <2>3. seg2 = [g \in D |-> seg2[g]] /\ \A g \in D \ {l} : seg2[g] = seg1[g]
    BY <2>1
  <2> HIDE DEF seg2
  <2>4. \A g \in D : seg2[g] \in SegmentHeaders
    BY <1>7, <2>2, <2>3
  <2> QED BY <1>7, <1>9, <2>2, <2>3, <2>4
<1> HIDE DEF seg2
<1>11. t = [s EXCEPT !.seg = seg2, !.end = e + units, !.lastHeader = e]
  BY DEF Grown, seg2, seg1, header, units
<1>12. /\ t = [seg |-> t.seg, end |-> t.end, lastHeader |-> t.lastHeader,
               merges |-> t.merges]
       /\ t.seg = seg2 /\ t.end = e + units /\ t.lastHeader = e
       /\ t.merges = s.merges /\ s.merges \in Nat
  BY <1>11 DEF Stored, Shape
<1>13. Headers(t) = D
  BY <1>10, <1>12 DEF Headers
<1>14. Stored(t)
  BY <1>1, <1>8, <1>10, <1>12, <1>13 DEF Stored, Shape
<1>15. InBounds(t)
  <2> SUFFICES ASSUME NEW g \in Headers(t)
               PROVE  HeapStart =< g /\ g + HeaderUnits =< t.end
    BY DEF InBounds
  <2>1. CASE g = e
    BY <1>1, <1>4, <1>12, <2>1 DEF HeaderUnits
  <2>2. CASE g \in Headers(s)
    BY <1>1, <1>2, <1>12, <2>2 DEF HeaderUnits
  <2> QED BY <1>8, <1>13, <2>1, <2>2
<1> QED BY <1>6, <1>8, <1>10, <1>12, <1>13, <1>14, <1>15 DEF units

(* Merging keeps every header, and only the back pointers of headers move. *)
Merged(s, t, h) ==
  /\ Stored(t) /\ Headers(t) = Headers(s) /\ t.end = s.end
  /\ \A g \in Headers(s) : /\ t.seg[g].next = s.seg[g].next
                           /\ t.seg[g].last \in {s.seg[g].last, h}

LEMMA MergeStored ==
  ASSUME NEW s, Stored(s), NEW h \in Headers(s), s.seg[h].next \in Headers(s),
         NEW t, t = Merge(s, h)
  PROVE  Merged(s, t, h)
<1> DEFINE x == s.seg[h].next
           relinked == SetLast(s.seg, s.seg[x].next, h)
           seg1 == [relinked EXCEPT
                      ![h].size = @ + relinked[x].size + HeaderUnits]
           last1 == IF s.lastHeader = x THEN h ELSE s.lastHeader
<1>1. /\ s.seg \in [Headers(s) -> SegmentHeaders] /\ h \in Nat /\ Headers(s) \subseteq Nat
      /\ DOMAIN s.seg = Headers(s)
  BY DEF Stored
<1>2. /\ relinked \in [Headers(s) -> SegmentHeaders]
      /\ \A g \in Headers(s) : /\ relinked[g].next = s.seg[g].next
                               /\ relinked[g].last \in {s.seg[g].last, h}
  BY <1>1, SetLastTyped
<1> HIDE DEF relinked
<1>3. /\ seg1 \in [Headers(s) -> SegmentHeaders]
      /\ \A g \in Headers(s) : /\ seg1[g].next = relinked[g].next
                               /\ seg1[g].last = relinked[g].last
  <2>1. relinked[h] \in SegmentHeaders /\ relinked[x] \in SegmentHeaders
    BY <1>2
  <2>2. PICK size \in Nat : size = relinked[h].size + relinked[x].size + HeaderUnits
    BY <2>1 DEF SegmentHeaders, HeaderUnits
  <2>3. seg1 = [relinked EXCEPT ![h].size = size]
    BY <2>2
  <2> HIDE DEF seg1
  <2>4. /\ seg1[h] = [size |-> size, free |-> relinked[h].free,
                      next |-> relinked[h].next, last |-> relinked[h].last]
        /\ seg1[h] \in SegmentHeaders
    BY <1>2, <2>1, <2>3 DEF SegmentHeaders
  <2>5. /\ seg1 = [g \in Headers(s) |-> seg1[g]]
        /\ \A g \in Headers(s) \ {h} : seg1[g] = relinked[g]
    BY <1>2, <2>3
  <2>6. \A g \in Headers(s) : seg1[g] \in SegmentHeaders
    BY <1>2, <2>4, <2>5
  <2> QED BY <2>4, <2>5, <2>6
<1> HIDE DEF seg1
<1>4. last1 \in Nat
  BY <1>1 DEF Stored
<1> HIDE DEF last1
<1>5. t = [s EXCEPT !.seg = seg1, !.lastHeader = last1, !.merges = s.merges + 1]
  BY DEF Merge, seg1, relinked, last1
<1>6. /\ t = [seg |-> t.seg, end |-> t.end, lastHeader |-> t.lastHeader,
              merges |-> t.merges]
      /\ t.seg = seg1 /\ t.end = s.end /\ t.lastHeader = last1
      /\ t.merges = s.merges + 1 /\ s.merges \in Nat
  BY <1>5 DEF Stored, Shape
<1>7. Headers(t) = Headers(s)
  BY <1>3, <1>6 DEF Headers
<1>8. Stored(t)
  BY <1>1, <1>3, <1>4, <1>6, <1>7 DEF Stored, Shape
<1> QED BY <1>2, <1>3, <1>6, <1>7, <1>8 DEF Merged

LEMMA ForwardStored ==
  ASSUME NEW s, Stored(s), NEW h \in Headers(s),
         s.seg[h].next # NULL => s.seg[h].next \in Headers(s),
         NEW t, t = CombineForward(s, h)
  PROVE  Merged(s, t, h)
<1>1. CASE Mergeable(s, h)
  <2>1. t = Merge(s, h) /\ s.seg[h].next \in Headers(s)
    BY <1>1 DEF CombineForward, Mergeable
  <2> QED BY <2>1, MergeStored
<1>2. CASE ~Mergeable(s, h)
  BY <1>2 DEF CombineForward, Merged
<1> QED BY <1>1, <1>2

LEMMA BackwardStored ==
  ASSUME NEW s, Stored(s), NEW h, NEW l, l = s.seg[h].last,
         l # NULL => /\ l \in Headers(s)
                     /\ s.seg[l].next # NULL => s.seg[l].next \in Headers(s),
         NEW t, t = CombineBackward(s, h)
  PROVE  Merged(s, t, l)
<1>1. CASE l # NULL /\ s.seg[l].free
  <2>1. t = CombineForward(s, l)
    BY <1>1 DEF CombineBackward
  <2> QED BY <1>1, <2>1, ForwardStored
<1>2. CASE ~(l # NULL /\ s.seg[l].free)
  <2>1. t = s
    BY <1>2 DEF CombineBackward
  <2> QED BY <2>1 DEF Merged
<1> QED BY <1>1, <1>2

LEMMA TypedState ==
  ASSUME TInv
  PROVE  /\ Stored(heap)
         /\ HeapStart \in Nat \ {0} /\ MaxPages * PageUnits \in Nat
         /\ HeapStart + MaxPages * PageUnits \in Nat
         /\ heap.end >= HeapStart /\ heap.end =< HeapStart + MaxPages * PageUnits
         /\ live \in [DOMAIN live -> Nat \ {0}] /\ DOMAIN live \subseteq Nat
<1>1. HeapStart \in Nat \ {0} /\ MaxPages \in Nat /\ PageUnits \in Nat
  BY HeapStartAssumption, MaxPagesAssumption, PageUnitsAssumption
<1>2. MaxPages * PageUnits \in Nat
  <2>1. \A q, d \in Nat : q * d \in Nat
    OBVIOUS
  <2> QED BY <1>1, <2>1
<1> QED BY <1>1, <1>2 DEF TInv, TypeOK, Stored, Shape

LEMMA TypedInit == Init => TInv
<1> SUFFICES ASSUME Init PROVE TInv
  OBVIOUS
<1> DEFINE size == InitPages * PageUnits - HeaderUnits
           header == [size |-> size, free |-> TRUE, next |-> NULL, last |-> NULL]
<1>1. /\ InitPages \in Nat \ {0} /\ PageUnits \in Nat /\ PageUnits > 2
      /\ MaxPages \in Nat /\ InitPages =< MaxPages
      /\ HeapStart \in Nat \ {0}
  BY InitPagesAssumption, PageUnitsAssumption, MaxPagesAssumption, HeapStartAssumption
     DEF HeaderUnits
<1>2. /\ InitPages * PageUnits \in Nat /\ InitPages * PageUnits > 2
      /\ MaxPages * PageUnits \in Nat
      /\ InitPages * PageUnits =< MaxPages * PageUnits
  <2>1. \A q, d \in Nat : q * d \in Nat /\ (q >= 1 => q * d >= d)
    OBVIOUS
  <2>2. \A q, r, d \in Nat : q =< r => q * d =< r * d
    <3> TAKE q, r, d \in Nat
    <3> HAVE q =< r
    <3>1. PICK k \in Nat : r = q + k
      <4>1. r - q \in Nat /\ r = q + (r - q)
        OBVIOUS
      <4> QED BY <4>1
    <3>2. r * d = q * d + k * d
      BY <3>1
    <3>3. q * d \in Nat /\ k * d \in Nat
      BY <2>1
    <3> QED BY <3>2, <3>3
  <2> QED BY <1>1, <2>1, <2>2
<1>3. size \in Nat
  BY <1>2 DEF HeaderUnits
<1>4. header \in SegmentHeaders
  BY <1>3 DEF SegmentHeaders, NULL
<1> HIDE DEF size
<1>5. /\ heap = [seg |-> heap.seg, end |-> heap.end,
                 lastHeader |-> heap.lastHeader, merges |-> heap.merges]
      /\ heap.seg = [h \in {HeapStart} |-> header]
      /\ heap.end = HeapStart + InitPages * PageUnits
      /\ heap.lastHeader = HeapStart
      /\ heap.merges = 0
  BY DEF Init, InitHeap, size
<1> HIDE DEF header
<1>6. Headers(heap) = {HeapStart} /\ heap.seg \in [{HeapStart} -> SegmentHeaders]
  BY <1>4, <1>5 DEF Headers
<1>7. heap.end \in HeapStart .. (HeapStart + MaxPages * PageUnits)
  BY <1>1, <1>2, <1>5
<1>8. InBounds(heap)
  BY <1>1, <1>2, <1>5, <1>6 DEF InBounds, HeaderUnits
<1>9. TypeOK
  BY <1>1, <1>5, <1>6, <1>7 DEF Init, TypeOK
<1> QED BY <1>8, <1>9 DEF TInv, Init

LEMMA TypedCall ==
  ASSUME TInv, NEW bytes \in Requests, CallHeapAllocate(bytes)
  PROVE  TInv'
<1>1. Units(bytes) \in Nat
  <2>1. bytes \in Nat
    BY RequestsAssumption
  <2>2. \A a, d \in Nat : d > 0 => a \div d \in Nat
    OBVIOUS
  <2>3. bytes + 16 - 1 \in Nat
    BY <2>1
  <2> QED BY <2>2, <2>3 DEF Units, CeilDiv, UnitBytes
<1>2. UNCHANGED <<heap, live, status>> /\ request' \in Nat /\ tries' \in Nat
      /\ before' \in Nat
  BY <1>1 DEF CallHeapAllocate, TInv, TypeOK
<1> QED BY <1>2 DEF TInv, TypeOK, InBounds, Headers

(* Memory that HeapAllocate can hand out is mapped, and so is the header   *)
(* that Split writes after it; otherwise the heap has failed.              *)
LEMMA TypedGrant == TInv /\ GrantFirstFit => TInv'
<1> SUFFICES ASSUME TInv, GrantFirstFit PROVE TInv'
  OBVIOUS
<1>1. PICK h \in Headers(heap) :
        /\ heap' = Occupy(heap, h, request)
        /\ live' = [p \in DOMAIN live \cup {h + HeaderUnits} |->
                      IF p = h + HeaderUnits THEN request ELSE live[p]]
        /\ status' = Verdict(h, request)
  BY DEF GrantFirstFit
<1>2. /\ request \in Nat \ {0} /\ status = "ok"
      /\ request' = 0 /\ tries' = 0 /\ before' = 0
  BY DEF GrantFirstFit, Running, TInv, TypeOK
<1>3. /\ Stored(heap) /\ InBounds(heap) /\ h \in Nat /\ HeapStart =< h
      /\ h + 2 =< heap.end /\ heap.end \in Nat
      /\ live \in [DOMAIN live -> Nat \ {0}] /\ DOMAIN live \subseteq Nat
  <2>1. InBounds(heap)
    BY <1>2 DEF TInv
  <2> QED BY <2>1, TypedState DEF InBounds, Stored, HeaderUnits
<1>4. PICK t : t = heap'
  OBVIOUS
<1>5. /\ Stored(t) /\ t.end = heap.end
      /\ ~Splits(heap, h, request) => Headers(t) = Headers(heap)
      /\ Headers(t) \subseteq Headers(heap) \cup {h + HeaderUnits + request}
  BY <1>1, <1>2, <1>3, <1>4, OccupyStored
<1>6. /\ status' \in {"overlap", "overrun", "ok"}
      /\ status' = "ok" /\ Splits(heap, h, request)
           => h + 2 + request + 2 =< heap.end
  <2>1. CASE \E q \in DOMAIN live :
               Extent(h + HeaderUnits, request) \cap Extent(q, live[q]) # {}
    BY <1>1, <2>1 DEF Verdict
  <2>2. CASE ~\E q \in DOMAIN live :
               Extent(h + HeaderUnits, request) \cap Extent(q, live[q]) # {}
    <3> DEFINE need == request + (IF Splits(heap, h, request) THEN HeaderUnits ELSE 0)
    <3>1. status' = IF h + HeaderUnits + need > heap.end THEN "overrun" ELSE "ok"
      BY <1>1, <2>2 DEF Verdict
    <3>2. Splits(heap, h, request) => need = request + 2
      BY DEF HeaderUnits
    <3>3. need \in Nat
      BY <1>2 DEF HeaderUnits
    <3> HIDE DEF need
    <3>4. status' = "ok" => h + 2 + need =< heap.end
      BY <1>3, <3>1, <3>3 DEF HeaderUnits
    <3> QED BY <1>2, <1>3, <3>1, <3>2, <3>4
  <2> QED BY <2>1, <2>2
<1>7. status' = "ok" => InBounds(t)
  <2> SUFFICES ASSUME status' = "ok", NEW g \in Headers(t)
               PROVE  HeapStart =< g /\ g + HeaderUnits =< t.end
    BY DEF InBounds
  <2>1. CASE g \in Headers(heap)
    BY <1>3, <1>5, <2>1 DEF InBounds
  <2>2. CASE g \notin Headers(heap)
    <3>1. g = h + 2 + request /\ Splits(heap, h, request)
      BY <1>5, <2>2 DEF HeaderUnits
    <3> QED BY <1>2, <1>3, <1>5, <1>6, <3>1, HeapStartAssumption DEF HeaderUnits
  <2> QED BY <2>1, <2>2
<1>8. /\ live' \in [DOMAIN live' -> Nat \ {0}] /\ DOMAIN live' \in SUBSET Nat
      /\ \A p \in DOMAIN live' : HeapStart + HeaderUnits =< p
  <2>1. DOMAIN live' = DOMAIN live \cup {h + HeaderUnits} /\ h + HeaderUnits \in Nat
    BY <1>1, <1>3 DEF HeaderUnits
  <2>2. HeapStart + HeaderUnits =< h + HeaderUnits
    BY <1>3, HeapStartAssumption DEF HeaderUnits
  <2>3. live' \in [DOMAIN live' -> Nat \ {0}]
    BY <1>1, <1>2, <1>3
  <2> QED BY <1>3, <2>1, <2>2, <2>3 DEF TInv
<1>9. heap'.end \in HeapStart .. (HeapStart + MaxPages * PageUnits)
  BY <1>4, <1>5 DEF TInv, TypeOK
<1>10. TypeOK'
  BY <1>2, <1>4, <1>5, <1>6, <1>8, <1>9 DEF TypeOK, Stored, Shape
<1> QED BY <1>4, <1>7, <1>8, <1>10 DEF TInv

LEMMA TypedExpand == TInv /\ ExpandHeap => TInv'
<1> SUFFICES ASSUME TInv, ExpandHeap PROVE TInv'
  OBVIOUS
<1>1. /\ request \in Nat \ {0} /\ status = "ok"
      /\ heap.lastHeader \in Headers(heap)
      /\ heap.end + CeilDiv(request, PageUnits) * PageUnits
           =< HeapStart + MaxPages * PageUnits
      /\ heap' = Expand(heap, request)
      /\ UNCHANGED <<live, request, before, status>> /\ tries' \in Nat
  BY DEF ExpandHeap, Running, TInv, TypeOK
<1>2. Stored(heap) /\ InBounds(heap)
  BY <1>1, TypedState DEF TInv
<1> DEFINE g == Grown(heap, request)
           e == heap.end
           l == heap.lastHeader
<1>3. /\ Stored(g) /\ InBounds(g)
      /\ Headers(g) = Headers(heap) \cup {e}
      /\ g.end = e + CeilDiv(request, PageUnits) * PageUnits
      /\ g.seg[e].last = l /\ g.seg[l].next = e
  BY <1>1, <1>2, GrownStored
<1>4. PICK t : t = heap'
  OBVIOUS
<1>5. t = CombineBackward(g, e)
  BY <1>1, <1>4 DEF Expand
<1> HIDE DEF g
<1>6. Merged(g, t, l)
  BY <1>1, <1>3, <1>5, BackwardStored
<1>7. heap'.end \in HeapStart .. (HeapStart + MaxPages * PageUnits)
  <2>1. PICK units : units = CeilDiv(request, PageUnits) * PageUnits
    OBVIOUS
  <2>2. units \in Nat /\ e \in Nat /\ e >= HeapStart /\ HeapStart \in Nat
        /\ HeapStart + MaxPages * PageUnits \in Nat
    BY <1>1, <1>2, <2>1, PagesForRequest, TypedState DEF Stored
  <2>3. t.end = e + units /\ e + units =< HeapStart + MaxPages * PageUnits
    BY <1>1, <1>3, <1>6, <2>1 DEF Merged
  <2> QED BY <1>4, <2>2, <2>3
<1>8. Stored(t) /\ InBounds(t)
  BY <1>3, <1>6 DEF Merged, InBounds
<1>9. TypeOK'
  BY <1>1, <1>4, <1>7, <1>8 DEF TInv, TypeOK, Stored, Shape
<1> QED BY <1>1, <1>4, <1>8, <1>9 DEF TInv

LEMMA TypedFree ==
  ASSUME TInv, NEW p \in DOMAIN live, HeapFree(p)
  PROVE  TInv'
<1> DEFINE h == p - HeaderUnits
           freed == Mark(heap, h, TRUE)
           forward == CombineForward(freed, h)
           NextOf(g) == IF g \in Headers(heap) THEN heap.seg[g].next ELSE NULL
           LastOf(g) == IF g \in Headers(heap) THEN heap.seg[g].last ELSE NULL
<1>1. /\ status = "ok" /\ heap' = Release(heap, h)
      /\ Neighbours(heap, h) \subseteq Headers(heap)
      /\ live' = [q \in DOMAIN live \ {p} |-> live[q]]
      /\ UNCHANGED <<request, tries, before, status>>
  BY DEF HeapFree, Idle
<1>2. Stored(heap) /\ InBounds(heap)
  BY <1>1, TypedState DEF TInv
<1>3. {h, NextOf(h), NextOf(NextOf(h)), LastOf(h), NextOf(LastOf(h))} \ {NULL}
        \subseteq Headers(heap)
  BY <1>1 DEF Neighbours
<1>4. h # NULL
  BY TypedState DEF TInv, HeaderUnits, NULL
<1>5. h \in Headers(heap)
  BY <1>3, <1>4
<1>6. PICK l : l = heap.seg[h].last
  OBVIOUS
<1>7. PICK x : x = heap.seg[h].next
  OBVIOUS
<1>8. /\ x # NULL => x \in Headers(heap)
      /\ l # NULL => /\ l \in Headers(heap)
                     /\ heap.seg[l].next # NULL => heap.seg[l].next \in Headers(heap)
  BY <1>3, <1>5, <1>6, <1>7
<1> HIDE DEF NextOf, LastOf
<1>9. PICK b \in BOOLEAN : b = TRUE
  OBVIOUS
<1>10. freed = Mark(heap, h, b)
  BY <1>9
<1> HIDE DEF freed, h
<1>11. /\ Stored(freed) /\ Headers(freed) = Headers(heap) /\ freed.end = heap.end
       /\ \A g \in Headers(heap) : /\ freed.seg[g].next = heap.seg[g].next
                                   /\ freed.seg[g].last = heap.seg[g].last
  BY <1>2, <1>5, <1>10, MarkStored
<1>12. freed.seg[h].next # NULL => freed.seg[h].next \in Headers(freed)
  BY <1>5, <1>7, <1>8, <1>11
<1>13. Merged(freed, forward, h)
  BY <1>5, <1>11, <1>12, ForwardStored
<1> HIDE DEF forward
<1>14. PICK t : t = heap'
  OBVIOUS
<1>15. t = CombineBackward(forward, h)
  BY <1>1, <1>14 DEF Release, forward, freed, Mark
<1>16. PICK k : k = forward.seg[h].last
  OBVIOUS
<1>17. /\ Stored(forward) /\ Headers(forward) = Headers(heap)
       /\ forward.end = heap.end
       /\ \A g \in Headers(heap) : forward.seg[g].next = heap.seg[g].next
       /\ k \in {l, h}
  BY <1>5, <1>6, <1>11, <1>13, <1>16 DEF Merged
<1>18. k # NULL => /\ k \in Headers(forward)
                   /\ forward.seg[k].next # NULL
                        => forward.seg[k].next \in Headers(forward)
  BY <1>5, <1>7, <1>8, <1>17
<1>19. Merged(forward, t, k)
  BY <1>15, <1>16, <1>17, <1>18, BackwardStored
<1>20. /\ Stored(t) /\ Headers(t) = Headers(heap) /\ t.end = heap.end
  BY <1>17, <1>19 DEF Merged
<1>21. InBounds(t)
  BY <1>2, <1>20 DEF InBounds
<1>22. /\ live' \in [DOMAIN live' -> Nat \ {0}] /\ DOMAIN live' \in SUBSET Nat
       /\ \A q \in DOMAIN live' : HeapStart + HeaderUnits =< q
  BY <1>1, TypedState DEF TInv
<1>23. TypeOK'
  BY <1>1, <1>14, <1>20, <1>22 DEF TInv, TypeOK, Stored, Shape
<1> QED BY <1>14, <1>21, <1>22, <1>23 DEF TInv

LEMMA TypedNext == TInv /\ [Next]_vars => TInv'
<1> SUFFICES ASSUME TInv, [Next]_vars PROVE TInv'
  OBVIOUS
<1>1. ASSUME UNCHANGED <<heap, live, request, tries, before>>,
             status' \in {"hung", "corrupt", "fault"}
      PROVE  TInv'
  BY <1>1 DEF TInv, TypeOK, Headers
<1>2. ASSUME NEW bytes \in Requests, CallHeapAllocate(bytes) PROVE TInv'
  BY <1>2, TypedCall
<1>3. CASE GrantFirstFit
  BY <1>3, TypedGrant
<1>4. CASE ExpandHeap
  BY <1>4, TypedExpand
<1>5. CASE Hang
  BY <1>1, <1>5 DEF Hang
<1>6. CASE WalkIntoOverwritten
  BY <1>1, <1>6 DEF WalkIntoOverwritten
<1>7. ASSUME NEW p \in DOMAIN live, HeapFree(p) PROVE TInv'
  BY <1>7, TypedFree
<1>8. ASSUME NEW p \in DOMAIN live, HeapFreeOverwritten(p) PROVE TInv'
  BY <1>1, <1>8 DEF HeapFreeOverwritten
<1>9. CASE HeapFreeNull
  BY <1>1, <1>9 DEF HeapFreeNull
<1>10. CASE UNCHANGED vars
  BY <1>10 DEF vars, TInv, TypeOK, InBounds, Headers
<1> QED
  BY <1>2, <1>3, <1>4, <1>5, <1>6, <1>7, <1>8, <1>9, <1>10 DEF Next

(* Every field keeps its type and the heap its bound, also behind a merge: *)
(* as long as the heap has not failed, no header lies past its end.        *)
THEOREM TypeCorrect == Spec => []TypeOK
<1>1. TInv => TypeOK
  BY DEF TInv
<1> QED BY <1>1, TypedInit, TypedNext, PTL DEF Spec
-----------------------------------------------------------------------------
(***************************************************************************)
(* How often HeapAllocate expands the heap for a request.  Until a merge   *)
(* every walk that does not stop earlier comes to lastHeader, although     *)
(* Split leaves that pointer in the middle of the list: what ExpandHeap    *)
(* appends to it, or merges with it, is found by the next walk.            *)
(***************************************************************************)
Closed(s, V) == HeapStart \in V /\ \A h \in V : s.seg[h].next \in V \cup {NULL}

OnEveryWalk(s, x) == \A V \in SUBSET Headers(s) : Closed(s, V) => x \in V

LastReached == heap.merges = 0 => OnEveryWalk(heap, heap.lastHeader)

(* What the expansions so far have achieved.                               *)
Progress ==
  \/ tries = 0 /\ heap.merges = 0
  \/ tries = 1 /\ heap.merges = 0 /\ heap.seg[heap.lastHeader].free
  \/ tries \in 1 .. 2 /\ ~NoneFits(heap, request)

QInv ==
  /\ LastReached
  /\ Running /\ before = 0 => Progress
  /\ tries \in Nat
  /\ AnsweredWithinTwoExpansions

LEMMA WalkBack ==
  ASSUME NEW s, WellFormed(s), NEW x, OnEveryWalk(s, x),
         NEW V, HeapStart \in V,
         \A g \in V \cap Headers(s) : s.seg[g].next \in V \cup {NULL}
  PROVE  x \in V
<1> DEFINE W == V \cap Headers(s)
<1>1. \A g \in Headers(s) : s.seg[g].next \in Headers(s) \cup {NULL}
  BY DEF WellFormed, ListLeadsUp
<1>2. HeapStart \in W
  BY DEF WellFormed
<1>3. Closed(s, W) /\ W \in SUBSET Headers(s)
  BY <1>1, <1>2 DEF Closed
<1> HIDE DEF W
<1>4. x \in W
  BY <1>3 DEF OnEveryWalk
<1> QED BY <1>4 DEF W

(* Marking a segment changes no pointer.                                   *)
LEMMA MarkWalk ==
  ASSUME NEW s, Typed(s), WellFormed(s), OnEveryWalk(s, s.lastHeader),
         NEW h \in Headers(s), NEW b \in BOOLEAN,
         NEW t, t = Mark(s, h, b)
  PROVE  OnEveryWalk(t, t.lastHeader)
<1>1. /\ Headers(t) = Headers(s) /\ t.lastHeader = s.lastHeader
      /\ \A g \in Headers(s) : t.seg[g].next = s.seg[g].next
  BY MarkFields
<1>2. ASSUME NEW V \in SUBSET Headers(t), Closed(t, V) PROVE t.lastHeader \in V
  <2>1. Closed(s, V) /\ V \in SUBSET Headers(s)
    BY <1>1, <1>2 DEF Closed
  <2> QED BY <1>1, <2>1 DEF OnEveryWalk
<1> QED BY <1>2 DEF OnEveryWalk

(* A split puts the new segment into the list behind the one it cuts.      *)
LEMMA SplitWalk ==
  ASSUME NEW s, Typed(s), WellFormed(s), OnEveryWalk(s, s.lastHeader),
         NEW h \in Headers(s), NEW n \in Nat, Splits(s, h, n),
         NEW t, t = Split(s, h, n)
  PROVE  OnEveryWalk(t, t.lastHeader)
<1>1. PICK new : new = h + HeaderUnits + n
  OBVIOUS
<1>2. /\ Headers(t) = Headers(s) \cup {new} /\ t.lastHeader = s.lastHeader
      /\ t.seg[new].next = s.seg[h].next /\ t.seg[h].next = new
      /\ \A g \in Headers(s) \ {h} : t.seg[g].next = s.seg[g].next
  BY <1>1, SplitFields
<1>3. new # NULL
  <2>1. h \in Nat
    BY DEF Typed
  <2> QED BY <1>1, <2>1 DEF HeaderUnits, NULL
<1>4. ASSUME NEW V \in SUBSET Headers(t), Closed(t, V) PROVE t.lastHeader \in V
  <2>1. ASSUME NEW g \in V \cap Headers(s) PROVE s.seg[g].next \in V \cup {NULL}
    <3>1. CASE g = h
      <4>1. new \in V
        BY <1>2, <1>3, <1>4, <3>1 DEF Closed
      <4> QED BY <1>2, <1>4, <3>1, <4>1 DEF Closed
    <3>2. CASE g # h
      BY <1>2, <1>4, <3>2 DEF Closed
    <3> QED BY <3>1, <3>2
  <2>2. HeapStart \in V
    BY <1>4 DEF Closed
  <2>3. s.lastHeader \in V
    BY <2>1, <2>2, WalkBack
  <2> QED BY <1>2, <2>3
<1> QED BY <1>4 DEF OnEveryWalk

LEMMA OccupyWalk ==
  ASSUME NEW s, Typed(s), WellFormed(s), OnEveryWalk(s, s.lastHeader),
         NEW h \in Headers(s), NEW n \in Nat \ {0}, Fits(s, h, n),
         NEW t, t = Occupy(s, h, n)
  PROVE  OnEveryWalk(t, t.lastHeader)
<1> DEFINE cut == IF Splits(s, h, n) THEN Split(s, h, n) ELSE s
<1>1. /\ Typed(cut) /\ WellFormed(cut) /\ Headers(s) \subseteq Headers(cut)
  <2>1. PICK c : c = cut
    OBVIOUS
  <2> QED BY <2>1, CutFields
<1>2. OnEveryWalk(cut, cut.lastHeader)
  <2>1. CASE Splits(s, h, n)
    BY <2>1, SplitWalk
  <2>2. CASE ~Splits(s, h, n)
    BY <2>2
  <2> QED BY <2>1, <2>2
<1>3. PICK b \in BOOLEAN : b = FALSE
  OBVIOUS
<1>4. t = Mark(cut, h, b)
  BY <1>3 DEF Occupy, Mark
<1> HIDE DEF cut
<1>5. h \in Headers(cut)
  BY <1>1
<1> QED BY <1>1, <1>2, <1>4, <1>5, MarkWalk

(* The segment that ExpandHeap appends.                                    *)
LEMMA GrownWalk ==
  ASSUME NEW s, Typed(s), WellFormed(s), OnEveryWalk(s, s.lastHeader),
         NEW n \in Nat \ {0}, NEW t, t = Grown(s, n)
  PROVE  OnEveryWalk(t, t.lastHeader)
<1>1. /\ Headers(t) = Headers(s) \cup {s.end} /\ t.lastHeader = s.end
      /\ \A g \in Headers(s) : t.seg[g].next = IF g = s.lastHeader THEN s.end
                                                ELSE s.seg[g].next
      /\ s.end \notin Headers(s)
  BY GrownFields
<1>2. s.lastHeader \in Headers(s) /\ s.end # NULL
  <2>1. HeapStart \in Headers(s) /\ s.seg[HeapStart].size \in Nat
    BY DEF WellFormed, Typed, SegmentHeaders
  <2>2. SegEnd(s, HeapStart) =< s.end /\ s.end \in Nat
    BY <2>1 DEF WellFormed, SegmentsDivideHeap, Typed
  <2> QED BY <2>1, <2>2, HeapStartAssumption DEF WellFormed, SegEnd, HeaderUnits, NULL
<1>3. ASSUME NEW V \in SUBSET Headers(t), Closed(t, V), s.end \notin V PROVE FALSE
  <2>1. s.lastHeader \notin V
    BY <1>1, <1>2, <1>3 DEF Closed
  <2>2. \A g \in V \cap Headers(s) : s.seg[g].next \in V \cup {NULL}
    BY <1>1, <1>3, <2>1 DEF Closed
  <2>3. HeapStart \in V
    BY <1>3 DEF Closed
  <2> QED BY <2>1, <2>2, <2>3, WalkBack
<1> QED BY <1>1, <1>3 DEF OnEveryWalk

(* When lastHeader is used, the new segment is only appended.              *)
LEMMA ExpandUsed ==
  ASSUME NEW s, Typed(s), WellFormed(s), ~s.seg[s.lastHeader].free,
         NEW n \in Nat \ {0}
  PROVE  Expand(s, n) = Grown(s, n)
<1>1. PICK g : g = Grown(s, n)
  OBVIOUS
<1>2. /\ g.seg[s.end].last = s.lastHeader
      /\ ~g.seg[s.lastHeader].free
  BY <1>1, GrownFields DEF WellFormed
<1>3. CombineBackward(g, s.end) = g
  BY <1>2 DEF CombineBackward
<1> QED BY <1>1, <1>3 DEF Expand

(* The pages hold the request, although not always a header beside it.     *)
LEMMA PagesHold ==
  ASSUME NEW n \in Nat \ {0}
  PROVE  CeilDiv(n, PageUnits) * PageUnits >= n
<1>1. PageUnits \in Nat /\ PageUnits > 0
  BY PageUnitsAssumption DEF HeaderUnits
<1>2. PICK a \in Nat : a = n + PageUnits - 1
  BY <1>1
<1>3. a = PageUnits * (a \div PageUnits) + (a % PageUnits) /\ (a % PageUnits) < PageUnits
      /\ (a % PageUnits) \in Nat /\ a \div PageUnits \in Nat
  BY <1>1
<1>4. PICK q \in Nat : q = a \div PageUnits
  BY <1>3
<1>5. PageUnits * q >= n
  <2>1. PICK m \in Nat : m = PageUnits * q
    BY <1>1, <1>4
  <2> QED BY <1>1, <1>2, <1>3, <1>4, <2>1
<1>6. PageUnits * q = q * PageUnits
  BY <1>1
<1>7. CeilDiv(n, PageUnits) = q
  BY <1>2, <1>4 DEF CeilDiv
<1> QED BY <1>5, <1>6, <1>7

(* When lastHeader is free it is merged with the new segment, and then     *)
(* large enough for the request.                                           *)
LEMMA ExpandFree ==
  ASSUME NEW s, Typed(s), WellFormed(s), OnEveryWalk(s, s.lastHeader),
         s.seg[s.lastHeader].free,
         NEW n \in Nat \ {0}, NEW t, t = Expand(s, n)
  PROVE  ~NoneFits(t, n)
<1> DEFINE l == s.lastHeader
           e == s.end
           units == CeilDiv(n, PageUnits) * PageUnits
<1>1. PICK g : g = Grown(s, n)
  OBVIOUS
<1>2. /\ Typed(g) /\ e \notin Headers(s) /\ Headers(g) = Headers(s) \cup {e}
      /\ SegEnd(g, e) = g.end /\ g.seg[e].free /\ g.seg[e].next = NULL
      /\ g.seg[e].last = l
      /\ \A h \in Headers(s) :
           /\ g.seg[h].size = s.seg[h].size /\ g.seg[h].free = s.seg[h].free
           /\ g.seg[h].next = IF h = l THEN e ELSE s.seg[h].next
  BY <1>1, GrownFields
<1>3. l \in Headers(s) /\ l # NULL /\ e # NULL
  <2>1. \A h \in Headers(s) : h # NULL
    BY HeapStartAssumption DEF WellFormed, SegmentsDivideHeap, NULL
  <2>2. HeapStart \in Headers(s) /\ s.seg[HeapStart].size \in Nat
    BY DEF WellFormed, Typed, SegmentHeaders
  <2>3. SegEnd(s, HeapStart) =< e /\ e \in Nat
    BY <2>2 DEF WellFormed, SegmentsDivideHeap, Typed
  <2>4. e # NULL
    BY <2>2, <2>3, HeapStartAssumption DEF SegEnd, HeaderUnits, NULL
  <2> QED BY <2>1, <2>4 DEF WellFormed
<1>4. g.seg[l].next = e /\ g.seg[l].free
  BY <1>2, <1>3
<1>5. t = Merge(g, l)
  <2>1. Mergeable(g, l)
    BY <1>2, <1>3, <1>4 DEF Mergeable
  <2>2. CombineForward(g, l) = Merge(g, l)
    BY <2>1 DEF CombineForward
  <2>3. CombineBackward(g, e) = CombineForward(g, l)
    BY <1>2, <1>3, <1>4 DEF CombineBackward
  <2> QED BY <1>1, <2>2, <2>3 DEF Expand
<1>6. g.seg[e].size + HeaderUnits >= n /\ g.seg[e].size \in Nat /\ g.seg[l].size \in Nat
  <2>1. g.seg[e] \in SegmentHeaders /\ g.seg[l] \in SegmentHeaders
    BY <1>2, <1>3 DEF Typed
  <2>2. e \in Nat
    BY DEF Typed
  <2>3. g.end = e + units
    <3>1. \E seg1 : g = [s EXCEPT !.seg = seg1, !.end = e + units, !.lastHeader = e]
      BY <1>1 DEF Grown
    <3> HIDE DEF units
    <3> QED BY <3>1 DEF Typed, Shape
  <2>4. units \in Nat /\ units >= n
    BY PagesForRequest, PagesHold
  <2> HIDE DEF units
  <2> QED BY <1>2, <2>1, <2>2, <2>3, <2>4 DEF SegEnd, SegmentHeaders, HeaderUnits
<1>7. PICK size \in Nat : size = g.seg[l].size + g.seg[e].size + HeaderUnits
  BY <1>6 DEF HeaderUnits
<1>8. size >= n
  BY <1>6, <1>7 DEF HeaderUnits
<1>9. t = [g EXCEPT !.seg = [g.seg EXCEPT ![l].size = size],
                    !.lastHeader = IF g.lastHeader = e THEN l ELSE g.lastHeader,
                    !.merges = g.merges + 1]
  <2>1. SetLast(g.seg, g.seg[e].next, l) = g.seg
    BY <1>2 DEF SetLast
  <2> QED BY <1>4, <1>5, <1>7, <2>1 DEF Merge
<1>10. /\ Headers(t) = Headers(g)
       /\ Fits(t, l, n)
       /\ \A h \in Headers(g) : t.seg[h].next = g.seg[h].next
  <2> DEFINE seg1 == [g.seg EXCEPT ![l].size = size]
             last1 == IF g.lastHeader = e THEN l ELSE g.lastHeader
  <2>1. g.seg \in [Headers(g) -> SegmentHeaders] /\ l \in Headers(g)
        /\ g.seg[l] \in SegmentHeaders
    BY <1>2, <1>3 DEF Typed
  <2>2. /\ seg1[l] = [size |-> size, free |-> g.seg[l].free,
                      next |-> g.seg[l].next, last |-> g.seg[l].last]
        /\ DOMAIN seg1 = Headers(g)
        /\ \A h \in Headers(g) \ {l} : seg1[h] = g.seg[h]
    BY <2>1 DEF SegmentHeaders
  <2> HIDE DEF seg1, last1
  <2>3. t = [g EXCEPT !.seg = seg1, !.lastHeader = last1, !.merges = g.merges + 1]
    BY <1>9 DEF seg1, last1
  <2>4. t.seg = seg1
    BY <1>2, <2>3 DEF Typed, Shape
  <2>5. t.seg[l].free /\ t.seg[l].size = size /\ t.seg[l].next = g.seg[l].next
    BY <1>4, <2>2, <2>4
  <2> QED BY <1>8, <2>2, <2>4, <2>5 DEF Headers, Fits
<1>11. ASSUME NEW V \in SUBSET Headers(t), PassesOver(t, n, V, {NULL}) PROVE FALSE
  <2>1. l \notin V
    BY <1>10, <1>11 DEF PassesOver
  <2>2. HeapStart \in V
    BY <1>11, HeapStartAssumption DEF PassesOver, NULL
  <2>3. \A h \in V : t.seg[h].next \in V \cup {NULL}
    BY <1>11 DEF PassesOver
  <2>4. \A h \in V \cap Headers(s) : s.seg[h].next \in V \cup {NULL}
    BY <1>2, <1>10, <2>1, <2>3
  <2> HIDE DEF l
  <2> QED BY <2>1, <2>2, <2>4, WalkBack DEF l
<1> QED BY <1>11 DEF NoneFits, LeadsTo

LEMMA AnsweredInit == Init => QInv
<1> SUFFICES ASSUME Init PROVE QInv
  OBVIOUS
<1>1. /\ heap.lastHeader = HeapStart
      /\ tries = 0 /\ before = 0 /\ request = 0
  BY DEF Init, InitHeap
<1>2. LastReached
  BY <1>1 DEF LastReached, OnEveryWalk, Closed
<1> QED BY <1>1, <1>2 DEF QInv, Running, AnsweredWithinTwoExpansions

LEMMA AnsweredCall ==
  ASSUME HInv, QInv, NEW bytes \in Requests, CallHeapAllocate(bytes)
  PROVE  QInv'
<1>1. heap' = heap /\ tries' = 0 /\ before' = heap.merges
  BY DEF CallHeapAllocate
<1>2. before' = 0 => Progress'
  BY <1>1 DEF Progress
<1> QED BY <1>1, <1>2 DEF QInv, LastReached, OnEveryWalk, Closed, Headers,
                          AnsweredWithinTwoExpansions

LEMMA AnsweredGrant == HInv /\ QInv /\ GrantFirstFit => QInv'
<1> SUFFICES ASSUME HInv, QInv, GrantFirstFit PROVE QInv'
  OBVIOUS
<1>1. PICK h \in Headers(heap) :
        FirstFit(heap, request, h) /\ heap' = Occupy(heap, h, request)
  BY DEF GrantFirstFit
<1>2. /\ request \in Nat \ {0} /\ Fits(heap, h, request)
      /\ request' = 0 /\ tries' = 0
  BY <1>1 DEF GrantFirstFit, Running, HInv, FirstFit
<1>3. PICK t : t = heap'
  OBVIOUS
<1>4. t.merges = heap.merges
  BY <1>1, <1>3, OccupyMonotone DEF HInv
<1>5. ASSUME heap.merges = 0 PROVE OnEveryWalk(t, t.lastHeader)
  <2>1. Typed(heap) /\ WellFormed(heap) /\ OnEveryWalk(heap, heap.lastHeader)
    BY <1>5 DEF HInv, QInv, LastReached
  <2> QED BY <1>1, <1>2, <1>3, <2>1, OccupyWalk
<1>6. LastReached'
  BY <1>3, <1>4, <1>5 DEF LastReached, OnEveryWalk, Closed, Headers
<1> QED BY <1>2, <1>6 DEF QInv, Running, AnsweredWithinTwoExpansions

(* An expansion either appends a free segment to a used one, after which   *)
(* the next merges with it, or makes a segment large enough.               *)
LEMMA AnsweredExpand == HInv /\ QInv /\ ExpandHeap => QInv'
<1> SUFFICES ASSUME HInv, QInv, ExpandHeap PROVE QInv'
  OBVIOUS
<1>1. /\ request \in Nat \ {0} /\ Running /\ NoneFits(heap, request)
      /\ heap' = Expand(heap, request)
      /\ tries' = tries + 1 /\ tries \in Nat
      /\ request' = request /\ before' = before
  BY DEF ExpandHeap, Running, HInv, QInv
<1>2. PICK t : t = heap'
  OBVIOUS
<1>3. /\ t.merges \in {heap.merges, heap.merges + 1}
      /\ t.merges = heap.merges => t = Grown(heap, request)
      /\ heap.merges \in Nat
  BY <1>1, <1>2, ExpandMonotone DEF HInv, Shape
<1>4. heap.merges = 0 => Typed(heap) /\ WellFormed(heap)
                         /\ OnEveryWalk(heap, heap.lastHeader)
  BY DEF HInv, QInv, LastReached
<1>5. ASSUME t.merges = 0 PROVE OnEveryWalk(t, t.lastHeader)
  <2>1. heap.merges = 0 /\ t = Grown(heap, request)
    BY <1>3, <1>5
  <2> QED BY <1>1, <1>4, <2>1, GrownWalk
<1>6. LastReached'
  BY <1>2, <1>5 DEF LastReached, OnEveryWalk, Closed, Headers
<1>7. ASSUME before = 0 PROVE Progress' /\ tries' =< 2
  <2>1. \/ tries = 0 /\ heap.merges = 0
        \/ tries = 1 /\ heap.merges = 0 /\ heap.seg[heap.lastHeader].free
    BY <1>1, <1>7 DEF QInv, Progress
  <2>2. CASE heap.seg[heap.lastHeader].free
    <3>1. ~NoneFits(t, request)
      BY <1>1, <1>2, <1>4, <2>1, <2>2, ExpandFree
    <3> QED BY <1>1, <1>2, <2>1, <3>1 DEF Progress
  <2>3. CASE ~heap.seg[heap.lastHeader].free
    <3>1. tries = 0 /\ heap.merges = 0
      BY <2>1, <2>3
    <3>2. t = Grown(heap, request)
      BY <1>1, <1>2, <1>4, <2>3, <3>1, ExpandUsed
    <3>3. t.merges = 0 /\ t.seg[t.lastHeader].free
      BY <1>1, <1>4, <3>1, <3>2, GrownFields
    <3> QED BY <1>1, <1>2, <3>1, <3>3 DEF Progress
  <2> QED BY <2>2, <2>3
<1>8. (before = 0 => Progress') /\ (before = 0 => tries' =< 2)
  BY <1>7
<1> QED BY <1>1, <1>6, <1>8 DEF QInv, AnsweredWithinTwoExpansions

LEMMA AnsweredFree ==
  ASSUME HInv, QInv, NEW p \in DOMAIN live, HeapFree(p)
  PROVE  QInv'
<1> DEFINE h == p - HeaderUnits
<1> HIDE DEF h
<1>0. PICK freed : freed = [heap EXCEPT !.seg[h].free = TRUE]
  OBVIOUS
<1>1. /\ heap' = Release(heap, h)
      /\ UNCHANGED <<request, tries, before, status>> /\ request = 0
  BY DEF HeapFree, Idle, h
<1>2. PICK t : t = heap'
  OBVIOUS
<1>3. /\ t.merges \in Nat /\ heap.merges \in Nat /\ t.merges >= heap.merges
      /\ t.merges = heap.merges => t = freed
  <2>1. heap.merges \in Nat
    BY DEF HInv, Shape
  <2> QED BY <1>0, <1>1, <1>2, <2>1, ReleaseMonotone DEF HInv
<1>4. ASSUME t.merges = 0 PROVE OnEveryWalk(t, t.lastHeader)
  <2>1. heap.merges = 0 /\ t = freed
    BY <1>3, <1>4
  <2>2. /\ Typed(heap) /\ WellFormed(heap) /\ BlocksFillSegments(heap, live)
        /\ OnEveryWalk(heap, heap.lastHeader)
    BY <2>1 DEF HInv, QInv, LastReached
  <2>3. h \in Headers(heap)
    BY <2>2 DEF BlocksFillSegments, h
  <2>4. PICK b \in BOOLEAN : b = TRUE
    OBVIOUS
  <2>5. t = Mark(heap, h, b)
    BY <1>0, <2>1, <2>4 DEF Mark
  <2> QED BY <2>2, <2>3, <2>5, MarkWalk
<1>5. LastReached'
  BY <1>2, <1>4 DEF LastReached, OnEveryWalk, Closed, Headers
<1> QED BY <1>1, <1>5 DEF QInv, Running, AnsweredWithinTwoExpansions

LEMMA AnsweredNext == HInv /\ QInv /\ [Next]_vars => QInv'
<1> SUFFICES ASSUME HInv, QInv, [Next]_vars PROVE QInv'
  OBVIOUS
<1>1. ASSUME UNCHANGED <<heap, live, request, tries, before>>,
             status' \in {"hung", "corrupt", "fault"}
      PROVE  QInv'
  BY <1>1 DEF QInv, LastReached, OnEveryWalk, Closed, Headers, Running,
              AnsweredWithinTwoExpansions
<1>2. ASSUME NEW bytes \in Requests, CallHeapAllocate(bytes) PROVE QInv'
  BY <1>2, AnsweredCall
<1>3. CASE GrantFirstFit
  BY <1>3, AnsweredGrant
<1>4. CASE ExpandHeap
  BY <1>4, AnsweredExpand
<1>5. CASE Hang
  BY <1>1, <1>5 DEF Hang
<1>6. CASE WalkIntoOverwritten
  BY <1>1, <1>6 DEF WalkIntoOverwritten
<1>7. ASSUME NEW p \in DOMAIN live, HeapFree(p) PROVE QInv'
  BY <1>7, AnsweredFree
<1>8. ASSUME NEW p \in DOMAIN live, HeapFreeOverwritten(p) PROVE QInv'
  BY <1>1, <1>8 DEF HeapFreeOverwritten
<1>9. CASE HeapFreeNull
  BY <1>1, <1>9 DEF HeapFreeNull
<1>10. CASE UNCHANGED vars
  BY <1>10 DEF vars, QInv, LastReached, OnEveryWalk, Closed, Headers, Running,
               Progress, NoneFits, NeverEnds, LeadsTo, PassesOver, Fits,
               AnsweredWithinTwoExpansions
<1> QED
  BY <1>2, <1>3, <1>4, <1>5, <1>6, <1>7, <1>8, <1>9, <1>10 DEF Next

(* A request made before any merge is served after at most two expansions  *)
(* of the heap, for every heap size, page size and sequence of requests.   *)
THEOREM AnsweredCorrect == Spec => []AnsweredWithinTwoExpansions
<1>1. QInv => AnsweredWithinTwoExpansions
  BY DEF QInv
<1> QED BY <1>1, AnsweredInit, AnsweredNext, Invariance, PTL DEF Spec
=============================================================================
