-------------------------------- MODULE Heap --------------------------------
(***************************************************************************)
(* The kernel heap behind malloc and free: kernel/src/Memory/Heap.c.       *)
(*                                                                         *)
(* Addresses and sizes are in units of 16 bytes, to which HeapAllocate     *)
(* rounds every request; a segment header takes two of them.  The headers  *)
(* in memory are a function from their address to their fields.  A header  *)
(* that CombineForward swallows stays in memory, and on the list, as it    *)
(* does in the code; a header that a later one overwrites in part is       *)
(* dropped, and reading it ends the behaviour as "corrupt".                *)
(*                                                                         *)
(* The application is the environment: it calls malloc, and free with      *)
(* what malloc returned, or with NULL.  Nothing else runs in the heap: the *)
(* interrupt handlers do not allocate.                                     *)
(***************************************************************************)
EXTENDS Integers, FiniteSets

CONSTANTS
  HeapStart,   (* address of the heap, 0x0000100000000000                 *)
  PageUnits,   (* units in a page: 4096 / 16                              *)
  InitPages,   (* pages InitHeap is called with: 0x10                     *)
  MaxPages,    (* bound of the model: pages the heap may grow to          *)
  MaxMerges,   (* bound of the model: segments merged in a behaviour      *)
  Requests     (* byte counts malloc is called with                       *)

NULL == 0
UnitBytes == 16
HeaderUnits == 2

ASSUME HeapStartAssumption == HeapStart \in Nat \ {0}
ASSUME PageUnitsAssumption == PageUnits \in Nat /\ PageUnits > HeaderUnits
ASSUME InitPagesAssumption == InitPages \in Nat \ {0}
ASSUME MaxPagesAssumption == MaxPages \in Nat /\ InitPages =< MaxPages
ASSUME RequestsAssumption  == Requests \subseteq Nat

VARIABLES
  heap,     (* the headers, the static Heap; history: the merges so far   *)
  live,     (* the blocks the application has: pointer -> units asked for *)
  request,  (* units HeapAllocate is looking for; 0 when it is not called *)
  tries,    (* history: expansions made for the request                   *)
  before,   (* history: the merges when HeapAllocate was called           *)
  status    (* "ok" until the heap has failed its caller, then how        *)

vars == <<heap, live, request, tries, before, status>>

CeilDiv(n, d) == (n + d - 1) \div d

(* HeapAllocate rounds up to a multiple of 16 bytes. *)
Units(bytes) == CeilDiv(bytes, UnitBytes)

Headers(s) == DOMAIN s.seg

(* Writing a header spoils the headers that start one unit to either side. *)
PutHeader(seg, a, header) ==
  [h \in (DOMAIN seg \ {a - 1, a + 1}) \cup {a} |->
     IF h = a THEN header ELSE seg[h]]

(* header->last = l, which writes to page 0 when the pointer is NULL. *)
SetLast(seg, h, l) == IF h = NULL THEN seg ELSE [seg EXCEPT ![h].last = l]

(***************************************************************************)
(* Merging.  The size grows, but header->next keeps pointing at the        *)
(* swallowed header.                                                       *)
(***************************************************************************)
Mergeable(s, h) ==
  /\ s.seg[h].next # NULL
  /\ s.seg[s.seg[h].next].free

Merge(s, h) ==
  LET swallowed == s.seg[h].next
      relinked  == SetLast(s.seg, s.seg[swallowed].next, h)
  IN  [s EXCEPT
        !.seg        = [relinked EXCEPT
                          ![h].size = @ + relinked[swallowed].size + HeaderUnits],
        !.lastHeader = IF @ = swallowed THEN h ELSE @,
        !.merges     = @ + 1]

CombineForward(s, h) == IF Mergeable(s, h) THEN Merge(s, h) ELSE s

CombineBackward(s, h) ==
  IF s.seg[h].last # NULL /\ s.seg[s.seg[h].last].free
  THEN CombineForward(s, s.seg[h].last)
  ELSE s

(***************************************************************************)
(* Splitting, when at least one unit is left beside a new header.  The     *)
(* static Heap.lastHeader is not moved to the new segment: the code        *)
(* assigns its own parameter instead.                                      *)
(***************************************************************************)
(* Mutant: the length of the rest compared as an unsigned number. *)
Splits_Unsigned(s, h, n) == s.seg[h].size > n

Splits(s, h, n) == s.seg[h].size - n - HeaderUnits >= 1

(* Mutant: the segment after the new one keeps its back pointer. *)
Split_OneWay(s, h, n) ==
  LET new == h + HeaderUnits + n
      cut == PutHeader(s.seg, new, [size |-> s.seg[h].size - n - HeaderUnits,
                                    free |-> s.seg[h].free,
                                    next |-> s.seg[h].next,
                                    last |-> h])
  IN  [s EXCEPT !.seg = [cut EXCEPT ![h] = [size |-> n, free |-> @.free,
                                            next |-> new, last |-> @.last]]]

Split(s, h, n) ==
  LET new  == h + HeaderUnits + n
      seg1 == SetLast(s.seg, s.seg[h].next, new)
      seg2 == PutHeader(seg1, new, [size |-> s.seg[h].size - n - HeaderUnits,
                                    free |-> s.seg[h].free,
                                    next |-> s.seg[h].next,
                                    last |-> h])
  IN  [s EXCEPT !.seg = [seg2 EXCEPT ![h] = [size |-> n, free |-> @.free,
                                             next |-> new, last |-> @.last]]]

(* Mutant: the segment left free. *)
Occupy_Unmarked(s, h, n) == IF Splits(s, h, n) THEN Split(s, h, n) ELSE s

(* HeapAllocate takes segment h: split it if it is larger, mark it used. *)
Occupy(s, h, n) ==
  LET cut == IF Splits(s, h, n) THEN Split(s, h, n) ELSE s
  IN  [cut EXCEPT !.seg[h].free = FALSE]

(* Mutant: the size of the new segment counting its header. *)
Grown_SizeWithHeader(s, n) ==
  LET units == CeilDiv(n, PageUnits) * PageUnits
      seg1  == PutHeader(s.seg, s.end, [size |-> units,
                                        free |-> TRUE,
                                        next |-> NULL,
                                        last |-> s.lastHeader])
  IN  [s EXCEPT !.seg        = [seg1 EXCEPT ![s.lastHeader].next = s.end],
                !.end        = s.end + units,
                !.lastHeader = s.end]

(* ExpandHeap up to its last line: a new segment, appended to the list. *)
Grown(s, n) ==
  LET units == CeilDiv(n, PageUnits) * PageUnits
      seg1  == PutHeader(s.seg, s.end, [size |-> units - HeaderUnits,
                                        free |-> TRUE,
                                        next |-> NULL,
                                        last |-> s.lastHeader])
  IN  [s EXCEPT !.seg        = [seg1 EXCEPT ![s.lastHeader].next = s.end],
                !.end        = s.end + units,
                !.lastHeader = s.end]

(* Mutant: the new segment not merged with a free one before it. *)
Expand_Unmerged(s, n) == Grown(s, n)

Expand(s, n) == CombineBackward(Grown(s, n), s.end)

Release(s, h) ==
  LET freed   == [s EXCEPT !.seg[h].free = TRUE]
      forward == CombineForward(freed, h)
  IN  CombineBackward(forward, h)

(***************************************************************************)
(* The first-fit walk.  V is a set of segments the walk passes over, exits *)
(* where it may leave V.                                                   *)
(***************************************************************************)
Fits(s, h, n) == s.seg[h].free /\ s.seg[h].size >= n

PassesOver(s, n, V, exits) ==
  /\ HeapStart \in V \cup exits
  /\ \A h \in V : ~Fits(s, h, n) /\ s.seg[h].next \in V \cup exits

LeadsTo(s, n, x) == \E V \in SUBSET Headers(s) : PassesOver(s, n, V, {x})

(* The list runs in a circle and nothing on it fits. *)
NeverEnds(s, n) == \E V \in SUBSET Headers(s) : PassesOver(s, n, V, {})

FirstFit(s, n, h) ==
  h \in Headers(s) /\ Fits(s, h, n) /\ ~NeverEnds(s, n) /\ LeadsTo(s, n, h)

NoneFits(s, n) == ~NeverEnds(s, n) /\ LeadsTo(s, n, NULL)

(* Pointers whose target has been overwritten. *)
Dangling(s) ==
  {s.seg[h].next : h \in Headers(s)} \ (Headers(s) \cup {NULL})
-----------------------------------------------------------------------------
Extent(p, n) == p .. (p + n - 1)

InitHeap ==
  [seg        |-> [h \in {HeapStart} |->
                     [size |-> InitPages * PageUnits - HeaderUnits,
                      free |-> TRUE, next |-> NULL, last |-> NULL]],
   end        |-> HeapStart + InitPages * PageUnits,
   lastHeader |-> HeapStart,
   merges     |-> 0]

Init ==
  /\ heap = InitHeap
  /\ live = [p \in {} |-> 0]
  /\ request = 0
  /\ tries = 0
  /\ before = 0
  /\ status = "ok"

Running == status = "ok" /\ request # 0
Idle    == status = "ok" /\ request = 0

(* malloc(0) returns NULL without looking at the heap. *)
CallHeapAllocate(bytes) ==
  /\ Idle
  /\ Units(bytes) # 0
  /\ request' = Units(bytes)
  /\ tries' = 0
  /\ before' = heap.merges
  /\ UNCHANGED <<heap, live, status>>

(* What the caller gets: memory somebody else has, or that is not mapped. *)
Verdict(h, n) ==
  LET p == h + HeaderUnits
      need == n + (IF Splits(heap, h, n) THEN HeaderUnits ELSE 0)
  IN  IF \E q \in DOMAIN live : Extent(p, n) \cap Extent(q, live[q]) # {}
      THEN "overlap"
      ELSE IF p + need > heap.end THEN "overrun" ELSE "ok"

(* Splitting h writes to the header that h points to. *)
SplitReadable(s, h, n) ==
  Splits(s, h, n) => s.seg[h].next \in Headers(s) \cup {NULL}

GrantFirstFit ==
  /\ Running
  /\ \E h \in Headers(heap) :
       /\ FirstFit(heap, request, h)
       /\ SplitReadable(heap, h, request)
       /\ heap' = Occupy(heap, h, request)
       /\ live' = [p \in DOMAIN live \cup {h + HeaderUnits} |->
                     IF p = h + HeaderUnits THEN request ELSE live[p]]
       /\ status' = Verdict(h, request)
  /\ request' = 0
  /\ tries' = 0
  /\ before' = 0

(* The tail of HeapAllocate: expand, then call itself again. *)
ExpandHeap ==
  /\ Running
  /\ NoneFits(heap, request)
  /\ heap.lastHeader \in Headers(heap)
  /\ heap.end + CeilDiv(request, PageUnits) * PageUnits
       =< HeapStart + MaxPages * PageUnits
  /\ heap' = Expand(heap, request)
  /\ heap'.merges =< MaxMerges
  /\ tries' = tries + 1
  /\ UNCHANGED <<live, request, before, status>>

Hang ==
  /\ Running
  /\ NeverEnds(heap, request)
  /\ status' = "hung"
  /\ UNCHANGED <<heap, live, request, tries, before>>

(* The walk, Split or ExpandHeap follows a pointer to an overwritten header. *)
WalkIntoOverwritten ==
  /\ Running
  /\ \/ \E x \in Dangling(heap) : LeadsTo(heap, request, x)
     \/ \E h \in Headers(heap) :
          FirstFit(heap, request, h) /\ ~SplitReadable(heap, h, request)
     \/ NoneFits(heap, request) /\ heap.lastHeader \notin Headers(heap)
  /\ status' = "corrupt"
  /\ UNCHANGED <<heap, live, request, tries, before>>

(* The headers that freeing segment h may read or write. *)
Neighbours(s, h) ==
  LET Next(g) == IF g \in Headers(s) THEN s.seg[g].next ELSE NULL
      Last(g) == IF g \in Headers(s) THEN s.seg[g].last ELSE NULL
  IN  {h, Next(h), Next(Next(h)), Last(h), Next(Last(h)), Next(Next(Last(h)))}
        \ {NULL}

HeapFree(p) ==
  /\ Idle
  /\ Neighbours(heap, p - HeaderUnits) \subseteq Headers(heap)
  /\ heap' = Release(heap, p - HeaderUnits)
  /\ heap'.merges =< MaxMerges
  /\ live' = [q \in DOMAIN live \ {p} |-> live[q]]
  /\ UNCHANGED <<request, tries, before, status>>

HeapFreeOverwritten(p) ==
  /\ Idle
  /\ ~(Neighbours(heap, p - HeaderUnits) \subseteq Headers(heap))
  /\ status' = "corrupt"
  /\ UNCHANGED <<heap, live, request, tries, before>>

(* free(NULL) writes below address 0, where nothing is mapped. *)
HeapFreeNull ==
  /\ Idle
  /\ status' = "fault"
  /\ UNCHANGED <<heap, live, request, tries, before>>

Next ==
  \/ \E bytes \in Requests : CallHeapAllocate(bytes)
  \/ GrantFirstFit
  \/ ExpandHeap
  \/ Hang
  \/ WalkIntoOverwritten
  \/ \E p \in DOMAIN live : HeapFree(p)
  \/ \E p \in DOMAIN live : HeapFreeOverwritten(p)
  \/ HeapFreeNull

Spec == Init /\ [][Next]_vars
-----------------------------------------------------------------------------
(***************************************************************************)
(* Properties.                                                             *)
(***************************************************************************)
SegmentHeaders == [size: Nat, free: BOOLEAN, next: Nat, last: Nat]

(* Every field has its type, and the heap stays within the bound.          *)
TypeOK ==
  /\ heap = [seg |-> heap.seg, end |-> heap.end,
             lastHeader |-> heap.lastHeader, merges |-> heap.merges]
  /\ heap.seg \in [Headers(heap) -> SegmentHeaders]
  /\ Headers(heap) \in SUBSET Nat
  /\ heap.end \in HeapStart .. (HeapStart + MaxPages * PageUnits)
  /\ heap.lastHeader \in Nat
  /\ heap.merges \in Nat
  /\ live \in [DOMAIN live -> Nat \ {0}]
  /\ DOMAIN live \in SUBSET Nat
  /\ request \in Nat
  /\ tries \in Nat
  /\ before \in Nat
  /\ status \in {"ok", "overlap", "overrun", "hung", "corrupt", "fault"}

(* As long as free has merged no segments, whatever the calls of malloc,   *)
(* free and the expansions between them: no two blocks overlap, none runs  *)
(* past the mapped heap, and every walk of HeapAllocate ends.              *)
SoundUntilMerged == heap.merges = 0 => status \in {"ok", "fault"}

SegEnd(s, h) == h + HeaderUnits + s.seg[h].size

(* The headers, also those that ExpandHeap drops from the list, divide the *)
(* heap among them.                                                        *)
SegmentsDivideHeap(s) ==
  /\ \A h \in Headers(s) : HeapStart =< h /\ SegEnd(s, h) =< s.end
  /\ \A g, h \in Headers(s) : g < h => SegEnd(s, g) =< h

(* Each live block fills a used segment, and a used segment has a block.   *)
BlocksFillSegments(s, blocks) ==
  /\ \A p \in DOMAIN blocks :
       /\ p - HeaderUnits \in Headers(s)
       /\ ~s.seg[p - HeaderUnits].free
       /\ blocks[p] =< s.seg[p - HeaderUnits].size
  /\ \A h \in Headers(s) : ~s.seg[h].free => h + HeaderUnits \in DOMAIN blocks

(* Until a merge the heap is laid out as malloc and free assume.           *)
LayoutUntilMerged ==
  heap.merges = 0 =>
    SegmentsDivideHeap(heap) /\ BlocksFillSegments(heap, live)

(* Until a merge the list only leads upwards, and every pointer forward is *)
(* matched by the pointer back, which is what merging relies on.           *)
ListLeadsUp(s) ==
  \A h \in Headers(s) :
    s.seg[h].next # NULL =>
      /\ s.seg[h].next \in Headers(s)
      /\ h < s.seg[h].next
      /\ s.seg[s.seg[h].next].last = h

LinksUntilMerged == heap.merges = 0 => ListLeadsUp(heap)

(* A request that finds no merged segments is served after one expansion   *)
(* of the heap, or two: the header may not fit beside it in the first's    *)
(* pages, and the second's are merged with them.  HeapAllocate calls       *)
(* itself after each, so that a third would go on like that for ever.      *)
AnsweredWithinTwoExpansions == before = 0 => tries =< 2

(* The application gets memory that no other block of it uses.             *)
BlocksNeverOverlap == status # "overlap"
=============================================================================
