---------------------------- MODULE AddressSpace ----------------------------
(***************************************************************************)
(* The kernel's address space, from the page tables of                     *)
(* kernel/src/Paging/PageTableManager.c: InitMemory and ISRInstall of      *)
(* kernel/src/kernel.c, and the mapping loops of InitHeap and ExpandHeap   *)
(* of kernel/src/Memory/Heap.c, over the allocator of PageFrames.          *)
(*                                                                         *)
(* Virtual pages and frames are their numbers.  The tables in memory are a *)
(* function from the frame of a table to its entries; an entry is the      *)
(* frame it points to, or Absent: every entry that MapMemory writes is     *)
(* present and writable, and no other flag is ever set.                    *)
(*                                                                         *)
(* Before InitMemory loads CR3 the kernel runs on the firmware's identity  *)
(* map.  After it, MapMemory reaches a page table through the map that the *)
(* tables themselves describe.  A behaviour ends as "exhausted" where      *)
(* RequestPage answers NULL, which no caller looks at, and as "fault"      *)
(* where MapMemory touches a table that is not mapped to its own address.  *)
(* The state is then the one before that call.                             *)
(***************************************************************************)
EXTENDS PageFrames

CONSTANTS
  Machines,      (* what the loader may hand over: the memory map, the     *)
                 (* kernel's place and the frame buffer's                  *)
  Fanout,        (* entries of a table: 512                                *)
  HeapPage,      (* virtual page of the heap: 0x0000100000000000 / 4096    *)
  InitPages,     (* pages InitHeap is called with: 0x10                    *)
  MaxHeapPages   (* bound of the model: pages the heap may grow to         *)

ASSUME FanoutAssumption == Fanout \in Nat \ {0, 1}
ASSUME HeapPageAssumption == HeapPage \in Nat
ASSUME InitPagesAssumption ==
  InitPages \in Nat /\ MaxHeapPages \in Nat /\ InitPages =< MaxHeapPages

VARIABLES
  machine,    (* the BootInfo                                             *)
  phase,      (* how far _start has come                                  *)
  space,      (* the allocator, the page tables and PML4's frame          *)
  page,       (* i of InitMemory's loops, in pages                        *)
  heapEnd,    (* Heap.end                                                 *)
  idt,        (* the frame of the interrupt descriptor table              *)
  status      (* "ok", or how the behaviour ended                         *)

vars == <<machine, phase, space, page, heapEnd, idt, status>>

Absent == -1
CeilDiv(n, d) == (n + d - 1) \div d

EmptyTable == [i \in 0 .. (Fanout - 1) |-> Absent]

(* The pages that one entry of a table of this level stands for; those of  *)
(* the address space are Span(4).                                          *)
Span(level) ==
  <<1, Fanout, Fanout * Fanout, Fanout * Fanout * Fanout,
    Fanout * Fanout * Fanout * Fanout>>[level + 1]

(* Mutant: InitPageMapIndex forgetting one of its shifts. *)
Index_SameTwice(v, level) ==
  (v \div Span(IF level = 2 THEN 1 ELSE level)) % Fanout

(* InitPageMapIndex: level 3 is the PML4 index, level 0 the page. *)
Index(v, level) == (v \div Span(level)) % Fanout

(* RequestPage, as its callers use it: the frame is taken out of the pool. *)
Refused(s) == ~Found(s.alloc)
Requested(s) == FoundFrame(s.alloc)

TakeFrame(s) == [s EXCEPT !.alloc = Grant(@)]

(* A zeroed table, entered into table t. *)
AddTable(s, t, i) ==
  LET new    == Requested(s)
      zeroed == [f \in DOMAIN s.tables \cup {new} |->
                   IF f = new THEN EmptyTable ELSE s.tables[f]]
  IN  [TakeFrame(s) EXCEPT !.tables = [zeroed EXCEPT ![t][i] = new]]

(***************************************************************************)
(* MapMemory(v, f).  Descend follows the entry of one table to the next,   *)
(* which it adds when the entry is absent; at is the table it has reached, *)
(* and way are all the tables touched.                                     *)
(***************************************************************************)
Descend(w, i) ==
  LET child == w.s.tables[w.at][i]
  IN  IF w.refused THEN w
      ELSE IF child # Absent
      THEN [w EXCEPT !.at = child, !.way = @ \cup {child}]
      ELSE IF Refused(w.s) THEN [w EXCEPT !.refused = TRUE]
      ELSE [w EXCEPT !.s   = AddTable(w.s, w.at, i),
                     !.at  = Requested(w.s),
                     !.way = @ \cup {Requested(w.s)}]

Walk(s, v) ==
  LET pml4 == [s |-> s, at |-> s.root, way |-> {s.root}, refused |-> FALSE]
  IN  Descend(Descend(Descend(pml4, Index(v, 3)), Index(v, 2)), Index(v, 1))

(* Mutant: SetAddress given the address, not the frame. *)
MapMemory_Unshifted(s, v, f) ==
  LET w == Walk(s, v)
  IN  [w.s EXCEPT !.tables[w.at][Index(v, 0)] = f * PageSize]

MapMemory(s, v, f) ==
  LET w == Walk(s, v)
  IN  [w.s EXCEPT !.tables[w.at][Index(v, 0)] = f]

(***************************************************************************)
(* The processor's view: what a virtual page translates to.                *)
(***************************************************************************)
Entry(s, t, i) == IF t = Absent THEN Absent ELSE s.tables[t][i]

Translate(s, v) ==
  LET Nth(level) == (v % Span(level + 1)) \div Span(level)
  IN  Entry(s, Entry(s, Entry(s, Entry(s, s.root, Nth(3)), Nth(2)), Nth(1)), Nth(0))

Loaded == phase \in {"heap", "running"}

(* What a call of MapMemory comes to. *)
Reachable(s, v) == \A t \in Walk(s, v).way : Translate(s, t) = t \/ ~Loaded

Outcome(s, v) ==
  IF Walk(s, v).refused THEN "exhausted"
  ELSE IF ~Reachable(s, v) THEN "fault" ELSE "ok"

(* The step of a loop that maps v to f in the state s. *)
Map(s, v, f) ==
  /\ status' = Outcome(s, v)
  /\ space' = IF status' = "ok" THEN MapMemory(s, v, f) ELSE space
-----------------------------------------------------------------------------
(***************************************************************************)
(* The layout of a machine m.                                              *)
(***************************************************************************)
MemoryFrames(m) == GetMemorySize(m.map)

(* What the identity map covers: as many frames, from the first, as all    *)
(* descriptors have together.  Where the map has a hole that is not all    *)
(* memory: what lies above a hole may be conventional, and is handed out   *)
(* as far as the last byte of the bitmap goes.                             *)
BelowSize(m) == Frames(0, MemoryFrames(m))
Unbroken(m)  == ConventionalFrames(m.map) \subseteq BelowSize(m)

(* The kernel's frames, and those that are locked: one more if it fills them. *)
KernelFrames(m) == Frames(m.kernel.first, CeilDiv(m.kernel.bytes, PageSize))
LockedKernel(m) == Frames(m.kernel.first, m.kernel.bytes \div PageSize + 1)

(* The frame buffer's frames: those that are mapped, and those locked. *)
FrameBufferBytes(m) == m.frameBuffer.bytes + PageSize
FrameBuffer(m) == Frames(m.frameBuffer.first, CeilDiv(FrameBufferBytes(m), PageSize))
LockedFrameBuffer(m) ==
  Frames(m.frameBuffer.first, FrameBufferBytes(m) \div PageSize + 1)

(* Mutants: the identity map one page short, and its size divided twice. *)
IdentityPages_OneShort(m) == MemoryFrames(m) - 1
IdentityPages_Divided(m) == MemoryFrames(m) \div PageSize

IdentityPages(m) == MemoryFrames(m)

(***************************************************************************)
(* The machines the kernel can be started on: the kernel and the largest   *)
(* free segment, where the bitmap goes, are apart and lie below the size   *)
(* of the memory, and all that is mapped at its own address, the bits of   *)
(* the bitmap's last byte among it, lies below the heap.                   *)
(***************************************************************************)
ASSUME MachinesAssumption ==
  \A m \in Machines :
    /\ MemoryFrames(m) \in Nat
    /\ m.kernel.first \in Nat /\ m.kernel.bytes \in Nat
    /\ m.frameBuffer.first \in Nat /\ m.frameBuffer.bytes \in Nat
    /\ KernelFrames(m) \cup BitmapFrames(m.map) \subseteq BelowSize(m)
    /\ BitmapFrames(m.map) \cap (KernelFrames(m) \cup Frames(0, LowPages)) = {}
    /\ MemoryFrames(m) + 8 =< HeapPage
    /\ \A f \in FrameBuffer(m) : f < HeapPage

ASSUME HeapAssumption == HeapPage + MaxHeapPages =< Span(4)

(***************************************************************************)
(* InitMemory does not look at what RequestPage answers: it works when the *)
(* free memory holds the tables of the identity map.  They are the PML4    *)
(* and, on each level below, one for each part of the address space that   *)
(* has a mapped page in it.                                                *)
(***************************************************************************)
Room(m) ==
  (ConventionalFrames(m.map) \cap BelowSize(m))
    \ (Frames(0, LowPages) \cup BitmapFrames(m.map) \cup LockedKernel(m)
         \cup LockedFrameBuffer(m))

Parts(S, level) == {v \div Span(level) : v \in S}

TablesNeeded(S) ==
  1 + Cardinality(Parts(S, 1)) + Cardinality(Parts(S, 2)) + Cardinality(Parts(S, 3))

ASSUME RoomAssumption ==
  \A m \in Machines :
    Cardinality(Room(m)) >= TablesNeeded(BelowSize(m) \cup FrameBuffer(m))

Init ==
  /\ machine \in Machines
  /\ phase = "boot"
  /\ space = [alloc |-> Unbooted, tables |-> [f \in {} |-> EmptyTable], root |-> Absent]
  /\ page = 0
  /\ heapEnd = HeapPage
  /\ idt = NULL
  /\ status = "ok"

(* InitMemory up to its first loop. *)
InitMemory ==
  /\ phase = "boot"
  /\ \E garbage \in SUBSET {8 * BitmapSize(machine.map)} :
       LET booted == LockPages(Boot(machine.map, garbage), LockedKernel(machine))
           s == [space EXCEPT !.alloc = booted]
       IN  IF Refused(s)
           THEN status' = "exhausted" /\ UNCHANGED <<phase, space>>
           ELSE /\ phase' = "identity"
                /\ space' = [alloc  |-> Grant(s.alloc),
                             tables |-> [f \in {Requested(s)} |-> EmptyTable],
                             root   |-> Requested(s)]
                /\ UNCHANGED status
  /\ UNCHANGED <<machine, page, heapEnd, idt>>

MapIdentity ==
  /\ phase = "identity" /\ page < IdentityPages(machine)
  /\ Map(space, page, page)
  /\ page' = IF status' = "ok" THEN page + 1 ELSE page
  /\ UNCHANGED <<machine, phase, heapEnd, idt>>

LockFrameBuffer ==
  /\ phase = "identity" /\ page = IdentityPages(machine)
  /\ space' = [space EXCEPT !.alloc = LockPages(@, LockedFrameBuffer(machine))]
  /\ page' = machine.frameBuffer.first
  /\ phase' = "frameBuffer"
  /\ UNCHANGED <<machine, heapEnd, idt, status>>

MapFrameBuffer ==
  /\ phase = "frameBuffer" /\ page \in FrameBuffer(machine)
  /\ Map(space, page, page)
  /\ page' = IF status' = "ok" THEN page + 1 ELSE page
  /\ UNCHANGED <<machine, phase, heapEnd, idt>>

LoadCR3 ==
  /\ phase = "frameBuffer" /\ page \notin FrameBuffer(machine)
  /\ phase' = "heap"
  /\ UNCHANGED <<machine, space, page, heapEnd, idt, status>>

(* One turn of the loops of InitHeap and ExpandHeap: the frame is requested *)
(* first, then MapMemory requests the tables that it needs.                *)
MapHeapPage ==
  /\ IF Refused(space)
     THEN status' = "exhausted" /\ UNCHANGED space
     ELSE Map(TakeFrame(space), heapEnd, Requested(space))
  /\ heapEnd' = IF status' = "ok" THEN heapEnd + 1 ELSE heapEnd

InitHeap ==
  /\ phase = "heap" /\ heapEnd < HeapPage + InitPages
  /\ MapHeapPage
  /\ UNCHANGED <<machine, phase, page, idt>>

(* The gates are written to the table at the address of its frame. *)
ISRInstall ==
  /\ phase = "heap" /\ heapEnd = HeapPage + InitPages
  /\ IF Refused(space)
     THEN status' = "exhausted" /\ UNCHANGED <<space, idt>>
     ELSE /\ space' = TakeFrame(space)
          /\ idt' = Requested(space)
          /\ status' = IF Translate(space, idt') = idt' THEN "ok" ELSE "fault"
  /\ phase' = "running"
  /\ UNCHANGED <<machine, page, heapEnd>>

ExpandHeap ==
  /\ phase = "running" /\ heapEnd < HeapPage + MaxHeapPages
  /\ MapHeapPage
  /\ UNCHANGED <<machine, phase, page, idt>>

Next ==
  /\ status = "ok"
  /\ \/ InitMemory
     \/ MapIdentity
     \/ LockFrameBuffer
     \/ MapFrameBuffer
     \/ LoadCR3
     \/ InitHeap
     \/ ISRInstall
     \/ ExpandHeap

Spec == Init /\ [][Next]_vars
-----------------------------------------------------------------------------
(***************************************************************************)
(* Properties.                                                             *)
(***************************************************************************)
Pages  == 0 .. (Span(4) - 1)
Tables == DOMAIN space.tables

HeapFrames == {Translate(space, v) : v \in HeapPage .. (heapEnd - 1)}

(* What an entry may hold: memory, the frame buffer, or a frame of the     *)
(* bitmap's last bits.                                                     *)
Targets == Bitmap_Indices(space.alloc) \cup BelowSize(machine) \cup FrameBuffer(machine)

(* The state has its types, and no entry points anywhere else.             *)
TypeOK ==
  /\ machine \in Machines
  /\ phase \in {"boot", "identity", "frameBuffer", "heap", "running"}
  /\ space.tables \in [Tables -> [0 .. (Fanout - 1) -> Targets \cup {Absent}]]
  /\ space.root \in Tables \cup {Absent}
  /\ page \in Nat
  /\ heapEnd \in HeapPage .. (HeapPage + MaxHeapPages)
  /\ idt \in Nat
  /\ status \in {"ok", "exhausted", "fault"}

(* A call of MapMemory maps the page it is given to the frame it is given, *)
(* and whatever tables it adds on the way, every other page of the address *)
(* space translates as before: no two virtual pages share an entry.        *)
MapsOnePage ==
  [][\A v \in Pages :
       LET before == Translate(space, v)
           after  == Translate(space', v)
       IN  IF phase' = phase /\ page' = page + 1 /\ v = page THEN after = page
           ELSE IF heapEnd' = heapEnd + 1 /\ v = heapEnd
           THEN before = Absent /\ after = FoundFrame(space.alloc)
           ELSE after = before]_<<space, phase, page, heapEnd>>

(* Every frame has one use, however many calls of RequestPage were made    *)
(* while MapMemory was itself in the middle of a call: the page tables,    *)
(* the pages of the heap, the interrupt table, the allocator's bitmap and  *)
(* what was there before are apart, and no two heap pages share a frame.   *)
EachFrameHasOneUse ==
  LET before == Frames(0, LowPages) \cup KernelFrames(machine)
      uses   == <<Tables, HeapFrames, {idt} \ {NULL}, BitmapFrames(machine.map), before>>
  IN  phase # "boot" =>
        /\ \A i, j \in DOMAIN uses : i # j => uses[i] \cap uses[j] = {}
        /\ Cardinality(HeapFrames) = heapEnd - HeapPage

(* When CR3 is loaded the kernel keeps running: its own pages, the bitmap, *)
(* the page tables, those of later calls too, and the frame buffer are     *)
(* mapped to their own addresses, and stay so.  Of all the frames it may   *)
(* yet request, those below the sum of the sizes are too; at the address   *)
(* of any other nothing is mapped, be it memory above a hole of the map or *)
(* a bit of the bitmap's last byte that stands for no memory.              *)
SwitchIsSafe ==
  Loaded =>
    /\ \A f \in KernelFrames(machine) \cup BitmapFrames(machine.map) \cup Tables \cup FrameBuffer(machine) :
         Translate(space, f) = f
    /\ \A f \in Clear(space.alloc) :
         Translate(space, f) = IF f \in BelowSize(machine) THEN f ELSE Absent

(* RequestPage answers NULL only when no more is left, of all it can give, *)
(* than one call asks for.  MapMemory and ISRInstall touch a frame that is *)
(* not mapped only when no more than that is left of the frames that are,  *)
(* and a frame is given out that is not: above a hole there may be any     *)
(* number left then.  Where conventional memory has no such part, it is    *)
(* used up when anything fails.                                            *)
FailsOnlyWhenMappedUsedUp ==
  LET left == Clear(space.alloc)
  IN  /\ status = "exhausted" => Cardinality(left) =< 3
      /\ status = "fault" =>
           /\ Cardinality(left \cap BelowSize(machine)) =< 3
           /\ (left \cup ({idt} \ {NULL})) \ BelowSize(machine) # {}
      /\ status # "ok" /\ Unbroken(machine) =>
           Cardinality(left \cap ConventionalFrames(machine.map)) =< 3
=============================================================================
