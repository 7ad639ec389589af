# A formal model of OS-TK

OS-TK is a tool kit that turns a C program into a bootable x86-64 system: a
UEFI boot loader, a small kernel (memory, interrupts, text console, keyboard)
and a C library whose `malloc`, `puts` and `getchar` are calls into that kernel.
The program's `main` becomes `kmain` and "should run the exact same".

This directory holds TLA+ modules that model the parts of that system which
keep state or meet interrupts, TLC configurations that check them on small
machines, and TLAPS proofs for machines of any size. Paths below are relative to
`src/`, the repository.

## 1. The system

### Components

| Component | Code | State | Operations |
|---|---|---|---|
| Boot loader | `vendor/gnu-efi/bootloader/main.c` | none of its own | load ELF and font, memory map, exit boot services, enter kernel |
| Start-up | `kernel/src/kernel.c` | page table root, interrupt table | `InitMemory`, `ISRInstall`, `_start` |
| Page frame allocator | `kernel/src/Paging/PageFrameAllocator.c`, `Memory/Bitmap.c`, `Memory/Memory.c` | bitmap, scan cursor, three counters | read memory map, request, free, lock, reserve, unreserve |
| Page tables | `kernel/src/Paging/PageTableManager.c` | tables in memory | `MapMemory` |
| Heap | `kernel/src/Memory/Heap.c` | list of segments in memory, end, last header | `HeapAllocate`, `HeapFree`, `ExpandHeap`, split, combine |
| Console | `kernel/src/Drivers/Console.c`, `Display.c` | cursor, text buffer, pixels | put, delete, new line, clear, set position |
| Keyboard | `kernel/src/Drivers/Keyboard.c`, `Core/Interrupts.c` | shift keys, one character, `isRead` | interrupt, `KeyboardReadChar` |
| Timer | `kernel/src/Drivers/PIT.c` | time since boot, divisor | tick, set frequency, sleep |
| Interrupt controller | `kernel/src/Drivers/PIC.c` | masks, in-service lines | remap, end of interrupt |
| ACPI, PCI | `kernel/src/Core/ACPI.c`, `PCI.c` | none | find table, enumerate (the call is commented out) |
| Descriptor tables, panic, port I/O | `kernel/src/Descriptors`, `Core/Panic.c`, `Core/IO.c` | constant | |
| C library | `lib/libc/src` | `strtok` index, `rand` seed | stdio, stdlib, string, ctype, math |
| Application | `src/main.c` | | `kmain` |

### How they interact

The loader calls `_start` with a `BootInfo`: memory map, frame buffer, font.
`InitMemory` builds the allocator from the map and the page tables from the
allocator's frames, and loads CR3. `InitHeap` maps frames at a fixed virtual
address; `Console_Init` is the first caller of `malloc`. `ISRInstall` requests a
frame for the interrupt table. Then interrupts are enabled and `kmain` runs, the
only thread there is. Two interrupts reach the kernel: the keyboard, which
writes `KeyboardState` and the console, and the timer. They share memory with
the program without locks.

### Where it is hard

* *Sequences of calls.* The allocator and the heap keep several pieces of state
  that each operation must change together (bitmap, cursor and counters; sizes
  and links), and errors show many calls later.
* *Interrupts* come between any two instructions of the program; `isRead` is
  all that orders them.
* *Bootstrapping.* The page tables describe the memory they live in; the
  allocator's bitmap lives in memory it manages; CR3 is loaded under running code.
* *Limits.* The bitmap has more bits than there are frames, requests are
  rounded, memory runs out and no caller checks.

There is no persistent state, no network and no second processor, so crashes
and lost messages do not arise.

### What makes each component correct

* Allocator: a frame has at most one owner; a refusal means there is none left;
  firmware and kernel are never given away; the counters tell the truth.
* Page tables: `MapMemory` maps the page it is given and no other; whatever the
  kernel touches after CR3 is mapped.
* Heap: blocks do not overlap, lie in mapped memory, and every call returns.
* Console: the screen shows the text; keyboard and program do not both write it.
* Keyboard: each read gets one character, the one on the screen, and returns.
* `fgets`: its index stays at its array. (The line it returns is not what the user sees, see Terminal.)
* Strings: functions that read agree with each other; what is written is what should be, and where.
* Conversions: the number that is written, to the ends of the range; searching finds what is there.
* Mathematics: results are exact, or the double nearest to the exact result, and every call returns.

The hazards, each at its line, are listed in `PROJECT.json`.

## 2. The modules

    FramePool              abstract: a pool of frames
    PageFrames             the allocator as operators
      PageFrameAllocator     its state machine, implements FramePool
      AddressSpace           page tables and start-up over it
    Heap                   malloc and free
    Console                the console as operators
      Terminal               program, keyboard interrupt, stdio over it
    Timer                  both interrupts, their acknowledgement, a sleeper
    Strings                string.c over a memory of characters
    DoubleWords            a double as two words
      DoubleFunctions        the functions that take one apart
        Mathematics            a program that calls them, and fmod turn by turn
    BinarySearch           bsearch
    Conversions            strtol, strtoul
      Digits                 itoa, atoi, atol
        Stdlib                 the program that calls these and bsearch
    NaturalFacts           lemmas
    PageFrames_proofs      lemmas on the allocator's operators, for
      PageFrameAllocator_proofs, AddressSpace_proofs
    Heap_proofs, Devices_proofs (Terminal with Console, Timer),
    Library_proofs (BinarySearch, Conversions, Digits, Strings), Mathematics_proofs
    MC_*                   instances for TLC

In each module a definition "Mutant: ..." is a plausible mistake in the definition
that follows it. It is not part of the model; it is there to show that
a property notices it.

### PageFrames and PageFrameAllocator

A frame is its number and the bitmap a set of numbers. Every C function is an
operator on the record of its statics, which the state machine and the page
tables share. The loops over ranges (`LockPages` and the others) are one step:
nothing runs in between. `Fresh` and `Marked` are the bits such a loop turns over,
with the off-by-one guard of `Bitmap.c` (index `size * 8` is accessible, in a
byte that nobody clears: `garbage`). The counters are integers; the getters take
them modulo `CounterRange`, as 64-bit subtraction does.

`PageFrameAllocator` lets a client call the functions in any order. One rule binds
it: it gives back what it has, or what is clear already. `owner` is history.
`ImplementsFramePool` maps the clear bits to the pool of `FramePool` and the set
ones to the frames in use.

Note that `HandedFramesAreConventional` admits frames past the installed memory:
the initial `ReservePages` stops before the last bits of the bitmap, so a machine
whose frames do not fill its last byte has up to seven that do not exist.

### AddressSpace

`InitMemory`, `InitHeap`, `ExpandHeap` and the frame of `ISRInstall` over
`PageFrames`. `MapMemory` is the walk through three levels; each missing table is
a frame requested and zeroed in the middle of the call. `Translate` is the
processor's walk, written from its manual's point of view: fields of the page
number, not the shifts of `InitPageMapIndex`. One turn of a mapping loop is one step.

The layout of a machine (what is the kernel's, what is locked for it, what is mapped for
the frame buffer) is given by operators on `m`, a member of `Machines`, so that the assumptions can speak of every machine.
`MachinesAssumption` says what the loader hands over: kernel and bitmap apart, in memory, and everything that is mapped at
its own address below the heap. `RoomAssumption` says that free memory holds the tables of the identity map, which
`InitMemory` takes for granted: it looks at no answer of `RequestPage`.

A behaviour ends as "exhausted" where `RequestPage` answers `NULL`: the code
would go on with frame 0 as a table. It ends as "fault" where `MapMemory` touches
a table that is not mapped.

The identity map is as long as the sum of the descriptors' sizes (`BelowSize`), the bitmap up to seven frames longer. Where the map has a hole,
conventional frames lie above the sum, and those of the last byte's bits are handed out as any other, but never mapped; the others above it nobody ever requests.
So `SwitchIsSafe` does not say that all memory is mapped: what the kernel uses is, of what it may yet request just the frames below the sum are, and
at the address of any other nothing is. `FailsOnlyWhenMappedUsedUp` says that `RequestPage` answers `NULL` only when all it has is used up, but `MapMemory` and
`ISRInstall` fault as soon as the mapped frames are, whatever is left of the others. On `Holed`, the machine of the run with a hole, frames 26 to 29 are conventional and lie
above the sum: `ISRInstall` gets frame 27 for the interrupt table and faults, with 28 and 29 still free. Only a machine whose conventional memory has no such part
(`Unbroken`) has used it up when anything fails.

### Heap

Addresses are in units of 16 bytes, to which every size is rounded; a header is
two units. `heap.seg` maps the address of each header in memory to its fields.
`HeapAllocate` is three steps: the call, and then either a first fit or an
expansion and another try. The walk is `LeadsTo`: the segments passed over
are a set closed under `next`, without recursion, so that it can be proved about;
`NeverEnds` is the walk that stays in such a set for ever.

What the code does wrong is modelled as it is: a merge leaves the swallowed header
on the list, and `Split` does not move `Heap.lastHeader`. A header that a later one
overwrites in part is dropped from `seg`; following a pointer to it ends the
behaviour as "corrupt". A grant that overlaps a live block ends it as
"overlap", one past the end as "overrun". The swallowed header, when it is split or appended
behind, may come to point at itself or back: then a request that nothing fits never returns ("hung").
`free(NULL)` reads a header below address 0 ("fault"). `HeapFree` of a block merges forward and backward in one step.

### Console and Terminal

`Console` is a function from console state to console state. A cell of the screen
is the set of glyphs drawn on it since it was last blanked, because
`TextRenderer_RenderChar` only ever sets pixels, except for the blank.

`Terminal` has the program (`pc`) and the keyboard interrupt, which may come
between any two steps of the program and runs to its end, as an interrupt gate
disables interrupts. A step of the program is what one interrupt can see: setting
`isRead`, leaving the spin, reading the buffer. `EnterConsole` and `PrintChar` bracket
`Console_PutChar`, so that an interrupt inside it is a behaviour of the model;
`EchoesOnlyIntoSpin` is then what justifies that `PrintChar` is one step.
`KeyboardTranslator` has the table as it is in the source; scan code 58
passes its check and reads what lies behind it (`BeyondTable`).
`fgets` keeps its index and array; a store at `string[size]` sets `overrun`, as a backspace on
a full line does. A backspace that has been handled is stored like any other character.

### Timer

The controller's pending and in-service lines, the two handlers of `Core/Interrupts.c`, and a
program in `PIT_SleepSeconds`. Its steps are those between which an interrupt makes a
difference, which are finer than statements, because of what the build does:

* `kernel/Makefile:50` compiles `PIT.c` with the red zone; only `Interrupts.c` is compiled
  without (line 58). `PIT_SleepSeconds` calls nothing, so `startTime` and `seconds` lie in the
  24 bytes below the stack pointer, which is aligned to 16 there. That is where the
  processor pushes `SS`, `RSP` and `RFLAGS`. As doubles, these are next to zero.
* The handlers are compiled with `-mgeneral-regs-only` and save no `xmm` register, but
  `PIT_Tick`, compiled like the rest, uses `xmm0` and `xmm1`. So does the comparison of `PIT_SleepSeconds`.

So a sleep does not last as long as it was asked to: `hlt` ends with an interrupt, which leaves the locals with a
deadline long past. `InterruptEndsSleep` states it, with its two exceptions. Nothing in the
repository says how long a sleep lasts, so this is not listed as a finding; with
`-mno-red-zone` and saved registers the property that one would want, `elapsed >= asked` at `Return`,
could replace it. The handler of the keyboard does here only what the controller sees; the rest is in
`Terminal`, which leaves the acknowledgement to this module. `Divisor` is constant.

### Strings

A memory is a function from `Size` addresses to characters; a string is an address with a zero at or behind
it, so that every memory holds many strings that overlap. Functions that only read are operators on the
memory. Each that writes is an operator that gives the memory after it, run index by index like its loop, and
an action; `Return` lies between calls. The guards are what C asks of callers: strings that end, blocks that fit, and for `strcat`,
`strncat` and `strcpy` no overlap. `memcpy` and `strncpy` are called with overlap as well, because `memmove` is only
worth its block where they fail.

What the code does is in the model as it is: `strcat` adds to the characters behind the terminator; `strcpy` copies only onto a text
of the same length; `strstr` looks for the rest of the needle anywhere behind its first character, so that it answers wrong places, and
only never misses. `strtok` goes on from a static index that no call ever resets, in whatever string it is given, so that what a later call or a
second string gets depends on the calls before; `TokensBeginRight` counts from that index. It writes a token from the start of its block and the terminator where the
token ended in the string: later tokens end in what the block held (`Garbage`), and without delimiters nothing but the terminator is written. The
block has `BlockSize` characters, 100 in the code; when the terminator falls behind it, the behaviour ends as "overrun", in the state before the call. The terminator
has the largest index of all that are stored at, so when it fits everything does. That `malloc` rounds 100 bytes up to 112, so that the first overruns do no harm, is disregarded, and it is
taken to succeed. The properties say what a caller can still count on, and `WritesExactly` for `strcat` both ways: the text is right just when the space held zeros.

### DoubleWords, DoubleFunctions and Mathematics

A double is a record of its two words; `E` and `H` are the bits of exponent and of the fraction's upper part (11 and 20),
and every literal of the source is written in terms of them. `Signed` is a word read as an `int`, `Wrap` its arithmetic,
which wraps as the kernel is built without optimisation; `BitOr`, for the `|` of two halves, adds the bits up one by one. `RangeAssumption` says
what `two54` is for: any number times it is normal. `Units` is the number itself, in multiples of the least double, and is what results
are compared with. `sqrt(x, whole)` leaves open what a shift by the whole word gives, which C does not define.

`Mathematics` applies the functions to what they return, and sets `errno` as `ldexp` does. `fmod`, which loops as long
as its numbers make it, is run one turn of a loop at a time: `Reduce` subtracts and doubles,
`Renormalize` makes the rest normal again. Its low words are `int`s, as in the source.

### BinarySearch, Conversions, Digits and Stdlib

Each function runs one turn of its loop per step, and its variables go back to where they began when the caller has the result.

* `bsearch`: the array is what its comparison makes of it, members in front of the key, equal, behind. A
  comparison that is no order may answer anything, each time.
* `strtol` and `strtoul`: a character is the value of its digit (0 to 35) or one of four negative numbers. `exact` is history, the
  number the digits stand for. `strtoul` of what does not fit answers `LONG_MAX`, and `endp` of a text without digits lies
  one behind where it stopped; both are in the model, and no property calls them right.
* `itoa`: digits are appended and turned around at the end. `atoi` and `atol` take every character for a digit, the minus sign and
  letters included, so that they read back only what `WritesNumber` says.

## 3. What is checked

| Run | Question | Result |
|---|---|---|
| `page_frames` | any order of calls on three memory maps, implements `FramePool` | holds |
| `heap` | sound until a merge; two expansions are enough for a request made before | holds |
| `heap_overlap` | no block is granted twice, after a merge | violated |
| `address_space` | from the memory map to the end of the mapped memory | holds |
| `terminal` | handshake, screen, line, every `getc` returns | holds |
| `terminal_cursor` | cursor set over text | holds |
| `timer` | acknowledgement; when a sleep returns, and that it does | holds |
| `terminal_race` | `getc` returns the character echoed | violated |
| `strings` | every string function on every memory, until `strtok` overruns its block | holds |
| `mathematics` | parts and remainders exact, roots and scaling rounded once | holds |
| `mathematics_hang` | `fmod` returns, for numbers that differ in their last places | violated |
| `stdlib` | conversions and search, to the ends of their ranges | holds |

The violated properties are what a C program may expect of the library that
`README.md:51` announces, of one whose `math.h` is listed as done (`lib/libc/TODO.txt:11`), and of a program that runs "the exact same"
(`README.md:35`):

* *heap_overlap.* Free a block in front of a free segment: the two merge, but the
  list still leads through the second. A large `malloc` takes both, a small one then
  takes the second again.
* *terminal_race.* The user answers `getchar` with one key and presses another
  between the test of `isRead` and the read of `buffer`. The screen has the first,
  the program gets the second.
* *mathematics_hang.* `fmod` shifts the first bit of the low word into the high one with its sign, so that a
  remainder that fits in the low word becomes negative, then nothing, and is never normal.

### Bounds

* `page_frames`: low memory of one frame, pages of two bytes (so that the bitmap
  takes several). Three maps: an ordinary one with frames that do not exist, one with a
  hole, one whose size is a multiple of eight, where the bit past the bitmap is a real frame.
  Ranges inside, across and beyond the bitmap. Nothing else is bounded; counters wrap at 64.
* `heap`: pages of three units, the fewest that leave room beside a header, two of them at start, six at most (`MaxPages`).
  Two merges (`MaxMerges`): the second expansion for a request merges, and only a third one, which the property forbids, would be
  the second merge; with one merge the bound itself would stop it. Requests of nothing, one unit, two, and a page: they
  split, fill exactly, leave no room for a header, and need the second expansion. `before` is history: the merges when the
  request was made. It stops at `MaxPages` and in the states of failure, so deadlock is not checked. `heap_overlap` needs one merge.
* `address_space`: tables of four entries, so that sixteen pages already need
  tables at all levels; up to twelve heap pages, which uses up every machine's memory. Maps whose last byte of
  the bitmap is full, nearly full or nearly empty, and one with a hole, with four conventional frames above the sum of its sizes; the kernel low or
  high; three frame buffers. The behaviours end, so deadlock is not checked.
* `terminal`: two by two characters, an array of one, a letter, Enter, Backspace, shift
  pressed and released, and Caps Lock. Two columns are enough for wrapping and deleting at
  both ends, two rows for scrolling. No key count is bounded. `terminal_cursor` has
  fewer keys and sets the cursor home at any time.
* `timer`: a tick of three units, sleeps of nothing, less than a tick, a tick and more than
  two. `MaxTime` stops the clock after three ticks: times are only compared with the time a sleep began and with one tick.
* `strings`: six addresses, so that two texts of two characters and their terminators lie side by side, overlap in every
  way and touch both ends; three characters, the terminator, and two that sums wrap to and from. Every memory is an initial state. The block of
  `strtok` has four characters, so that texts end inside it and behind it; it holds one character everywhere when it is new, or all in turn. A behaviour ends where it is overrun, so deadlock is not checked.
* `mathematics`: four bits of exponent and nine of fraction, two of them in the high word, which leaves seven in the low one, so that both halves
  are shifted into each other, with subnormal numbers of every length; exponents of six bits wrap around as those of `ldexp` do. The low word of
  what `fmod` is given is zero; `mathematics_hang` is about the others, with one bit less in the high word.
* `stdlib`: texts of up to four characters over spaces, signs, the digits of base 4, and the letter of the prefix; longs of
  six bits, whose ends are numbers of two to four digits in the bases used; every int in bases
  with and without digits; arrays of up to twenty members, whose halves are odd and even at every depth.

### Fairness

Three runs have a liveness property that holds. `SleepReturns` of `timer` assumes that the
timer goes on raising its line, that interrupts are delivered and handled, and strong
fairness of the program, which gets on between interrupts as a handler is shorter than a tick. The strong fairness of `Return` says
that a tick does not for ever fall between the load of the time and its comparison, one instruction every sleep.
`GetcReturns` of `terminal`: who waits in `KeyboardReadChar` gets to the read. It assumes weak fairness of the program's own steps: the processor goes
on between interrupts, and `sti` has been executed; and weak fairness of pressing a key
that has a character: nothing but a key ends the spin. The kernel is compiled without
optimisation (`kernel/Makefile` gives no `-O`), so that the loop reads `isRead`
from memory although it is not `volatile`; the mutant `LeaveSpin_Hoisted` is the other case.
`FmodReturns` assumes weak fairness of the steps of `fmod`: the processor goes on with what it has begun. So does `mathematics_hang`.

## 4. What is proved

All theorems hold for every value of the constants that the `ASSUME`s admit.

*PageFrameAllocator_proofs.* `IInv` joins the types, the consistency of the bitmap with
its size, `CursorInv`, `Ownership`, the balance of the counters with the owners, and where the handed frames came from.
`Ownership` alone is not inductive: that a request takes a frame of nobody's needs the bitmap to be the union of the owners, and
the counters need the owners to be finite and apart. From `Invariance` follow the five invariants of the run, and with one lemma per action
`Refinement`: every step is a step of `FramePool` or leaves it unchanged.

*Heap_proofs.* Soundness holds *until the first merge*: `HInv` says that if there was
none, the segments divide the heap, used segments and blocks correspond, the list leads
upwards and its directions agree, and the status is "ok" or "fault". The condition is not for convenience: `heap_overlap`
shows that behind a merge it is false. The crux is `NoHang`: upward links and a finite set of headers end every walk, by the
greatest element of the set that the walk would stay in; and `SplitWellFormed`, `GrownWellFormed`: cutting and
appending keep the division. That `Heap.lastHeader` lags behind the list is part of the invariant: it only drops segments.

Two theorems go further. `TypeCorrect` also holds behind a merge, where headers overwrite each other: `TInv` adds that as long as the
status is "ok" no header lies past the end (what would be written there is what `Verdict` calls "overrun"), and that
no block begins below the first header, so that `free` never takes one for NULL. `AnsweredCorrect` needs `QInv`: every walk that does not stop
earlier comes to `lastHeader` (`OnEveryWalk`), although that pointer may stand in the middle of the list; so what `ExpandHeap`
appends there is found. If the segment there is used, the first expansion puts a free one behind it (`ExpandUsed`); if it is free, the new
pages are merged with it and hold the request together (`ExpandFree`).

*PageFrames_proofs* has what each function of the allocator does to bitmap, cursor and counters, for the two modules over it.

*AddressSpace_proofs.* `Tree` describes the tables: each has a level, an entry above the last level points to a table one level lower,
and no two entries point to the same one. With the arithmetic of indices (`ShiftAndMask`: the shifts of `InitPageMapIndex` and the
processor's fields cut out the same digits; two pages with the same four are the same page) it gives `MappingCorrect`, for every
`Fanout`: what `MapMemory` writes changes one translation, and the tables it adds, being empty, change none.
`AInv` keeps the tree through all of start-up, along with what is mapped in each phase (`MappedInv`), which no less strong invariant would keep apart from the
heap, and with who has which frame (`FramesInv`): each use took its frame out of the pool when nobody had it.
`BInv` is about memory that is not mapped. Before CR3 is loaded the tables are where `RequestPage` starts, at the lowest free
frames, and no more than the mapped pages need; so by `RoomAssumption` they lie below the sum of the sizes (`TablesInMemory`), which is mapped when CR3 is loaded
(`SwitchSafe`). That no other clear frame is mapped needs that the frame buffer's frames stay locked (`LockedInv`). `FailsCorrect` adds what a call takes before it fails
(`FailureLeavesTwo`, `HeapPageFailure`), and that a fault needs a frame that is not mapped.

*Devices_proofs.* For the keyboard: `isRead` is set only while the program spins, and an echo
that no read has taken exists exactly when the spin is over. From that, one echo per read, and no write to the console by the handler at any other time.

For the screen, `ScreenInv` relates console, typed text and line. That the screen shows the buffer is not inductive by itself: drawing only ever adds
pixels, so a character must meet a cleared cell, and that the cells behind the cursor are blank is `HasLine`, which is `BottomRowIsLine` and needs the
types. One lemma says what each function of `Console.c` does to each cell; three more that
`Console_PutChar`, called by program or handler, keeps `HasLine`, `IsDrawn` and `IsCovered`. For the last the position is arbitrary.

For the sleeper of `Timer`: the deadline is followed through locals and registers twice. `Whole`: as
long as no interrupt came it is the start plus what was asked. `Passed`: once the locals are lost, what is
computed from them is at most the present time, or no tick has come yet, or one came in the comparison.
The assumption that two overwritten locals are less than a tick is what makes `Passed` inductive.

*Library_proofs.* `bsearch`: `KeyIsLeft`: what is left lies in the array and, if the comparison is an order and any member is equal, meets the
equal members. `Halves` is the arithmetic of the two ways of halving.

`strtol` and `strtoul`: `AccumulatorIsExact`: the accumulator is the number itself, or that is known to be too large. `Cutoff` is the
crux: by division with remainder, comparing with quotient and limit says whether the next digit leads beyond the
largest, without a product that would wrap. It holds for every width, text and base.

The loops of `itoa`'s readers and of `string.c` are folds, and a fold is defined by choosing a recursive function. `IterateExists` builds that function, one element
longer at a time, for any step function on any set; from it follows, for each fold, what it is after each round (`CopyRounds`, `StandsRounds` and the like).
Induction over the rounds is `EveryRound`, which speaks of a set of numbers, because the library's
induction theorems need an operator that the provers cannot instantiate. All of it holds for every size of the memory and number of characters.

`itoa`: `Dividing` keeps, besides digits and rest, the numbers that result from putting the digits back one by one (`PutBack`); the next
division only puts a new one in front. When nothing is left, they are the partial sums of what the digits stand for, and
those of `atoi` and `atol`, which therefore never wrap. `DigitIs` says that a division cut towards zero takes the same digit off either sign.

`StringsTypeCorrect` and `WritesCorrect`: `MoveIs`, `CopyIs`, `FillIs`, `ConcatenateIs`. A copy upwards is a move unless the destination begins inside the source, since then
no round reads what an earlier one wrote; `strcat` adds, and a sum is the character added only where there was a zero (`AddedIs`), so the zeros that
`AppendsOnlyToClearedSpace` asks for are needed as well as enough (`AppendIs`).
`TokensCorrect`: what ends a call is the end of the text from the index on (`BetweenIs`), so it decides about the overrun; `TokenIs`, for any block and garbage: no character of a token is zero before its end. `ReadsCorrect`: the order of a dictionary is decided at the first place where
two texts differ or one ends (`Parts`, `Decides`), which is where all three comparisons stop. `strstr` calls itself on the rest of the needle; `SearchIs` shows
that its recursion has one answer, as a needle gets shorter, and `FindsStep` that a place where the needle occurs is never passed, and that
the steps back never reach `NULL`.

*Mathematics_proofs.* The widths are powers of two, of which the provers know nothing, not even that 2^(n+1) is twice 2^n: `PowerDoubles` counts the subsets
of n members and of one more. `OrDisjoint` and `OrKeepsLow` say of `BitOr` what the code uses it for: halves that share no bit add up, and the bits below the other operand's are kept.
The proofs look at a double through its `Significand` and its `Power`: `NormalIs`, `WithExponentUnits` and `ShiftedTogether` say what normalising, another exponent and shifting both words
do to these two. `TakesApart`: `modf`, `frexp`, `floor` and `ceil` are exact, for all widths, from `IntegralIs`: clearing the bits behind the point is taking the rest of a division away, in
either word. `TypeCorrect` is not about the shape only: no function leaves the words' range. For that the bits of the root have to fill the low word and no more (`PositiveRootIs`),
and what `ldexp` adds to the exponent must not wrap unless the `int`s do (`ScalbnCases`).

`RoundsOnce` has two halves. `ScalesOnce`, for `scalbn`: `ScalbnUnits` says for each way through the code how many units the result has, and
`NearestScaled`, that rounding to the nearest does not see a common factor, makes the one rounding of the product with `twom54` the rounding of the
exact result. `RootNearest`, for `sqrt`: from turn to turn, what is left, times the turn's bit, is twice what the square of the root so far misses of the number,
and is below twice the root and a bit more. `HighStepIs` keeps this in the upper word, `LowStepIs` in both (`NoCarry`: only
the lower word's first turn carries), so that the bits found are the integral root (`RootsAre`), and one bit more than the
result has decides how it is rounded (`HalfIsNearest`).

`KeepsRemainder` is about `fmod`, for all arguments whose low words are zero, those of the run. Its hypothesis is needed: the code shifts the low words as signed ints, and of
numbers like those of `mathematics_hang` the property is false. `Matches` says that the units of a number are its words, so many places on.
`FmodInv` is inductive: while `fmod` reduces, what is left, with the turns to come as places, has the remainder of the dividend, and is below twice the divisor (`ReducingIs`:
a turn takes the divisor away or not, and doubles);
while it renormalises, the words match the remainder, and each turn takes words and exponent one place on (`MatchesTwice`). `ReductionBegins` is the start, from numbers of any exponent, subnormal ones too,
`MatchesRest` says that matching outlives the division, and `PackedIs` puts words and exponent together again.

*NaturalFacts* has the facts on numbers, powers of two, divisions and finite sets the proofs share.

### Model-checked only

Liveness (`GetcReturns`, `SleepReturns`, `FmodReturns`) is beyond TLAPS with the provers used, which do neither
fairness nor `ENABLED`.

## 5. What is not modelled

* Stack and registers, but for those of `Timer`. Every leaf function of the kernel and the
  library has the problem described there, `HeapSegmentHeader_Split` among them; `Heap` is the code
  without interrupts. Page flags other than present.
* The translation buffer: `MapMemory` never invalidates it, but only maps absent pages once CR3 is loaded.
* `printf`, which prints nothing (`vfprintf` returns 0), `sscanf`, the C++ headers.
* Of the mathematics, the functions that approximate (`exp`, `log`, `pow`, trigonometry): polynomials over doubles, with errors that are a matter of analysis and
  that no small width stands for. Of `stdlib.c`, `atof`, `strtod`, `abs`, `div` and `rand`, and the
  sums of `calloc`; of `ctype.c` all but the classes that the conversions read by.
* `realloc`, which frees the old block, copies and returns the old address (`stdlib.c:210`). Over a heap that is unsound behind a merge there is little to state.
* The remapping and masks of the interrupt controller (IRQ 12 is unmasked and has no gate, `kernel.c:129`), the frame of the interrupt table, which nothing
  clears (`kernel.c:66`), the divisor of the timer, cut to 16 bits (`PIT.c:11`).
* ACPI and PCI, which are never called (`FindTable` indexes the signature with the table's number, `ACPI.c:14`), and the boot loader, which ignores the status of
  `ExitBootServices` (`bootloader/main.c:162`).

## 6. Plan

1. `FramePool`, `PageFrames`, `PageFrameAllocator`, with proofs. *Done.*
2. `Heap`, with proofs. *Done.*
3. `AddressSpace`, with proofs. *Done.*
4. `Console`, `Terminal`, handshake, screen and line proved. *Done.*
5. `Timer`. *Done*, with proofs, for a constant divisor; frequency and divisor in 16 bits to come.
6. `Strings`, with proofs. *Done.*
7. `DoubleWords`, `DoubleFunctions`, `Mathematics`. *Done* for what is exact or rounded once, with proofs, `fmod`'s remainder where the low words are zero.
8. `BinarySearch`, `Conversions`, `Digits`, `Stdlib`, with proofs. *Done*; `strtod` to come.
9. `LibcHeap`: `realloc` and `calloc` over an abstract heap that `Heap` implements until a merge.
10. `Interrupts`: unmasked lines without gates, remapping, panic.
11. `BootLoader`: the hand-over: memory map against allocations made after it, status codes ignored.
12. `Enumeration`: `ACPI_FindTable`, the buses, devices and functions of `EnumeratePCI`, each once and mapped before it is read.
