------------------------------ MODULE Strings ------------------------------
(***************************************************************************)
(* The functions of lib/libc/src/string.c on a memory of characters.       *)
(* What only reads is an operator on the memory, what writes is an         *)
(* operator that yields the memory after it and an action that calls it.   *)
(* The loops that write are run index by index, as in the source, because  *)
(* source and destination may overlap and because strcat reads what it     *)
(* writes over.                                                            *)
(*                                                                         *)
(* A behaviour ends as "overrun" where strtok stores behind the block that *)
(* it got from malloc.  The state is then the one before that call.        *)
(***************************************************************************)
EXTENDS Integers, SequencesExt

CONSTANTS
  Size,          (* the addresses are 1 .. Size; 0 is NULL                *)
  ByteLimit,     (* the characters are 0 .. ByteLimit - 1: 256 on x86     *)
  BlockSize,     (* characters that strtok asks malloc for: 100           *)
  Garbage        (* what such a block may hold when malloc returns it     *)

ASSUME StringAssumption == Size \in Nat \ {0} /\ ByteLimit \in Nat \ {0, 1}

ASSUME BlockAssumption ==
  /\ BlockSize \in Nat \ {0}
  /\ Garbage \subseteq [0 .. BlockSize - 1 -> 0 .. ByteLimit - 1]

VARIABLES
  memory,
  currIndex,     (* strtok: the static index of the next token            *)
  call           (* what the last call was, until its caller goes on      *)

stringVars == <<memory, currIndex, call>>

NULL      == 0
Addresses == 1 .. Size
Bytes     == 0 .. ByteLimit - 1
Memories  == [Addresses -> Bytes]

(* What i runs through in for (i = 0; i < n; i++). *)
Indices(n) == [k \in 1 .. n |-> k - 1]

FirstOf(set, none) == IF set = {} THEN none ELSE Min(set)

IsString(m, p) == \E q \in p .. Size : m[q] = 0
Strings(m)     == {p \in Addresses : IsString(m, p)}
strlen(m, p)   == Min({n \in 0 .. Size - p : m[p + n] = 0})
Inside(m, p)   == p .. p + strlen(m, p) - 1
Text(m, p)     == [i \in 1 .. strlen(m, p) |-> m[p + i - 1]]
-----------------------------------------------------------------------------
(***************************************************************************)
(* Searching.                                                              *)
(***************************************************************************)
strchr(m, source, value)  == FirstOf({p \in Inside(m, source) : m[p] = value}, NULL)

strrchr(m, source, value) ==
  LET found == {p \in Inside(m, source) : m[p] = value}
  IN  IF found = {} THEN NULL ELSE Max(found)

strpbrk(m, source, accept) ==
  FirstOf({p \in Inside(m, source) : strchr(m, accept, m[p]) # NULL}, NULL)

memchr(m, src, value, size) == FirstOf({p \in src .. src + size - 1 : m[p] = value}, NULL)

strspn(m, source, accept) ==
  FirstOf({n \in 0 .. strlen(m, source) - 1 :
             \A q \in Inside(m, accept) : m[q] # m[source + n]}, strlen(m, source))

strcspn(m, source, reject) ==
  FirstOf({n \in 0 .. strlen(m, source) - 1 : strchr(m, reject, m[source + n]) # NULL},
          strlen(m, source))

(* Mutant: after a character the search goes on one too far. *)
strstr_Skips(m, haystack, needle) ==
  LET search[n \in Strings(m)] == [h \in Strings(m) |->
        IF m[n] = 0 THEN h ELSE
        LET hit == FirstOf({p \in Inside(m, h) : m[p] = m[n]}, NULL)
        IN  IF hit = NULL \/ m[hit + 1] = 0 THEN NULL ELSE
            LET pointer == search[n + 1][hit + 2]
            IN  IF pointer = NULL THEN NULL ELSE pointer - 1]
  IN  search[needle][haystack]

(* The rest of the needle is searched for anywhere behind its first        *)
(* character, and the answer is moved back by one for each character.      *)
strstr(m, haystack, needle) ==
  LET search[n \in Strings(m)] == [h \in Strings(m) |->
        IF m[n] = 0 THEN h ELSE
        LET hit == FirstOf({p \in Inside(m, h) : m[p] = m[n]}, NULL)
        IN  IF hit = NULL THEN NULL ELSE
            LET pointer == search[n + 1][hit + 1]
            IN  IF pointer = NULL THEN NULL ELSE pointer - 1]
  IN  search[needle][haystack]
-----------------------------------------------------------------------------
(***************************************************************************)
(* Comparing: the difference at the first index where a loop stops.        *)
(***************************************************************************)
Stops(m, p, q, size) == {i \in 0 .. size - 1 : m[p + i] = 0 \/ m[p + i] # m[q + i]}
Difference(m, p, q, i) == m[p + i] - m[q + i]

strcmp(m, p, q) ==
  Difference(m, p, q, Min(Stops(m, p, q, 1 + Min({strlen(m, p), strlen(m, q)}))))

strncmp(m, p, q, size) ==
  LET stop == FirstOf(Stops(m, p, q, size), size)
  IN  IF stop = size THEN 0 ELSE Difference(m, p, q, stop)

memcmp(m, p, q, size) ==
  LET stop == FirstOf({i \in 0 .. size - 1 : m[p + i] # m[q + i]}, size)
  IN  IF stop = size THEN 0 ELSE IF m[p + stop] > m[q + stop] THEN 1 ELSE -1
-----------------------------------------------------------------------------
(***************************************************************************)
(* Writing.                                                                *)
(***************************************************************************)
(* A character is added to what the destination holds there. *)
Concatenate(m, dest, src, n) ==
  LET end == dest + strlen(m, dest)
      Add(w, i) == [w EXCEPT ![end + i] = (@ + w[src + i]) % ByteLimit]
  IN  [FoldLeft(Add, m, Indices(n)) EXCEPT ![end + n] = 0]

Copy(m, dest, src, n) ==
  LET Assign(w, i) == [w EXCEPT ![dest + i] = w[src + i]] IN FoldLeft(Assign, m, Indices(n))

(* Mutant: there is no temporary block. *)
Move_InPlace(m, dest, src, n) == Copy(m, dest, src, n)

Move(m, dest, src, n) ==
  LET temp == [i \in 0 .. n - 1 |-> m[src + i]]
      Assign(w, i) == [w EXCEPT ![dest + i] = temp[i]]
  IN  FoldLeft(Assign, m, Indices(n))

Fill(m, src, value, n) ==
  LET Assign(w, i) == [w EXCEPT ![src + i] = value] IN FoldLeft(Assign, m, Indices(n))

Idle == [f |-> "none", dest |-> NULL, src |-> NULL, size |-> 0, result |-> NULL]

Record(f, dest, src, size, result) ==
  call' = [f |-> f, dest |-> dest, src |-> src, size |-> size, result |-> result]

(* The source ends before the destination, or the other way around, and    *)
(* what is appended fits.                                                  *)
Appendable(dest, src, n) ==
  LET last == dest + strlen(memory, dest) + n
  IN  last <= Size /\ (src + strlen(memory, src) < dest \/ last < src)

strcat(dest, src) ==
  /\ {dest, src} \subseteq Strings(memory)
  /\ Appendable(dest, src, strlen(memory, src))
  /\ memory' = Concatenate(memory, dest, src, strlen(memory, src))
  /\ Record("strcat", dest, src, strlen(memory, src), dest)
  /\ UNCHANGED currIndex

strncat(dest, src, size) ==
  LET n == Min({size, strlen(memory, src)}) IN
  /\ {dest, src} \subseteq Strings(memory)
  /\ Appendable(dest, src, n)
  /\ memory' = Concatenate(memory, dest, src, n)
  /\ Record("strncat", dest, src, n, dest)
  /\ UNCHANGED currIndex

(* Only a text of the same length is replaced. *)
strcpy(dest, src) ==
  LET n == strlen(memory, src) + 1 IN
  /\ {dest, src} \subseteq Strings(memory)
  /\ dest + n <= src \/ src + n <= dest
  /\ IF strlen(memory, dest) = strlen(memory, src)
       THEN memory' = Copy(memory, dest, src, n) /\ Record("strcpy", dest, src, n, dest)
       ELSE UNCHANGED memory /\ Record("strcpy", dest, src, n, NULL)
  /\ UNCHANGED currIndex

Fits(p, n) == p + n - 1 <= Size

strncpy(dest, src, size) ==
  /\ Fits(dest, size) /\ Fits(src, size)
  /\ memory' = Copy(memory, dest, src, size)
  /\ Record("strncpy", dest, src, size, dest)
  /\ UNCHANGED currIndex

memcpy(dest, src, n) ==
  /\ Fits(dest, n) /\ Fits(src, n)
  /\ memory' = Copy(memory, dest, src, n)
  /\ Record("memcpy", dest, src, n, dest)
  /\ UNCHANGED currIndex

(* The temporary block comes from malloc, which is taken to succeed. *)
memmove(dest, src, size) ==
  /\ Fits(dest, size) /\ Fits(src, size)
  /\ memory' = Move(memory, dest, src, size)
  /\ Record("memmove", dest, src, size, dest)
  /\ UNCHANGED currIndex

memset(src, value, size) ==
  /\ Fits(src, size)
  /\ memory' = Fill(memory, src, value, size)
  /\ Record("memset", src, value, size, src + size)
  /\ UNCHANGED currIndex
-----------------------------------------------------------------------------
(***************************************************************************)
(* strtok.  The token is written from the start of a fresh block, but its  *)
(* terminator at the index that the token ends at in the string.  malloc   *)
(* is taken to succeed and to give BlockSize characters, no more.          *)
(***************************************************************************)
IsDelimiter(m, delm, c) == strchr(m, delm, c) # NULL

TokenEnd(m, src, delm, from) ==
  Min({i \in from .. Size - src : m[src + i] = 0 \/ IsDelimiter(m, delm, m[src + i])})

(* The indices of the block that a character is stored at.  A delimiter    *)
(* other than the first is stored before it is recognised, and without any *)
(* delimiters nothing is.                                                  *)
Stored(m, src, delm, from) ==
  LET end == TokenEnd(m, src, delm, from)
  IN  {k \in 0 .. end - from :
         m[delm] # 0 /\ (k = end - from => m[src + end] \notin {0, m[delm]})}

(* Mutant: the token is written at the index it has in the string. *)
Block_SameIndex(m, src, delm, from, garbage) ==
  LET end == TokenEnd(m, src, delm, from)
  IN  [k \in 0 .. BlockSize - 1 |->
         IF k = end THEN 0 ELSE IF k \in from .. end THEN m[src + k] ELSE garbage[k]]

Block(m, src, delm, from, garbage) ==
  [k \in 0 .. BlockSize - 1 |->
     IF k = TokenEnd(m, src, delm, from) THEN 0
     ELSE IF k \in Stored(m, src, delm, from) THEN m[src + from + k]
     ELSE garbage[k]]

Token(block) ==
  LET length == Min({k \in DOMAIN block : block[k] = 0})
  IN  [i \in 1 .. length |-> block[i - 1]]

(* Mutant: the next token begins one character too late. *)
AfterToken_SkipsOne(end) == end + 2

AfterToken(end) == end + 1

(* The terminator is stored last, at the largest index of all.  NULL, at   *)
(* the end of the string, is an empty result here.                         *)
strtok(src, delm, garbage) ==
  LET end == TokenEnd(memory, src, delm, currIndex) IN
  /\ {src + currIndex, delm} \subseteq Strings(memory)
  /\ UNCHANGED memory
  /\ IF memory[src + currIndex] = 0
       THEN Record("strtok", src, delm, 0, <<>>) /\ UNCHANGED currIndex
       ELSE IF end >= BlockSize
       THEN Record("overrun", src, delm, currIndex, <<>>) /\ UNCHANGED currIndex
       ELSE /\ Record("strtok", src, delm, currIndex,
                    Token(Block(memory, src, delm, currIndex, garbage)))
            /\ currIndex' = AfterToken(end)
-----------------------------------------------------------------------------
InitStrings ==
  /\ memory \in Memories
  /\ currIndex = 0
  /\ call = Idle

Return ==
  /\ call # Idle /\ call.f # "overrun"
  /\ call' = Idle
  /\ UNCHANGED <<memory, currIndex>>

CallOne ==
  /\ call = Idle
  /\ \/ \E p, q \in Addresses : strcat(p, q) \/ strcpy(p, q)
     \/ \E p, q \in Addresses, n \in 0 .. Size :
          strncat(p, q, n) \/ strncpy(p, q, n) \/ memcpy(p, q, n) \/ memmove(p, q, n)
     \/ \E p \in Addresses, c \in Bytes, n \in 0 .. Size : memset(p, c, n)
     \/ \E p, q \in Addresses, garbage \in Garbage : strtok(p, q, garbage)

NextStrings == CallOne \/ Return

StringsSpec == InitStrings /\ [][NextStrings]_stringVars
-----------------------------------------------------------------------------
(* The memory holds characters, and the index of strtok is never behind    *)
(* the block by more than one.                                             *)
TypeOK ==
  /\ memory \in Memories
  /\ currIndex \in 0 .. BlockSize
  /\ call.f \in {"none", "strcat", "strncat", "strcpy", "strncpy", "memcpy", "memmove",
                 "memset", "strtok", "overrun"}

Precedes(s, t) ==
  \E i \in 1 .. Len(t) :
    /\ i <= Len(s) + 1 /\ SubSeq(s, 1, i - 1) = SubSeq(t, 1, i - 1)
    /\ i <= Len(s) => s[i] < t[i]

Sign(n) == IF n < 0 THEN -1 ELSE IF n > 0 THEN 1 ELSE 0

(* strcmp and strncmp order texts, and their prefixes, as a dictionary     *)
(* does, and memcmp agrees with them over a text and its terminator.       *)
ComparesAsDictionary ==
  call = Idle =>
    \A p, q \in Strings(memory) :
      LET s == Text(memory, p)
          t == Text(memory, q)
      IN  /\ strcmp(memory, p, q) < 0 <=> Precedes(s, t)
          /\ strcmp(memory, p, q) = 0 <=> s = t
          /\ strcmp(memory, p, q) > 0 <=> Precedes(t, s)
          /\ \A n \in 0 .. 1 + Min({Len(s), Len(t)}) :
               LET difference == strncmp(memory, p, q, n)
                   a == SubSeq(s, 1, Min({n, Len(s)}))
                   b == SubSeq(t, 1, Min({n, Len(t)}))
               IN  (difference < 0 <=> Precedes(a, b)) /\ (difference = 0 <=> a = b)
          /\ Sign(strcmp(memory, p, q)) = memcmp(memory, p, q, 1 + Min({Len(s), Len(t)}))

(* strspn, strcspn, strpbrk, strchr, strrchr and memchr, which are loops   *)
(* of their own, agree on where the characters of a text are.              *)
SearchesAgree ==
  call = Idle =>
    \A p, q \in Strings(memory) :
      LET accepted == strspn(memory, p, q)
          rejected == strcspn(memory, p, q)
          length   == strlen(memory, p)
          c        == memory[q]
      IN  /\ length > 0 => (accepted = 0) # (rejected = 0)
          /\ strpbrk(memory, p, q) = IF rejected = length THEN NULL ELSE p + rejected
          /\ strcspn(memory, p + accepted, q) = 0 => accepted = length
          /\ strspn(memory, p + rejected, q) = 0 => rejected = length
          /\ strchr(memory, p, c) = memchr(memory, p, c, length)
          /\ strrchr(memory, p, c) # NULL =>
               /\ strchr(memory, p, c) \in p .. strrchr(memory, p, c)
               /\ strchr(memory, strrchr(memory, p, c) + 1, c) = NULL

Occurs(m, p, q) == IsPrefix(Text(m, q), Text(m, p))

(* strstr never misses: when the needle occurs it answers something, if    *)
(* not always a place where it does.                                       *)
FindsWhatOccurs ==
  call = Idle =>
    \A h, n \in Strings(memory) :
      (\E p \in h .. h + strlen(memory, h) : Occurs(memory, p, n)) =>
        strstr(memory, h, n) # NULL

(* The functions that read, each a loop of its own with an end condition   *)
(* of its own, say the same of every memory.                               *)
ReadsAgree == ComparesAsDictionary /\ SearchesAgree /\ FindsWhatOccurs

Overtakes(dest, src, n) == src < dest /\ dest < src + n

(* The memory with n characters from dest on that were at src. *)
With(dest, src, n) ==
  [a \in Addresses |->
     IF a \in dest .. dest + n - 1 THEN memory[src + a - dest] ELSE memory[a]]

(* The memory with one character n times from dest on. *)
Filled(dest, value, n) ==
  [a \in Addresses |-> IF a \in dest .. dest + n - 1 THEN value ELSE memory[a]]

MovesBytes ==
  LET dest == call'.dest
      src  == call'.src
      n    == call'.size
  IN  call'.f \in {"memmove", "memcpy", "strncpy"} =>
        /\ call'.f = "memmove" \/ ~ Overtakes(dest, src, n) => memory' = With(dest, src, n)
        /\ \A a \in Addresses \ (dest .. dest + n - 1) : memory'[a] = memory[a]

CopiesOnlyEqualLength ==
  LET dest == call'.dest
      src  == call'.src
      same == strlen(memory, dest) = strlen(memory, src)
  IN  call'.f = "strcpy" =>
        /\ memory' = IF same THEN With(dest, src, strlen(memory, src) + 1) ELSE memory
        /\ call'.result = IF same THEN dest ELSE NULL

(* The value that memset was given is in the place of a source. *)
FillsBytes ==
  call'.f = "memset" =>
    /\ memory' = Filled(call'.dest, call'.src, call'.size)
    /\ call'.result = call'.dest + call'.size

Appended(dest, src, n) == Text(memory, dest) \o SubSeq(Text(memory, src), 1, n)

Clear(from, to) == \A a \in from .. to : memory[a] = 0

AppendsOnlyToClearedSpace ==
  LET end == call'.dest + strlen(memory, call'.dest)
      n   == call'.size
  IN  call'.f \in {"strcat", "strncat"} =>
        /\ Clear(end, end + n - 1) <=>
             Text(memory', call'.dest) = Appended(call'.dest, call'.src, n)
        /\ \A a \in Addresses \ (end .. end + n) : memory'[a] = memory[a]

(* What each function that writes leaves in memory.  memmove moves what    *)
(* was there, however the blocks overlap, memcpy and strncpy too unless    *)
(* the destination begins inside the source.  strcpy copies a text over    *)
(* one of the same length only, and else answers NULL.  memset fills its   *)
(* block.  strcat and strncat append what they should if, and only if, the *)
(* space they write over holds zeros.  No other byte ever changes.         *)
WritesExactly ==
  [][/\ MovesBytes
     /\ CopiesOnlyEqualLength
     /\ FillsBytes
     /\ AppendsOnlyToClearedSpace
     /\ call'.f \in {"none", "strtok", "overrun"} => memory' = memory]_stringVars

Between(src, delm, from) ==
  LET text == Text(memory, src + from)
      Ends(n) == n = Len(text) \/ \E q \in Inside(memory, delm) : memory[q] = text[n + 1]
  IN  SubSeq(text, 1, Min({n \in 0 .. Len(text) : Ends(n)}))

(* The text up to the next delimiter is counted from the index that the    *)
(* calls before have left, whatever string they were given, for nothing    *)
(* ever resets it.  From there strtok passes over that text and what ends  *)
(* it, and nothing else.  The token begins with that text, and is exactly  *)
(* it if no token came before; behind the others, and where there are no   *)
(* delimiters, it shows what the block held.  The block is overrun when,   *)
(* and only when, that text ends at an index outside the block.            *)
TokensBeginRight ==
  [][LET text == Between(call'.dest, call'.src, currIndex)
         end  == currIndex + Len(text)
     IN  call'.f \in {"strtok", "overrun"} /\ memory[call'.dest + currIndex] # 0 =>
           /\ call'.f = "overrun" <=> end >= BlockSize
           /\ call'.f = "strtok" =>
                /\ currIndex' = end + 1
                /\ memory[call'.src] # 0 =>
                     /\ IsPrefix(text, call'.result)
                     /\ currIndex = 0 => call'.result = text]_stringVars
=============================================================================
