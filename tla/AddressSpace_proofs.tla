------------------------ MODULE AddressSpace_proofs ------------------------
(***************************************************************************)
(* Proofs about the page tables and the start of the kernel, for every     *)
(* machine it can be started on, every size of a table and any number of   *)
(* heap pages.                                                             *)
(***************************************************************************)
EXTENDS AddressSpace, PageFrames_proofs

(***************************************************************************)
(* Numbers: the four indices of a page.                                    *)
(***************************************************************************)

(* Shifting twice is shifting by the product, and the digit that a shift   *)
(* and a mask cut out is the one that masking first and shifting then does.*)
LEMMA ShiftAndMask ==
  ASSUME NEW n \in Nat, NEW s \in Nat, s > 0
  PROVE  /\ n \div (Fanout * s) = (n \div s) \div Fanout
         /\ (n % (Fanout * s)) \div s = (n \div s) % Fanout
         /\ Fanout * s \in Nat /\ Fanout * s > 0
<1> DEFINE h == n \div s
           r == n % s
           q == h \div Fanout
           a == h % Fanout
<1>1. Fanout \in Nat /\ Fanout > 0
  BY FanoutAssumption
<1>2. h \in Nat /\ r \in 0 .. (s - 1) /\ n = h * s + r
  BY Quotients
<1> HIDE DEF h, r
<1>3. q \in Nat /\ a \in 0 .. (Fanout - 1) /\ h = q * Fanout + a
  BY <1>1, <1>2, Quotients
<1> HIDE DEF q, a
<1> DEFINE m == a * s + r
<1>4. m \in 0 .. (Fanout * s - 1) /\ Fanout * s \in Nat /\ Fanout * s > 0
  <2>1. a * s \in Nat /\ (a + 1) * s =< Fanout * s /\ Fanout * s \in Nat
    BY <1>1, <1>3, ProductGrows
  <2>2. (a + 1) * s = a * s + s
    BY <1>3
  <2> QED BY <1>2, <2>1, <2>2
<1>5. n = q * (Fanout * s) + m
  <2>1. h * s = (q * Fanout) * s + a * s
    BY <1>1, <1>3
  <2>2. (q * Fanout) * s = q * (Fanout * s)
    BY <1>1, <1>3
  <2>3. /\ q * (Fanout * s) \in Nat /\ a * s \in Nat
    BY <1>1, <1>3
  <2> QED BY <1>2, <2>1, <2>2, <2>3
<1>6. m \in Nat /\ Fanout * s \in Nat
  BY <1>4
<1>7. m \div s = a
  <2>1. PICK x \in Nat : x = m
    BY <1>6
  <2>2. x = a * s + r
    BY <2>1
  <2>3. x \div s = a
    <3>1. a \in Nat /\ r \in 0 .. (s - 1)
      BY <1>1, <1>2, <1>3
    <3> HIDE DEF m
    <3> QED BY <2>2, <3>1, Euclid, Zenon
  <2> QED BY <2>1, <2>3
<1> HIDE DEF m
<1>8. n \div (Fanout * s) = q /\ n % (Fanout * s) = m
  <2>1. PICK d \in Nat : d = Fanout * s
    BY <1>6
  <2>2. d > 0 /\ m \in 0 .. (d - 1) /\ n = q * d + m
    BY <1>4, <1>5, <2>1
  <2>3. n \div d = q /\ n % d = m
    BY <1>3, <2>2, Euclid
  <2> QED BY <2>1, <2>3
<1>9. h = n \div s
  BY DEF h
<1>10. q = (n \div s) \div Fanout /\ a = (n \div s) % Fanout
  BY <1>9 DEF q, a
<1> QED BY <1>4, <1>7, <1>8, <1>10

LEMMA SpanFacts ==
  /\ Span(0) = 1 /\ Span(1) = Fanout * Span(0) /\ Span(2) = Fanout * Span(1)
  /\ Span(3) = Fanout * Span(2) /\ Span(4) = Fanout * Span(3)
  /\ \A k \in 0 .. 4 : Span(k) \in Nat /\ Span(k) > 0
<1>1. Fanout \in Nat /\ Fanout > 0
  BY FanoutAssumption
<1>2. /\ Span(0) = 1 /\ Span(1) = Fanout /\ Span(2) = Fanout * Fanout
      /\ Span(3) = Fanout * Fanout * Fanout
      /\ Span(4) = Fanout * Fanout * Fanout * Fanout
  BY DEF Span
<1>3. \A x \in Nat : x > 0 => Fanout * x \in Nat /\ Fanout * x > 0
  BY <1>1
<1>4. /\ Span(1) = Fanout * Span(0) /\ Span(2) = Fanout * Span(1)
      /\ Span(3) = Fanout * Span(2) /\ Span(4) = Fanout * Span(3)
  <2>1. \A x \in Nat : x * Fanout = Fanout * x
    BY <1>1
  <2>2. /\ Fanout * Fanout \in Nat /\ (Fanout * Fanout) * Fanout \in Nat
        /\ Fanout * 1 = Fanout
    BY <1>1
  <2> QED BY <1>2, <2>1, <2>2
<1>5. \A k \in 0 .. 4 : k = 0 \/ k = 1 \/ k = 2 \/ k = 3 \/ k = 4
  OBVIOUS
<1> QED BY <1>2, <1>3, <1>4, <1>5

(* The index of a level, as the code computes it and as the processor does.*)
LEMMA IndexFacts ==
  ASSUME NEW v \in Nat, NEW k \in 0 .. 3
  PROVE  /\ Index(v, k) \in 0 .. (Fanout - 1)
         /\ (v % Span(k + 1)) \div Span(k) = Index(v, k)
         /\ v \div Span(k + 1) = (v \div Span(k)) \div Fanout
         /\ v \div Span(k) \in Nat
         /\ v \div Span(k) = (v \div Span(k + 1)) * Fanout + Index(v, k)
<1>1. PICK s \in Nat : s = Span(k) /\ Span(k + 1) = Fanout * s /\ s > 0
  BY SpanFacts
<1>2. /\ v \div (Fanout * s) = (v \div s) \div Fanout
      /\ (v % (Fanout * s)) \div s = (v \div s) % Fanout
      /\ v \div s \in Nat
  BY <1>1, ShiftAndMask, Quotients
<1>3. Fanout \in Nat /\ Fanout > 0
  BY FanoutAssumption
<1>4. PICK h \in Nat : h = v \div s
  BY <1>2
<1>5. /\ h % Fanout \in 0 .. (Fanout - 1)
      /\ h = (h \div Fanout) * Fanout + (h % Fanout)
  BY <1>3, Quotients
<1>6. /\ Index(v, k) = h % Fanout
      /\ v \div Span(k) = h
      /\ v \div Span(k + 1) = h \div Fanout
      /\ (v % Span(k + 1)) \div Span(k) = h % Fanout
  BY <1>1, <1>2, <1>4 DEF Index
<1> QED BY <1>5, <1>6

(* A page is known by its four indices.                                    *)
LEMMA IndicesDetermine ==
  ASSUME NEW v \in Pages, NEW w \in Pages,
         \A k \in 0 .. 3 : Index(v, k) = Index(w, k)
  PROVE  v = w
<1>1. v \in Nat /\ w \in Nat /\ v < Span(4) /\ w < Span(4) /\ Span(4) \in Nat
  BY SpanFacts DEF Pages
<1>2. v \div Span(4) = 0 /\ w \div Span(4) = 0
  <2>1. \A x \in 0 .. (Span(4) - 1) : x \div Span(4) = 0
    <3> SUFFICES ASSUME NEW x \in 0 .. (Span(4) - 1) PROVE x \div Span(4) = 0
      OBVIOUS
    <3>1. 0 * Span(4) = 0 /\ Span(4) > 0
      BY <1>1, SpanFacts
    <3> QED BY <1>1, <3>1, Euclid
  <2> QED BY <1>1, <2>1
<1>3. v \div Span(3) = w \div Span(3)
  BY <1>1, <1>2, IndexFacts
<1>4. v \div Span(2) = w \div Span(2)
  BY <1>1, <1>3, IndexFacts
<1>5. v \div Span(1) = w \div Span(1)
  BY <1>1, <1>4, IndexFacts
<1>6. v \div Span(0) = w \div Span(0)
  BY <1>1, <1>5, IndexFacts
<1>7. v \div 1 = v /\ w \div 1 = w
  BY <1>1
<1> QED BY <1>6, <1>7, SpanFacts
-----------------------------------------------------------------------------
(***************************************************************************)
(* The tables as a tree: what a write of one entry and a new table do.     *)
(***************************************************************************)
Indices == 0 .. (Fanout - 1)

TablesOf(s) == DOMAIN s.tables

(* Every table is in memory with all its entries. *)
Shape(s) ==
  /\ s = [alloc |-> s.alloc, tables |-> s.tables, root |-> s.root]
  /\ TablesOf(s) \subseteq Nat
  /\ s.tables \in [TablesOf(s) -> [Indices -> Int]]

(* The entry that MapMemory writes last. *)
Written(s, t, i, f) == [s EXCEPT !.tables[t][i] = f]

(* An entry is written, and no other changes.                              *)
LEMMA WriteEntry ==
  ASSUME NEW s, Shape(s), NEW t \in TablesOf(s), NEW i \in Indices, NEW f \in Int,
         NEW u, u = Written(s, t, i, f)
  PROVE  /\ Shape(u) /\ TablesOf(u) = TablesOf(s)
         /\ u.alloc = s.alloc /\ u.root = s.root
         /\ Entry(u, t, i) = f
         /\ \A x \in TablesOf(s) \cup {Absent}, j \in Indices :
              x # t \/ j # i => Entry(u, x, j) = Entry(s, x, j)
<1>1. PICK T : T = s.tables
  OBVIOUS
<1>2. PICK D : D = TablesOf(s)
  OBVIOUS
<1>3. /\ T \in [D -> [Indices -> Int]] /\ D \subseteq Nat /\ t \in D
      /\ s = [alloc |-> s.alloc, tables |-> T, root |-> s.root]
  BY <1>1, <1>2 DEF Shape
<1>4. PICK U : U = [T EXCEPT ![t][i] = f]
  OBVIOUS
<1>5. /\ U \in [D -> [Indices -> Int]]
      /\ \A x \in D, j \in Indices : U[x][j] = IF x = t /\ j = i THEN f ELSE T[x][j]
  BY <1>3, <1>4
<1>6. u = [alloc |-> s.alloc, tables |-> U, root |-> s.root]
  BY <1>1, <1>3, <1>4 DEF Written
<1>7. /\ u.tables = U /\ u.alloc = s.alloc /\ u.root = s.root
      /\ u = [alloc |-> u.alloc, tables |-> u.tables, root |-> u.root]
  BY <1>6
<1>8. TablesOf(u) = D
  BY <1>5, <1>7 DEF TablesOf
<1>9. Shape(u)
  BY <1>3, <1>5, <1>7, <1>8 DEF Shape
<1>10. Entry(u, t, i) = f
  <2>1. t # Absent
    BY <1>3 DEF Absent
  <2> QED BY <1>3, <1>5, <1>7, <2>1 DEF Entry
<1>11. ASSUME NEW x \in D \cup {Absent}, NEW j \in Indices, x # t \/ j # i
       PROVE  Entry(u, x, j) = Entry(s, x, j)
  <2>1. CASE x = Absent
    BY <2>1 DEF Entry
  <2>2. CASE x # Absent
    <3>1. Entry(u, x, j) = U[x][j] /\ Entry(s, x, j) = T[x][j] /\ x \in D
      BY <1>1, <1>7, <2>2 DEF Entry
    <3> QED BY <1>5, <1>11, <3>1
  <2> QED BY <2>1, <2>2
<1> QED BY <1>2, <1>7, <1>8, <1>9, <1>10, <1>11

(* A table is added at the frame that is requested, with no entry present, *)
(* and one entry, of a table that was there, points to it.                 *)
LEMMA AddTableEntries ==
  ASSUME NEW s, Shape(s), NEW t \in TablesOf(s), NEW i \in Indices,
         Requested(s) \in Nat, Requested(s) \notin TablesOf(s),
         NEW u, u = AddTable(s, t, i)
  PROVE  /\ Shape(u) /\ TablesOf(u) = TablesOf(s) \cup {Requested(s)}
         /\ u.alloc = Grant(s.alloc) /\ u.root = s.root
         /\ \A j \in Indices : Entry(u, Requested(s), j) = Absent
         /\ \A x \in TablesOf(s) \cup {Absent}, j \in Indices :
              Entry(u, x, j) = IF x = t /\ j = i THEN Requested(s) ELSE Entry(s, x, j)
<1>1. PICK new \in Nat : new = Requested(s)
  OBVIOUS
<1>2. PICK T : T = s.tables
  OBVIOUS
<1>3. PICK D : D = TablesOf(s)
  OBVIOUS
<1>4. /\ T \in [D -> [Indices -> Int]] /\ D \subseteq Nat /\ t \in D /\ new \notin D
      /\ s = [alloc |-> s.alloc, tables |-> T, root |-> s.root] /\ D = DOMAIN T
  BY <1>1, <1>2, <1>3 DEF Shape, TablesOf
<1>5. PICK Z : Z = [f \in D \cup {new} |-> IF f = new THEN EmptyTable ELSE T[f]]
  OBVIOUS
<1>6. EmptyTable \in [Indices -> Int] /\ \A j \in Indices : EmptyTable[j] = Absent
  BY DEF EmptyTable, Indices, Absent
<1>7. /\ Z \in [D \cup {new} -> [Indices -> Int]]
      /\ \A x \in D : Z[x] = T[x]
      /\ Z[new] = EmptyTable
  BY <1>4, <1>5, <1>6
<1>8. PICK U : U = [Z EXCEPT ![t][i] = new]
  OBVIOUS
<1>9. /\ U \in [D \cup {new} -> [Indices -> Int]]
      /\ \A x \in D \cup {new}, j \in Indices :
           U[x][j] = IF x = t /\ j = i THEN new ELSE Z[x][j]
  BY <1>4, <1>7, <1>8
<1>10. u = [alloc |-> Grant(s.alloc), tables |-> U, root |-> s.root]
  <2>1. u = [TakeFrame(s) EXCEPT !.tables = U]
    BY <1>1, <1>2, <1>4, <1>5, <1>8 DEF AddTable
  <2>2. TakeFrame(s) = [alloc |-> Grant(s.alloc), tables |-> T, root |-> s.root]
    BY <1>2, <1>4 DEF TakeFrame
  <2> QED BY <2>1, <2>2
<1>11. /\ u.tables = U /\ u.alloc = Grant(s.alloc) /\ u.root = s.root
       /\ u = [alloc |-> u.alloc, tables |-> u.tables, root |-> u.root]
  BY <1>10
<1>12. TablesOf(u) = D \cup {new}
  BY <1>9, <1>11 DEF TablesOf
<1>13. Shape(u)
  BY <1>4, <1>9, <1>11, <1>12 DEF Shape
<1>14. ASSUME NEW j \in Indices
       PROVE  Entry(u, new, j) = Absent
  <2>1. new # Absent /\ new # t
    BY <1>4 DEF Absent
  <2>2. Entry(u, new, j) = U[new][j]
    BY <1>11, <2>1 DEF Entry
  <2> QED BY <1>6, <1>7, <1>9, <2>1, <2>2
<1>15. ASSUME NEW x \in D \cup {Absent}, NEW j \in Indices
       PROVE  Entry(u, x, j) = IF x = t /\ j = i THEN new ELSE Entry(s, x, j)
  <2>1. CASE x = Absent
    <3>1. x # t
      BY <1>4, <2>1 DEF Absent
    <3> QED BY <2>1, <3>1 DEF Entry
  <2>2. CASE x # Absent
    <3>1. Entry(u, x, j) = U[x][j] /\ Entry(s, x, j) = T[x][j] /\ x \in D
      BY <1>2, <1>11, <2>2 DEF Entry
    <3> QED BY <1>7, <1>9, <3>1
  <2> QED BY <2>1, <2>2
<1> QED BY <1>1, <1>3, <1>11, <1>12, <1>13, <1>14, <1>15

(* lv is the level of each table: the root alone has level 3, what an      *)
(* entry above the last level points to is a table one level lower, and no *)
(* two entries point to the same table.                                    *)
Tree(s, lv) ==
  /\ lv \in [TablesOf(s) -> 0 .. 3]
  /\ s.root \in TablesOf(s) /\ lv[s.root] = 3
  /\ \A t \in TablesOf(s), i \in Indices :
       lv[t] # 0 /\ Entry(s, t, i) # Absent =>
         Entry(s, t, i) \in TablesOf(s) /\ lv[Entry(s, t, i)] = lv[t] - 1
  /\ \A t, u \in TablesOf(s), i, j \in Indices :
       /\ lv[t] # 0 /\ lv[u] # 0
       /\ Entry(s, t, i) # Absent /\ Entry(s, t, i) = Entry(s, u, j)
       => t = u /\ i = j

(* The table of level k that the processor reaches for page v, if any.     *)
Reached(s, v, k) ==
  LET two  == Entry(s, s.root, Index(v, 3))
      one  == Entry(s, two, Index(v, 2))
      zero == Entry(s, one, Index(v, 1))
  IN  IF k = 3 THEN s.root ELSE IF k = 2 THEN two ELSE IF k = 1 THEN one ELSE zero

LEMMA ReachedNext ==
  ASSUME NEW s, NEW v \in Nat
  PROVE  /\ Reached(s, v, 3) = s.root
         /\ \A k \in 1 .. 3 : Reached(s, v, k - 1) = Entry(s, Reached(s, v, k), Index(v, k))
         /\ Translate(s, v) = Entry(s, Reached(s, v, 0), Index(v, 0))
<1>1. \A k \in 0 .. 3 : (v % Span(k + 1)) \div Span(k) = Index(v, k)
  BY IndexFacts
<1>2. /\ Reached(s, v, 3) = s.root
      /\ Reached(s, v, 2) = Entry(s, Reached(s, v, 3), Index(v, 3))
      /\ Reached(s, v, 1) = Entry(s, Reached(s, v, 2), Index(v, 2))
      /\ Reached(s, v, 0) = Entry(s, Reached(s, v, 1), Index(v, 1))
  BY DEF Reached
<1>3. \A k \in 1 .. 3 : Reached(s, v, k - 1) = Entry(s, Reached(s, v, k), Index(v, k))
  <2>1. \A k \in 1 .. 3 : k = 1 \/ k = 2 \/ k = 3
    OBVIOUS
  <2>2. 3 - 1 = 2 /\ 2 - 1 = 1 /\ 1 - 1 = 0
    OBVIOUS
  <2> QED BY <1>2, <2>1, <2>2
<1>4. Translate(s, v) = Entry(s, Reached(s, v, 0), Index(v, 0))
  <2>1. /\ (v % Span(3 + 1)) \div Span(3) = Index(v, 3)
        /\ (v % Span(2 + 1)) \div Span(2) = Index(v, 2)
        /\ (v % Span(1 + 1)) \div Span(1) = Index(v, 1)
        /\ (v % Span(0 + 1)) \div Span(0) = Index(v, 0)
    BY <1>1
  <2> DEFINE Nth(level) == (v % Span(level + 1)) \div Span(level)
  <2>2. Translate(s, v) =
          Entry(s, Entry(s, Entry(s, Entry(s, s.root, Nth(3)), Nth(2)), Nth(1)), Nth(0))
    BY DEF Translate
  <2>3. Nth(3) = Index(v, 3) /\ Nth(2) = Index(v, 2) /\ Nth(1) = Index(v, 1) /\ Nth(0) = Index(v, 0)
    BY <2>1
  <2> HIDE DEF Nth
  <2>4. Reached(s, v, 0) =
          Entry(s, Entry(s, Entry(s, s.root, Index(v, 3)), Index(v, 2)), Index(v, 1))
    BY DEF Reached
  <2> QED BY <2>2, <2>3, <2>4
<1> QED BY <1>2, <1>3, <1>4

LEMMA IndexIsIndex == \A v \in Nat, k \in 0 .. 3 : Index(v, k) \in Indices
BY IndexFacts DEF Indices

(* What is reached is absent, or a table of that level.                    *)
LEMMA ReachedInTree ==
  ASSUME NEW s, NEW lv, Tree(s, lv), NEW v \in Nat
  PROVE  \A k \in 0 .. 3 :
           \/ Reached(s, v, k) = Absent
           \/ Reached(s, v, k) \in TablesOf(s) /\ lv[Reached(s, v, k)] = k
<1> DEFINE P(k) == \/ Reached(s, v, k) = Absent
                   \/ Reached(s, v, k) \in TablesOf(s) /\ lv[Reached(s, v, k)] = k
<1>1. P(3)
  BY ReachedNext DEF Tree
<1>2. ASSUME NEW k \in 1 .. 3, P(k) PROVE P(k - 1)
  <2>1. Reached(s, v, k - 1) = Entry(s, Reached(s, v, k), Index(v, k))
    BY ReachedNext
  <2>2. Index(v, k) \in Indices
    BY IndexIsIndex
  <2>3. CASE Reached(s, v, k) = Absent
    BY <2>1, <2>3 DEF Entry
  <2>4. CASE Reached(s, v, k) # Absent
    BY <1>2, <2>1, <2>2, <2>4 DEF Tree
  <2> QED BY <2>3, <2>4
<1>3. P(2)
  <2>1. P(3 - 1)
    BY <1>1, <1>2
  <2> QED BY <2>1
<1>4. P(1)
  <2>1. P(2 - 1)
    BY <1>2, <1>3
  <2> QED BY <2>1
<1>5. P(0)
  <2>1. P(1 - 1)
    BY <1>2, <1>4
  <2> QED BY <2>1
<1>6. \A k \in 0 .. 3 : k = 0 \/ k = 1 \/ k = 2 \/ k = 3
  OBVIOUS
<1> QED BY <1>1, <1>3, <1>4, <1>5, <1>6

(* A new table is a leaf of the tree: whatever page a walk adds it for, it *)
(* changes nothing that is reached or translated already.                  *)
LEMMA AddKeepsPaths ==
  ASSUME NEW s, Shape(s), NEW lv, Tree(s, lv),
         NEW t \in TablesOf(s), lv[t] # 0,
         NEW i \in Indices, Entry(s, t, i) = Absent,
         Requested(s) \in Nat, Requested(s) \notin TablesOf(s),
         NEW u, u = AddTable(s, t, i)
  PROVE  /\ \E lw : /\ Tree(u, lw)
                    /\ lw[Requested(s)] = lv[t] - 1
                    /\ \A x \in TablesOf(s) : lw[x] = lv[x]
         /\ \A v \in Nat : Translate(u, v) = Translate(s, v)
         /\ \A v \in Nat, k \in 0 .. 3 :
              Reached(s, v, k) # Absent => Reached(u, v, k) = Reached(s, v, k)
<1>1. PICK new \in Nat : new = Requested(s)
  OBVIOUS
<1>2. PICK D : D = TablesOf(s)
  OBVIOUS
<1>3. /\ Shape(u) /\ TablesOf(u) = D \cup {new} /\ u.root = s.root
      /\ \A j \in Indices : Entry(u, new, j) = Absent
      /\ \A x \in D \cup {Absent}, j \in Indices :
           Entry(u, x, j) = IF x = t /\ j = i THEN new ELSE Entry(s, x, j)
  BY <1>1, <1>2, AddTableEntries
<1>4. new \notin D /\ new # Absent /\ t \in D /\ D \subseteq Nat
  BY <1>1, <1>2 DEF Shape, Absent
<1>5. /\ lv \in [D -> 0 .. 3] /\ s.root \in D /\ lv[s.root] = 3
      /\ \A x \in D, j \in Indices :
           lv[x] # 0 /\ Entry(s, x, j) # Absent =>
             Entry(s, x, j) \in D /\ lv[Entry(s, x, j)] = lv[x] - 1
      /\ \A x, y \in D, j, k \in Indices :
           /\ lv[x] # 0 /\ lv[y] # 0
           /\ Entry(s, x, j) # Absent /\ Entry(s, x, j) = Entry(s, y, k)
           => x = y /\ j = k
  BY <1>2 DEF Tree
<1>6. \E lw : /\ Tree(u, lw)
              /\ lw[new] = lv[t] - 1
              /\ \A x \in D : lw[x] = lv[x]
  <2>1. PICK lw : lw = [x \in D \cup {new} |-> IF x = new THEN lv[t] - 1 ELSE lv[x]]
    OBVIOUS
  <2>2. lv[t] - 1 \in 0 .. 3 /\ lv[t] - 1 # 3
    BY <1>4, <1>5
  <2>3. /\ lw \in [D \cup {new} -> 0 .. 3] /\ lw[new] = lv[t] - 1
        /\ \A x \in D : lw[x] = lv[x]
    BY <1>4, <1>5, <2>1, <2>2
  <2>4. u.root \in TablesOf(u) /\ lw[u.root] = 3
    BY <1>3, <1>5, <2>3
  <2>5. ASSUME NEW x \in D \cup {new}, NEW j \in Indices, lw[x] # 0, Entry(u, x, j) # Absent
        PROVE  Entry(u, x, j) \in D \cup {new} /\ lw[Entry(u, x, j)] = lw[x] - 1
    <3>1. x \in D
      BY <1>3, <2>5
    <3>2. CASE x = t /\ j = i
      BY <1>3, <2>3, <3>1, <3>2
    <3>3. CASE ~(x = t /\ j = i)
      <4>1. Entry(u, x, j) = Entry(s, x, j)
        BY <1>3, <3>1, <3>3
      <4> QED BY <1>5, <2>3, <2>5, <3>1, <4>1
    <3> QED BY <3>2, <3>3
  <2>6. ASSUME NEW x \in D \cup {new}, NEW y \in D \cup {new}, NEW j \in Indices, NEW k \in Indices,
               lw[x] # 0, lw[y] # 0, Entry(u, x, j) # Absent, Entry(u, x, j) = Entry(u, y, k)
        PROVE  x = y /\ j = k
    <3>1. x \in D /\ y \in D
      BY <1>3, <2>6
    <3>2. /\ Entry(s, x, j) # Absent => Entry(s, x, j) # new
          /\ Entry(s, y, k) # Absent => Entry(s, y, k) # new
      BY <1>4, <1>5, <2>3, <2>6, <3>1
    <3>3. /\ Entry(u, x, j) = IF x = t /\ j = i THEN new ELSE Entry(s, x, j)
          /\ Entry(u, y, k) = IF y = t /\ k = i THEN new ELSE Entry(s, y, k)
      BY <1>3, <3>1
    <3>4. /\ lv[x] # 0 /\ lv[y] # 0
      BY <2>3, <2>6, <3>1
    <3>5. CASE x = t /\ j = i
      <4>1. Entry(u, y, k) = new
        BY <2>6, <3>3, <3>5
      <4> QED BY <1>4, <3>2, <3>3, <3>5, <4>1
    <3>6. CASE y = t /\ k = i
      <4>1. Entry(u, x, j) = new
        BY <2>6, <3>3, <3>6
      <4> QED BY <1>4, <3>2, <3>3, <3>6, <4>1
    <3>7. CASE ~(x = t /\ j = i) /\ ~(y = t /\ k = i)
      <4>1. Entry(s, x, j) # Absent /\ Entry(s, x, j) = Entry(s, y, k)
        BY <2>6, <3>3, <3>7
      <4> QED BY <1>5, <3>1, <3>4, <4>1
    <3> QED BY <3>5, <3>6, <3>7
  <2> QED BY <1>3, <2>3, <2>4, <2>5, <2>6 DEF Tree
<1>7. ASSUME NEW v \in Nat
      PROVE  /\ Translate(u, v) = Translate(s, v)
             /\ \A k \in 0 .. 3 :
                  Reached(s, v, k) # Absent => Reached(u, v, k) = Reached(s, v, k)
  <2> DEFINE R(k) == Reached(s, v, k)
             Q(k) == Reached(u, v, k)
             Same(k) == \/ Q(k) = R(k)
                        \/ R(k) = Absent /\ Q(k) = new
  <2>1. \A k \in 0 .. 3 : R(k) = Absent \/ (R(k) \in D /\ lv[R(k)] = k)
    BY <1>2, ReachedInTree
  <2>2. /\ R(3) = s.root /\ Q(3) = u.root
        /\ \A k \in 1 .. 3 : /\ R(k - 1) = Entry(s, R(k), Index(v, k))
                             /\ Q(k - 1) = Entry(u, Q(k), Index(v, k))
        /\ Translate(s, v) = Entry(s, R(0), Index(v, 0))
        /\ Translate(u, v) = Entry(u, Q(0), Index(v, 0))
    BY ReachedNext
  <2>3. \A k \in 0 .. 3 : Index(v, k) \in Indices
    BY IndexIsIndex
  <2>4. \A j \in Indices : Entry(s, Absent, j) = Absent
    BY DEF Entry
  <2> HIDE DEF R, Q
  <2>5. ASSUME NEW k \in 1 .. 3, Same(k) PROVE Same(k - 1)
    <3>1. PICK j \in Indices : j = Index(v, k)
      BY <2>3
    <3>2. R(k - 1) = Entry(s, R(k), j) /\ Q(k - 1) = Entry(u, Q(k), j)
      BY <2>2, <3>1
    <3>3. CASE Q(k) = R(k)
      <4>1. R(k) \in D \cup {Absent}
        BY <2>1
      <4>2. Entry(u, R(k), j) = IF R(k) = t /\ j = i THEN new ELSE Entry(s, R(k), j)
        BY <1>3, <4>1
      <4>3. R(k) = t /\ j = i => Entry(s, R(k), j) = Absent
        OBVIOUS
      <4> QED BY <3>2, <3>3, <4>2, <4>3
    <3>4. CASE R(k) = Absent /\ Q(k) = new
      BY <1>3, <2>4, <3>2, <3>4
    <3> QED BY <2>5, <3>3, <3>4
  <2>6. Same(3)
    BY <1>3, <2>2
  <2>7. Same(3 - 1)
    BY <2>5, <2>6
  <2>8. Same(2 - 1)
    BY <2>5, <2>7
  <2>9. Same(1 - 1)
    BY <2>5, <2>8
  <2>10. \A k \in 0 .. 3 : Same(k)
    <3>1. \A k \in 0 .. 3 : k = 3 \/ k = 3 - 1 \/ k = 2 - 1 \/ k = 1 - 1
      OBVIOUS
    <3> QED BY <2>6, <2>7, <2>8, <2>9, <3>1
  <2>11. Translate(u, v) = Translate(s, v)
    <3>1. PICK j \in Indices : j = Index(v, 0)
      BY <2>3
    <3>2. Translate(s, v) = Entry(s, R(0), j) /\ Translate(u, v) = Entry(u, Q(0), j)
      BY <2>2, <3>1
    <3>3. CASE Q(0) = R(0)
      <4>1. R(0) \in D \cup {Absent} /\ R(0) # t
        BY <1>4, <2>1 DEF Absent
      <4> QED BY <1>3, <3>2, <3>3, <4>1
    <3>4. CASE R(0) = Absent /\ Q(0) = new
      BY <1>3, <2>4, <3>2, <3>4
    <3> QED BY <2>10, <3>3, <3>4
  <2> QED BY <2>10, <2>11 DEF R, Q
<1> QED BY <1>1, <1>2, <1>6, <1>7

(* Two pages whose paths end in the same last table differ in their last   *)
(* index.                                                                  *)
LEMMA SamePath ==
  ASSUME NEW s, NEW lv, Tree(s, lv), Absent \notin TablesOf(s),
         NEW v \in Pages, NEW w \in Pages,
         Reached(s, v, 0) # Absent, Reached(s, v, 0) = Reached(s, w, 0),
         Index(v, 0) = Index(w, 0)
  PROVE  v = w
<1> DEFINE R(k) == Reached(s, v, k)
           Q(k) == Reached(s, w, k)
<1>1. v \in Nat /\ w \in Nat
  BY DEF Pages
<1>2. \A k \in 0 .. 3 :
        /\ R(k) = Absent \/ (R(k) \in TablesOf(s) /\ lv[R(k)] = k)
        /\ Q(k) = Absent \/ (Q(k) \in TablesOf(s) /\ lv[Q(k)] = k)
  BY <1>1, ReachedInTree
<1>3. \A k \in 1 .. 3 : /\ R(k - 1) = Entry(s, R(k), Index(v, k))
                        /\ Q(k - 1) = Entry(s, Q(k), Index(w, k))
  BY <1>1, ReachedNext
<1>4. \A k \in 0 .. 3 : Index(v, k) \in Indices /\ Index(w, k) \in Indices
  BY <1>1, IndexIsIndex
<1>5. \A j \in Indices : Entry(s, Absent, j) = Absent
  BY DEF Entry
<1>6. R(0) # Absent /\ R(0) = Q(0)
  OBVIOUS
<1> HIDE DEF R, Q
<1>7. ASSUME NEW k \in 1 .. 3, R(k - 1) # Absent, R(k - 1) = Q(k - 1)
      PROVE  R(k) # Absent /\ R(k) = Q(k) /\ Index(v, k) = Index(w, k)
  <2>1. PICK i \in Indices : i = Index(v, k)
    BY <1>4
  <2>2. PICK j \in Indices : j = Index(w, k)
    BY <1>4
  <2>3. Entry(s, R(k), i) # Absent /\ Entry(s, R(k), i) = Entry(s, Q(k), j)
    BY <1>3, <1>7, <2>1, <2>2
  <2>4. R(k) # Absent /\ Q(k) # Absent
    BY <1>5, <2>3
  <2>5. /\ R(k) \in TablesOf(s) /\ lv[R(k)] # 0
        /\ Q(k) \in TablesOf(s) /\ lv[Q(k)] # 0
    BY <1>2, <2>4
  <2> QED BY <2>1, <2>2, <2>3, <2>4, <2>5 DEF Tree
<1>8. R(1) # Absent /\ R(1) = Q(1) /\ Index(v, 1) = Index(w, 1)
  <2>1. R(1 - 1) # Absent /\ R(1 - 1) = Q(1 - 1)
    BY <1>6
  <2> QED BY <1>7, <2>1
<1>9. R(2) # Absent /\ R(2) = Q(2) /\ Index(v, 2) = Index(w, 2)
  <2>1. R(2 - 1) # Absent /\ R(2 - 1) = Q(2 - 1)
    BY <1>8
  <2> QED BY <1>7, <2>1
<1>10. Index(v, 3) = Index(w, 3)
  <2>1. R(3 - 1) # Absent /\ R(3 - 1) = Q(3 - 1)
    BY <1>9
  <2> QED BY <1>7, <2>1
<1>11. \A k \in 0 .. 3 : k = 0 \/ k = 1 \/ k = 2 \/ k = 3
  OBVIOUS
<1> QED BY <1>8, <1>9, <1>10, <1>11, IndicesDetermine

(* The entry of a last table that MapMemory writes is that of one page.    *)
LEMMA WriteMapsPage ==
  ASSUME NEW s, Shape(s), NEW lv, Tree(s, lv),
         NEW v \in Pages, NEW t \in TablesOf(s), Reached(s, v, 0) = t,
         NEW i \in Indices, Index(v, 0) = i, NEW f \in Int,
         NEW u, u = Written(s, t, i, f)
  PROVE  /\ Tree(u, lv) /\ Shape(u)
         /\ TablesOf(u) = TablesOf(s) /\ u.alloc = s.alloc /\ u.root = s.root
         /\ Entry(u, t, i) = f
         /\ \A x \in TablesOf(s), j \in Indices :
              Entry(u, x, j) \in {f, Entry(s, x, j)}
         /\ Translate(u, v) = f
         /\ \A w \in Pages : w # v => Translate(u, w) = Translate(s, w)
         /\ \A w \in Nat, k \in 0 .. 3 : Reached(u, w, k) = Reached(s, w, k)
<1>1. Index(v, 0) = i
  OBVIOUS
<1>2. PICK D : D = TablesOf(s)
  OBVIOUS
<1>3. /\ Shape(u) /\ TablesOf(u) = D /\ u.alloc = s.alloc /\ u.root = s.root
      /\ Entry(u, t, i) = f
      /\ \A x \in D \cup {Absent}, j \in Indices :
           x # t \/ j # i => Entry(u, x, j) = Entry(s, x, j)
  <2>1. /\ Shape(u) /\ TablesOf(u) = TablesOf(s)
        /\ u.alloc = s.alloc /\ u.root = s.root
        /\ Entry(u, t, i) = f
    BY WriteEntry
  <2>2. ASSUME NEW x \in TablesOf(s) \cup {Absent}, NEW j \in Indices, x # t \/ j # i
        PROVE  Entry(u, x, j) = Entry(s, x, j)
    <3>1. CASE x # t
      BY <3>1, WriteEntry
    <3>2. CASE j # i
      BY <3>2, WriteEntry
    <3> QED BY <2>2, <3>1, <3>2
  <2> QED BY <1>2, <2>1, <2>2
<1>4. v \in Nat /\ Pages \subseteq Nat
  BY DEF Pages
<1>5. t # Absent /\ lv[t] = 0 /\ t \in D /\ D \subseteq Nat
  <2>1. t # Absent
    BY DEF Shape, Absent
  <2> QED BY <1>2, <1>4, <2>1, ReachedInTree DEF Shape
<1>6. \A x \in D \cup {Absent}, j \in Indices :
        x # t => Entry(u, x, j) = Entry(s, x, j)
  BY <1>3
<1>7. Tree(u, lv)
  <2>1. \A x \in D, j \in Indices : lv[x] # 0 => Entry(u, x, j) = Entry(s, x, j)
    BY <1>5, <1>6
  <2> QED BY <1>2, <1>3, <2>1 DEF Tree
<1>8. ASSUME NEW w \in Nat
      PROVE  \A k \in 0 .. 3 : Reached(u, w, k) = Reached(s, w, k)
  <2> DEFINE R(k) == Reached(s, w, k)
             Q(k) == Reached(u, w, k)
  <2>1. \A k \in 0 .. 3 : R(k) = Absent \/ (R(k) \in D /\ lv[R(k)] = k)
    BY <1>2, ReachedInTree
  <2>2. /\ R(3) = s.root /\ Q(3) = u.root
        /\ \A k \in 1 .. 3 : /\ R(k - 1) = Entry(s, R(k), Index(w, k))
                             /\ Q(k - 1) = Entry(u, Q(k), Index(w, k))
    BY ReachedNext
  <2> HIDE DEF R, Q
  <2>3. ASSUME NEW k \in 1 .. 3, Q(k) = R(k) PROVE Q(k - 1) = R(k - 1)
    <3>1. R(k) \in D \cup {Absent} /\ R(k) # t
      BY <1>5, <2>1
    <3>2. Index(w, k) \in Indices
      BY IndexIsIndex
    <3> QED BY <1>6, <2>2, <2>3, <3>1, <3>2
  <2>4. Q(3) = R(3)
    BY <1>3, <2>2
  <2>5. Q(3 - 1) = R(3 - 1)
    BY <2>3, <2>4
  <2>6. Q(2 - 1) = R(2 - 1)
    BY <2>3, <2>5
  <2>7. Q(1 - 1) = R(1 - 1)
    BY <2>3, <2>6
  <2>8. \A k \in 0 .. 3 : k = 3 \/ k = 3 - 1 \/ k = 2 - 1 \/ k = 1 - 1
    OBVIOUS
  <2> QED BY <2>4, <2>5, <2>6, <2>7, <2>8 DEF R, Q
<1>9. Translate(u, v) = f
  <2>1. Translate(u, v) = Entry(u, t, i)
    BY <1>1, <1>4, <1>8, ReachedNext
  <2> QED BY <1>3, <2>1
<1>10. ASSUME NEW w \in Pages, w # v
       PROVE  Translate(u, w) = Translate(s, w)
  <2>1. PICK j \in Indices : j = Index(w, 0)
    BY <1>4, IndexIsIndex
  <2>2. /\ Translate(u, w) = Entry(u, Reached(s, w, 0), j)
        /\ Translate(s, w) = Entry(s, Reached(s, w, 0), j)
    BY <1>4, <1>8, <2>1, ReachedNext
  <2>3. Reached(s, w, 0) \in D \cup {Absent}
    BY <1>2, <1>4, ReachedInTree
  <2>4. ~ (Reached(s, w, 0) = t /\ j = i)
    <3> SUFFICES ASSUME Reached(s, w, 0) = t, j = i PROVE FALSE
      OBVIOUS
    <3>1. /\ Absent \notin TablesOf(s)
          /\ Reached(s, w, 0) # Absent /\ Reached(s, w, 0) = Reached(s, v, 0)
          /\ Index(w, 0) = Index(v, 0)
      BY <1>1, <1>2, <1>5, <2>1 DEF Absent
    <3>2. w = v
      BY <3>1, SamePath
    <3> QED BY <1>10, <3>2
  <2> QED BY <1>3, <2>2, <2>3, <2>4
<1>11. \A x \in D, j \in Indices : Entry(u, x, j) \in {f, Entry(s, x, j)}
  BY <1>3
<1> QED BY <1>2, <1>3, <1>7, <1>8, <1>9, <1>10, <1>11
-----------------------------------------------------------------------------
(***************************************************************************)
(* What a call of MapMemory takes and adds.                                *)
(***************************************************************************)
New(a, b) == b.bits \ a.bits

(* Frames are taken from the least clear one upwards, and none given back. *)
Took(a, b) ==
  /\ Consistent(b) /\ b.size = a.size
  /\ a.bits \subseteq b.bits
  /\ New(a, b) \subseteq Clear(a)
  /\ \A f \in New(a, b), g \in Clear(a) : g < f => g \in New(a, b)

LEMMA TookNothing ==
  ASSUME NEW a, Consistent(a)
  PROVE  Took(a, a) /\ New(a, a) = {}
BY DEF Took, New

LEMMA TookOne ==
  ASSUME NEW a, Consistent(a), Found(a)
  PROVE  /\ Took(a, Grant(a)) /\ New(a, Grant(a)) = {FoundFrame(a)}
         /\ FoundFrame(a) \in Nat /\ FoundFrame(a) \in Clear(a)
<1>1. PICK f \in Nat : f = FoundFrame(a)
  BY GrantEffect
<1>2. PICK b : b = Grant(a)
  OBVIOUS
<1>3. /\ Consistent(b) /\ f \in Clear(a) /\ b.size = a.size
      /\ b.bits = a.bits \cup {f}
      /\ \A g \in Clear(a) : f =< g
  BY <1>1, <1>2, GrantEffect
<1>4. New(a, b) = {f}
  BY <1>3 DEF New, Clear
<1>5. \A g \in Clear(a) : ~(g < f)
  <2>1. Clear(a) \subseteq Nat
    BY ClearFacts
  <2> QED BY <1>3, <2>1
<1>6. Took(a, b)
  BY <1>3, <1>4, <1>5 DEF Took
<1> QED BY <1>1, <1>2, <1>3, <1>4, <1>6

LEMMA TookMore ==
  ASSUME NEW a, NEW b, NEW c, Took(a, b), Took(b, c)
  PROVE  /\ Took(a, c) /\ New(a, c) = New(a, b) \cup New(b, c)
         /\ New(b, c) \subseteq Clear(a) /\ Clear(b) = Clear(a) \ New(a, b)
<1>1. Clear(b) = Clear(a) \ New(a, b)
  BY DEF Took, New, Clear, Managed
<1>2. New(a, c) = New(a, b) \cup New(b, c)
  BY DEF Took, New
<1>3. New(b, c) \subseteq Clear(a) /\ New(a, c) \subseteq Clear(a)
  BY <1>1, <1>2 DEF Took
<1>4. ASSUME NEW f \in New(a, c), NEW g \in Clear(a), g < f
      PROVE  g \in New(a, c)
  <2>1. CASE f \in New(a, b)
    BY <1>2, <1>4, <2>1 DEF Took
  <2>2. CASE f \in New(b, c)
    BY <1>1, <1>2, <1>4, <2>2 DEF Took
  <2> QED BY <1>2, <2>1, <2>2
<1>5. Consistent(c) /\ c.size = a.size /\ a.bits \subseteq c.bits
  BY DEF Took
<1> QED BY <1>1, <1>2, <1>3, <1>4, <1>5 DEF Took

(* The tables are a tree of frames that are taken.                         *)
Sound(s) ==
  /\ Shape(s)
  /\ Consistent(s.alloc)
  /\ TablesOf(s) \subseteq s.alloc.bits
  /\ \E lv : Tree(s, lv)

(* Every entry is as it was, or absent, or points to one of the frames F.  *)
Entries(s, u, F) ==
  \A t \in TablesOf(u), i \in Indices :
    \/ Entry(u, t, i) \in F \cup {Absent}
    \/ t \in TablesOf(s) /\ Entry(u, t, i) = Entry(s, t, i)

(* Tables are added, and every page is mapped as before.                   *)
Grown(s, u) ==
  /\ Sound(u)
  /\ Took(s.alloc, u.alloc)
  /\ u.root = s.root
  /\ TablesOf(u) = TablesOf(s) \cup New(s.alloc, u.alloc)
  /\ Entries(s, u, New(s.alloc, u.alloc))
  /\ \A v \in Nat : Translate(u, v) = Translate(s, v)
  /\ \A v \in Nat, k \in 0 .. 3 :
       Reached(s, v, k) # Absent => Reached(u, v, k) = Reached(s, v, k)

LEMMA GrownNot ==
  ASSUME NEW s, Sound(s)
  PROVE  Grown(s, s) /\ New(s.alloc, s.alloc) = {}
<1>1. Took(s.alloc, s.alloc) /\ New(s.alloc, s.alloc) = {}
  BY TookNothing DEF Sound
<1> QED BY <1>1 DEF Grown, Entries

LEMMA GrownMore ==
  ASSUME NEW s, NEW u, NEW w, Grown(s, u), Grown(u, w)
  PROVE  /\ Grown(s, w)
         /\ New(s.alloc, w.alloc) = New(s.alloc, u.alloc) \cup New(u.alloc, w.alloc)
<1>1. /\ Took(s.alloc, w.alloc)
      /\ New(s.alloc, w.alloc) = New(s.alloc, u.alloc) \cup New(u.alloc, w.alloc)
  BY TookMore DEF Grown
<1>2. /\ Sound(w) /\ w.root = s.root
      /\ TablesOf(w) = TablesOf(s) \cup New(s.alloc, w.alloc)
      /\ \A v \in Nat : Translate(w, v) = Translate(s, v)
  BY <1>1 DEF Grown
<1>3. \A v \in Nat, k \in 0 .. 3 :
        Reached(s, v, k) # Absent => Reached(w, v, k) = Reached(s, v, k)
  BY DEF Grown
<1>4. Entries(s, w, New(s.alloc, w.alloc))
  <2>1. Entries(s, u, New(s.alloc, u.alloc)) /\ Entries(u, w, New(u.alloc, w.alloc))
    BY DEF Grown
  <2> QED BY <1>1, <2>1 DEF Entries
<1> QED BY <1>1, <1>2, <1>3, <1>4 DEF Grown

LEMMA AddGrows ==
  ASSUME NEW s, Sound(s), NEW lv, Tree(s, lv),
         NEW t \in TablesOf(s), lv[t] # 0,
         NEW i \in Indices, Entry(s, t, i) = Absent,
         ~Refused(s),
         NEW u, u = AddTable(s, t, i)
  PROVE  /\ Grown(s, u)
         /\ New(s.alloc, u.alloc) = {Requested(s)}
         /\ Requested(s) \in Nat
         /\ Entry(u, t, i) = Requested(s)
<1>1. Shape(s) /\ Consistent(s.alloc) /\ TablesOf(s) \subseteq s.alloc.bits
  BY DEF Sound
<1>2. PICK new \in Nat : new = Requested(s)
  BY <1>1, TookOne DEF Refused, Requested
<1>3. /\ Took(s.alloc, Grant(s.alloc)) /\ New(s.alloc, Grant(s.alloc)) = {new}
      /\ new \in Clear(s.alloc)
  BY <1>1, <1>2, TookOne DEF Refused, Requested
<1>4. new \notin TablesOf(s)
  BY <1>1, <1>3 DEF Clear
<1>5. Requested(s) \in Nat /\ Requested(s) \notin TablesOf(s)
  BY <1>2, <1>4
<1>6. /\ Shape(u) /\ TablesOf(u) = TablesOf(s) \cup {new}
      /\ u.alloc = Grant(s.alloc) /\ u.root = s.root
      /\ \A j \in Indices : Entry(u, new, j) = Absent
      /\ \A x \in TablesOf(s) \cup {Absent}, j \in Indices :
           Entry(u, x, j) = IF x = t /\ j = i THEN new ELSE Entry(s, x, j)
  BY <1>1, <1>2, <1>5, AddTableEntries
<1>7. /\ \E lw : Tree(u, lw)
      /\ \A v \in Nat : Translate(u, v) = Translate(s, v)
      /\ \A v \in Nat, k \in 0 .. 3 :
           Reached(s, v, k) # Absent => Reached(u, v, k) = Reached(s, v, k)
  BY <1>1, <1>5, AddKeepsPaths
<1>8. Took(s.alloc, u.alloc) /\ New(s.alloc, u.alloc) = {new}
  BY <1>3, <1>6
<1>9. Sound(u)
  <2>1. TablesOf(u) \subseteq u.alloc.bits
    BY <1>1, <1>6, <1>8 DEF Took, New
  <2>2. Consistent(u.alloc)
    BY <1>8 DEF Took
  <2> QED BY <1>6, <1>7, <2>1, <2>2 DEF Sound
<1>10. Entries(s, u, {new})
  BY <1>6 DEF Entries
<1>11. Entry(u, t, i) = new
  BY <1>6
<1> QED BY <1>2, <1>6, <1>7, <1>8, <1>9, <1>10, <1>11 DEF Grown

(***************************************************************************)
(* The walk of MapMemory, from the root down to level k: where it stands,  *)
(* and which tables it has added.                                          *)
(***************************************************************************)
Walked(s, v, w, k) ==
  /\ w = [s |-> w.s, at |-> w.at, way |-> w.way, refused |-> w.refused]
  /\ w.refused \in BOOLEAN
  /\ Grown(s, w.s)
  /\ New(s.alloc, w.s.alloc) \subseteq w.way /\ w.way \subseteq TablesOf(w.s)
  /\ w.refused => /\ Clear(w.s.alloc) = {}
                  /\ New(s.alloc, w.s.alloc) \subseteq {Reached(w.s, v, j) : j \in 1 .. 2}
  /\ ~w.refused => /\ w.at \in TablesOf(w.s) /\ Reached(w.s, v, k) = w.at
                   /\ New(s.alloc, w.s.alloc) \subseteq {Reached(w.s, v, j) : j \in k .. 2}

LEMMA DescendWalks ==
  ASSUME NEW s, NEW v \in Nat, NEW k \in 1 .. 3, NEW w, Walked(s, v, w, k),
         NEW i \in Indices, Index(v, k) = i,
         NEW x, x = Descend(w, i)
  PROVE  Walked(s, v, x, k - 1)
<1> DEFINE N == New(s.alloc, w.s.alloc)
           child == w.s.tables[w.at][i]
<1>1. CASE w.refused
  <2>1. x = w
    BY <1>1 DEF Descend
  <2> QED BY <1>1, <2>1 DEF Walked
<1>2. CASE ~w.refused
  <2>1. /\ w.at \in TablesOf(w.s) /\ Reached(w.s, v, k) = w.at
        /\ N \subseteq {Reached(w.s, v, j) : j \in k .. 2}
        /\ Grown(s, w.s) /\ N \subseteq w.way /\ w.way \subseteq TablesOf(w.s)
        /\ w = [s |-> w.s, at |-> w.at, way |-> w.way, refused |-> w.refused]
    BY <1>2 DEF Walked
  <2>2. Sound(w.s) /\ Shape(w.s) /\ Consistent(w.s.alloc)
    BY <2>1 DEF Grown, Sound
  <2>3. PICK lv : Tree(w.s, lv)
    BY <2>2 DEF Sound
  <2>4. w.at # Absent /\ lv[w.at] = k
    <3>1. w.at # Absent
      BY <2>1, <2>2 DEF Shape, Absent
    <3> QED BY <2>1, <2>3, <3>1, ReachedInTree
  <2>5. Entry(w.s, w.at, i) = child
    BY <2>4 DEF Entry
  <2>6. Reached(w.s, v, k - 1) = child
    BY <2>1, <2>5, ReachedNext
  <2> HIDE DEF child
  <2>7. CASE child # Absent
    <3>1. x = [w EXCEPT !.at = child, !.way = @ \cup {child}]
      BY <1>2, <2>7 DEF Descend, child
    <3>2. x.s = w.s /\ x.at = child /\ x.way = w.way \cup {child} /\ x.refused = w.refused
          /\ x = [s |-> x.s, at |-> x.at, way |-> x.way, refused |-> x.refused]
      BY <2>1, <3>1
    <3>3. child \in TablesOf(w.s)
      BY <2>1, <2>3, <2>4, <2>5, <2>7 DEF Tree
    <3>4. N \subseteq {Reached(w.s, v, j) : j \in (k - 1) .. 2}
      <4>1. k .. 2 \subseteq (k - 1) .. 2
        OBVIOUS
      <4> QED BY <2>1, <4>1
    <3> QED BY <1>2, <2>1, <2>6, <3>2, <3>3, <3>4 DEF Walked
  <2>8. CASE child = Absent /\ Refused(w.s)
    <3>1. x = [w EXCEPT !.refused = TRUE]
      BY <1>2, <2>8 DEF Descend, child
    <3>2. x.s = w.s /\ x.at = w.at /\ x.way = w.way /\ x.refused = TRUE
          /\ x = [s |-> x.s, at |-> x.at, way |-> x.way, refused |-> x.refused]
      BY <2>1, <3>1
    <3>3. Clear(w.s.alloc) = {}
      BY <2>2, <2>8, ExhaustFacts DEF Refused
    <3>4. N \subseteq {Reached(w.s, v, j) : j \in 1 .. 2}
      <4>1. k .. 2 \subseteq 1 .. 2
        OBVIOUS
      <4> QED BY <2>1, <4>1
    <3> QED BY <2>1, <3>2, <3>3, <3>4 DEF Walked
  <2>9. CASE child = Absent /\ ~Refused(w.s)
    <3>1. PICK u : u = AddTable(w.s, w.at, i)
      OBVIOUS
    <3>2. PICK new : new = Requested(w.s)
      OBVIOUS
    <3>3. x = [w EXCEPT !.s = u, !.at = new, !.way = @ \cup {new}]
      BY <1>2, <2>9, <3>1, <3>2 DEF Descend, child
    <3>4. x.s = u /\ x.at = new /\ x.way = w.way \cup {new} /\ x.refused = w.refused
          /\ x = [s |-> x.s, at |-> x.at, way |-> x.way, refused |-> x.refused]
      BY <2>1, <3>3
    <3>5. /\ Grown(w.s, u) /\ New(w.s.alloc, u.alloc) = {new}
          /\ Entry(u, w.at, i) = new
      <4>1. Entry(w.s, w.at, i) = Absent /\ lv[w.at] # 0
        BY <2>4, <2>5, <2>9
      <4> QED BY <2>1, <2>2, <2>3, <2>9, <3>1, <3>2, <4>1, AddGrows
    <3>6. Grown(s, u) /\ New(s.alloc, u.alloc) = N \cup {new}
      BY <2>1, <3>5, GrownMore
    <3>7. TablesOf(u) = TablesOf(w.s) \cup {new}
      BY <3>5 DEF Grown
    <3>8. \A j \in 0 .. 3 : Reached(w.s, v, j) # Absent => Reached(u, v, j) = Reached(w.s, v, j)
      BY <3>5 DEF Grown
    <3>9. Reached(u, v, k - 1) = new
      <4>1. Reached(u, v, k) = w.at
        BY <2>1, <2>4, <3>8
      <4> QED BY <3>5, <4>1, ReachedNext
    <3>10. N \cup {new} \subseteq {Reached(u, v, j) : j \in (k - 1) .. 2}
      <4>1. ASSUME NEW f \in N PROVE f \in {Reached(u, v, j) : j \in (k - 1) .. 2}
        <5>1. PICK j \in k .. 2 : f = Reached(w.s, v, j)
          BY <2>1
        <5>2. f # Absent
          BY <2>1, <2>2 DEF Shape, Absent
        <5>3. j \in 0 .. 3 /\ j \in (k - 1) .. 2
          OBVIOUS
        <5> QED BY <3>8, <5>1, <5>2, <5>3
      <4>2. (k - 1) \in (k - 1) .. 2
        OBVIOUS
      <4> QED BY <3>9, <4>1, <4>2
    <3> QED BY <1>2, <2>1, <3>4, <3>6, <3>7, <3>9, <3>10 DEF Walked
  <2> QED BY <2>7, <2>8, <2>9
<1> QED BY <1>1, <1>2

LEMMA WalkWalks ==
  ASSUME NEW s, Sound(s), NEW v \in Nat, NEW w, w = Walk(s, v)
  PROVE  Walked(s, v, w, 0)
<1> DEFINE pml4 == [s |-> s, at |-> s.root, way |-> {s.root}, refused |-> FALSE]
           a == Descend(pml4, Index(v, 3))
           b == Descend(a, Index(v, 2))
<1>1. /\ Index(v, 3) \in Indices /\ Index(v, 2) \in Indices /\ Index(v, 1) \in Indices
  BY IndexIsIndex
<1>2. Walked(s, v, pml4, 3)
  <2>1. Grown(s, s) /\ New(s.alloc, s.alloc) = {}
    BY GrownNot
  <2>2. s.root \in TablesOf(s)
    BY DEF Sound, Tree
  <2>3. Reached(s, v, 3) = s.root
    BY ReachedNext
  <2> QED BY <2>1, <2>2, <2>3 DEF Walked
<1>3. Walked(s, v, a, 3 - 1)
  BY <1>1, <1>2, DescendWalks
<1>4. Walked(s, v, b, 2 - 1)
  BY <1>1, <1>3, DescendWalks
<1>5. Walked(s, v, Descend(b, Index(v, 1)), 1 - 1)
  BY <1>1, <1>4, DescendWalks
<1> QED BY <1>5 DEF Walk
(* A page is mapped to a frame, with the tables that it takes.             *)
MapsTo(s, u, v, f) ==
  /\ Sound(u)
  /\ Took(s.alloc, u.alloc)
  /\ u.root = s.root
  /\ TablesOf(u) = TablesOf(s) \cup New(s.alloc, u.alloc)
  /\ Entries(s, u, New(s.alloc, u.alloc) \cup {f})
  /\ Translate(u, v) = f
  /\ \A x \in Pages : x # v => Translate(u, x) = Translate(s, x)
  /\ \A x \in Nat, k \in 0 .. 3 :
       Reached(s, x, k) # Absent => Reached(u, x, k) = Reached(s, x, k)
  /\ New(s.alloc, u.alloc) \subseteq {Reached(u, v, j) : j \in 0 .. 2}

LEMMA MapMemoryMaps ==
  ASSUME NEW s, Sound(s), NEW v \in Pages, NEW f \in Int,
         NEW w, w = Walk(s, v), ~w.refused,
         NEW u, u = MapMemory(s, v, f)
  PROVE  MapsTo(s, u, v, f) /\ u.alloc = w.s.alloc /\ TablesOf(u) = TablesOf(w.s)
<1>1. v \in Nat
  BY DEF Pages
<1>2. PICK i \in Indices : Index(v, 0) = i
  BY <1>1, IndexIsIndex
<1>3. Walked(s, v, w, 0)
  BY <1>1, WalkWalks
<1>4. PICK y : y = w.s
  OBVIOUS
<1>5. PICK t : t = w.at
  OBVIOUS
<1>6. /\ Grown(s, y) /\ t \in TablesOf(y) /\ Reached(y, v, 0) = t
      /\ New(s.alloc, y.alloc) \subseteq {Reached(y, v, j) : j \in 0 .. 2}
  BY <1>3, <1>4, <1>5 DEF Walked
<1>7. u = Written(y, t, i, f)
  BY <1>2, <1>4, <1>5 DEF MapMemory, Written
<1>8. Sound(y) /\ Shape(y)
  BY <1>6 DEF Grown, Sound
<1>9. PICK lv : Tree(y, lv)
  BY <1>8 DEF Sound
<1>10. /\ Shape(u) /\ TablesOf(u) = TablesOf(y) /\ u.alloc = y.alloc /\ u.root = y.root
       /\ \A x \in TablesOf(y), j \in Indices : Entry(u, x, j) \in {f, Entry(y, x, j)}
  BY <1>2, <1>6, <1>7, <1>8, <1>9, WriteMapsPage
<1>11. /\ Tree(u, lv) /\ Translate(u, v) = f
       /\ \A x \in Pages : x # v => Translate(u, x) = Translate(y, x)
       /\ \A x \in Nat, k \in 0 .. 3 : Reached(u, x, k) = Reached(y, x, k)
  BY <1>2, <1>6, <1>7, <1>8, <1>9, WriteMapsPage
<1>12. Sound(u)
  BY <1>8, <1>10, <1>11 DEF Sound
<1>13. Pages \subseteq Nat
  BY DEF Pages
<1>14. /\ Took(s.alloc, u.alloc) /\ u.root = s.root
       /\ TablesOf(u) = TablesOf(s) \cup New(s.alloc, u.alloc)
       /\ \A x \in Pages : x # v => Translate(u, x) = Translate(s, x)
       /\ \A x \in Nat, k \in 0 .. 3 :
            Reached(s, x, k) # Absent => Reached(u, x, k) = Reached(s, x, k)
  BY <1>6, <1>10, <1>11, <1>13 DEF Grown
<1>15. Entries(s, u, New(s.alloc, u.alloc) \cup {f})
  <2>1. Entries(s, y, New(s.alloc, y.alloc))
    BY <1>6 DEF Grown
  <2> QED BY <1>10, <2>1 DEF Entries
<1>16. New(s.alloc, u.alloc) \subseteq {Reached(u, v, j) : j \in 0 .. 2}
  <2>1. \A j \in 0 .. 2 : Reached(u, v, j) = Reached(y, v, j)
    BY <1>1, <1>11
  <2> QED BY <1>6, <1>10, <2>1
<1> QED BY <1>4, <1>10, <1>11, <1>12, <1>14, <1>15, <1>16 DEF MapsTo
-----------------------------------------------------------------------------
(***************************************************************************)
(* The invariant.                                                          *)
(***************************************************************************)

(* The pages that are mapped to their own addresses so far. *)
SoFar(m, ph, p) ==
  IF ph = "identity" THEN 0 .. (p - 1)
  ELSE IF ph = "frameBuffer" THEN BelowSize(m) \cup m.frameBuffer.first .. (p - 1)
  ELSE BelowSize(m) \cup FrameBuffer(m)

(* What the loader and the firmware have put into memory. *)
Before(m) == BitmapFrames(m.map) \cup Frames(0, LowPages) \cup KernelFrames(m)

HeapFramesOf(s, h) == {Translate(s, v) : v \in HeapPage .. (h - 1)}

(* The pages S and the heap up to h are mapped, and no other. *)
MappedInv(s, S, h) ==
  \A v \in Pages :
    /\ v \in S => Translate(s, v) = v
    /\ v \notin S \cup HeapPage .. (h - 1) => Translate(s, v) = Absent

(* The tables, the heap and the interrupt table d have frames of their own. *)
FramesInv(m, s, h, d) ==
  /\ s.alloc.size = BitmapSize(m.map)
  /\ Before(m) \cap Bitmap_Indices(s.alloc) \subseteq s.alloc.bits
  /\ HeapFramesOf(s, h) \cup ({d} \ {NULL}) \subseteq s.alloc.bits
  /\ TablesOf(s) \cap HeapFramesOf(s, h) = {}
  /\ ({d} \ {NULL}) \cap (TablesOf(s) \cup HeapFramesOf(s, h)) = {}
  /\ Before(m) \cap (TablesOf(s) \cup HeapFramesOf(s, h) \cup ({d} \ {NULL})) = {}
  /\ IsFiniteSet(HeapFramesOf(s, h))
  /\ Cardinality(HeapFramesOf(s, h)) = h - HeapPage

TargetsOf(m, s) == Bitmap_Indices(s.alloc) \cup BelowSize(m) \cup FrameBuffer(m)

EntriesInv(m, s) ==
  \A t \in TablesOf(s), i \in Indices : Entry(s, t, i) \in TargetsOf(m, s) \cup {Absent}

SpaceInv(m, s, S, h, d) ==
  /\ Sound(s)
  /\ MappedInv(s, S, h)
  /\ FramesInv(m, s, h, d)
  /\ EntriesInv(m, s)

(* How far the loops have come. *)
FrameBufferPages(m) == CeilDiv(FrameBufferBytes(m), PageSize)

ProgressInv ==
  /\ machine \in Machines
  /\ phase \in {"boot", "identity", "frameBuffer", "heap", "running"}
  /\ status \in {"ok", "exhausted", "fault"}
  /\ phase = "boot" => page = 0
  /\ phase = "identity" => page \in 0 .. MemoryFrames(machine)
  /\ phase \notin {"boot", "identity"} =>
       page \in machine.frameBuffer.first .. (machine.frameBuffer.first + FrameBufferPages(machine))
  /\ heapEnd \in HeapPage .. (HeapPage + MaxHeapPages)
  /\ ~Loaded => heapEnd = HeapPage
  /\ phase # "running" => idt = NULL
  /\ idt \in Nat

AInv ==
  /\ ProgressInv
  /\ phase = "boot" =>
       space = [alloc |-> Unbooted, tables |-> [f \in {} |-> EmptyTable], root |-> Absent]
  /\ phase # "boot" =>
       SpaceInv(machine, space, SoFar(machine, phase, page), heapEnd, idt)
-----------------------------------------------------------------------------
LEMMA MachineFacts ==
  ASSUME NEW m \in Machines
  PROVE  /\ MemoryFrames(m) \in Nat /\ m.frameBuffer.first \in Nat
         /\ GetMemorySize(m.map) \in Nat
         /\ FrameBufferPages(m) \in Nat /\ FrameBufferPages(m) > 0
         /\ FrameBuffer(m) = m.frameBuffer.first .. (m.frameBuffer.first + FrameBufferPages(m) - 1)
         /\ BelowSize(m) = 0 .. (MemoryFrames(m) - 1)
         /\ BelowSize(m) \cup FrameBuffer(m) \subseteq 0 .. (HeapPage - 1)
         /\ BitmapSize(m.map) \in Nat /\ 8 * BitmapSize(m.map) =< HeapPage
         /\ KernelFrames(m) \subseteq LockedKernel(m)
         /\ FrameBuffer(m) \subseteq LockedFrameBuffer(m)
<1>1. /\ MemoryFrames(m) \in Nat /\ m.frameBuffer.first \in Nat /\ m.frameBuffer.bytes \in Nat
      /\ m.kernel.first \in Nat /\ m.kernel.bytes \in Nat
      /\ MemoryFrames(m) + 8 =< HeapPage
      /\ \A f \in FrameBuffer(m) : f < HeapPage
  BY MachinesAssumption
<1>2. PageSize \in Nat /\ PageSize > 0 /\ HeapPage \in Nat
  BY PageSizeAssumption, HeapPageAssumption
<1>3. \A b \in Nat : CeilDiv(b, PageSize) \in Nat /\ CeilDiv(b, PageSize) =< b \div PageSize + 1
  <2> SUFFICES ASSUME NEW b \in Nat
               PROVE  CeilDiv(b, PageSize) \in Nat /\ CeilDiv(b, PageSize) =< b \div PageSize + 1
    OBVIOUS
  <2> DEFINE n == b + PageSize - 1
             x == n \div PageSize
             q == b \div PageSize
  <2>1. n \in Nat
    BY <1>2
  <2> HIDE DEF n
  <2>2. x \in Nat /\ n % PageSize \in 0 .. (PageSize - 1) /\ n = x * PageSize + (n % PageSize)
    BY <1>2, <2>1, Quotients
  <2>3. q \in Nat /\ b % PageSize \in 0 .. (PageSize - 1) /\ b = q * PageSize + (b % PageSize)
    BY <1>2, Quotients
  <2> HIDE DEF x, q
  <2>4. ~(q + 2 =< x)
    <3> SUFFICES ASSUME q + 2 =< x PROVE FALSE
      OBVIOUS
    <3>1. (q + 2) * PageSize =< x * PageSize /\ x * PageSize \in Nat
      BY <1>2, <2>2, <2>3, ProductGrows
    <3>2. (q + 2) * PageSize = q * PageSize + 2 * PageSize /\ q * PageSize \in Nat
      BY <1>2, <2>3
    <3>3. n = b + PageSize - 1
      BY DEF n
    <3> QED BY <1>2, <2>2, <2>3, <3>1, <3>2, <3>3
  <2>5. CeilDiv(b, PageSize) = x
    BY DEF CeilDiv, x, n
  <2> QED BY <2>2, <2>3, <2>4, <2>5 DEF q
<1>4. FrameBufferBytes(m) \in Nat /\ FrameBufferBytes(m) >= PageSize
  BY <1>1, <1>2 DEF FrameBufferBytes
<1>5. FrameBufferPages(m) \in Nat
  BY <1>3, <1>4 DEF FrameBufferPages
<1>6. FrameBufferPages(m) > 0
  <2> DEFINE n == FrameBufferBytes(m) + PageSize - 1
  <2>1. n \in Nat /\ n >= PageSize
    BY <1>2, <1>4
  <2> HIDE DEF n
  <2>2. n \div PageSize \in Nat /\ n % PageSize \in 0 .. (PageSize - 1)
        /\ n = (n \div PageSize) * PageSize + (n % PageSize)
    BY <1>2, <2>1, Quotients
  <2>3. n \div PageSize # 0
    <3> SUFFICES ASSUME n \div PageSize = 0 PROVE FALSE
      OBVIOUS
    <3>1. n = 0 * PageSize + (n % PageSize)
      BY <2>2
    <3>2. 0 * PageSize = 0
      BY <1>2
    <3> QED BY <1>2, <2>1, <2>2, <3>1, <3>2
  <2>4. FrameBufferPages(m) = n \div PageSize
    BY DEF FrameBufferPages, CeilDiv, n
  <2> QED BY <2>2, <2>3, <2>4
<1>7. /\ FrameBuffer(m) = m.frameBuffer.first .. (m.frameBuffer.first + FrameBufferPages(m) - 1)
      /\ BelowSize(m) = 0 .. (MemoryFrames(m) - 1)
  BY <1>1 DEF FrameBuffer, FrameBufferPages, BelowSize, Frames
<1>8. BelowSize(m) \cup FrameBuffer(m) \subseteq 0 .. (HeapPage - 1)
  BY <1>1, <1>2, <1>5, <1>7
<1>9. BitmapSize(m.map) \in Nat /\ 8 * BitmapSize(m.map) =< HeapPage
  <2>1. PICK n \in Nat : n = GetMemorySize(m.map) /\ n + 8 =< HeapPage
    BY <1>1 DEF MemoryFrames
  <2>2. n \div 8 \in Nat /\ 8 * (n \div 8 + 1) =< n + 8
    BY <2>1
  <2>3. BitmapSize(m.map) = n \div 8 + 1
    BY <2>1 DEF BitmapSize
  <2> QED BY <1>2, <2>1, <2>2, <2>3
<1>10. KernelFrames(m) \subseteq LockedKernel(m)
  <2>1. m.kernel.bytes \div PageSize \in Nat
    BY <1>1, <1>2, Quotients
  <2> QED BY <1>1, <1>3, <2>1 DEF KernelFrames, LockedKernel, Frames
<1>11. GetMemorySize(m.map) \in Nat
  BY <1>1 DEF MemoryFrames
<1>12. FrameBuffer(m) \subseteq LockedFrameBuffer(m)
  <2>1. FrameBufferBytes(m) \div PageSize \in Nat
    BY <1>2, <1>4, Quotients
  <2>2. FrameBufferPages(m) =< FrameBufferBytes(m) \div PageSize + 1
    BY <1>3, <1>4 DEF FrameBufferPages
  <2> QED BY <1>1, <1>5, <1>7, <2>1, <2>2 DEF LockedFrameBuffer, Frames
<1> QED BY <1>1, <1>5, <1>6, <1>7, <1>8, <1>9, <1>10, <1>11, <1>12

(* The heap lies in the address space, above all that is mapped to itself. *)
LEMMA PagesFacts ==
  /\ HeapPage \in Nat /\ MaxHeapPages \in Nat /\ InitPages \in Nat /\ InitPages =< MaxHeapPages
  /\ 0 .. (HeapPage + MaxHeapPages - 1) \subseteq Pages
<1>1. HeapPage \in Nat /\ InitPages \in Nat /\ InitPages =< MaxHeapPages
  BY HeapPageAssumption, InitPagesAssumption
<1>2. MaxHeapPages \in Nat /\ HeapPage + MaxHeapPages =< Span(4) /\ Span(4) \in Nat
  BY InitPagesAssumption, HeapAssumption, SpanFacts
<1> QED BY <1>1, <1>2 DEF Pages

(* Frames are given to uses of their own: T to tables, H to the heap and I *)
(* to the interrupt table.                                                 *)
LEMMA FramesGrow ==
  ASSUME NEW m, NEW s, NEW h \in Nat, NEW d, FramesInv(m, s, h, d), Sound(s),
         NEW u, NEW g \in Nat, NEW e, NEW T, NEW H, NEW I,
         u.alloc.size = s.alloc.size, s.alloc.bits \subseteq u.alloc.bits,
         T \cup H \cup I \subseteq u.alloc.bits \ s.alloc.bits,
         T \cup H \cup I \subseteq Bitmap_Indices(s.alloc),
         T \cap H = {}, (T \cup H) \cap I = {},
         TablesOf(u) = TablesOf(s) \cup T,
         HeapFramesOf(u, g) = HeapFramesOf(s, h) \cup H,
         {e} \ {NULL} = ({d} \ {NULL}) \cup I,
         IsFiniteSet(H), Cardinality(H) = g - h, HeapPage \in Nat
  PROVE  FramesInv(m, u, g, e)
<1> DEFINE X == HeapFramesOf(s, h)
           D == {d} \ {NULL}
<1>1. /\ s.alloc.size = BitmapSize(m.map)
      /\ Before(m) \cap Bitmap_Indices(s.alloc) \subseteq s.alloc.bits
      /\ X \cup D \subseteq s.alloc.bits
      /\ TablesOf(s) \cap X = {}
      /\ D \cap (TablesOf(s) \cup X) = {}
      /\ Before(m) \cap (TablesOf(s) \cup X \cup D) = {}
      /\ IsFiniteSet(X) /\ Cardinality(X) = h - HeapPage
  BY DEF FramesInv
<1>2. TablesOf(s) \subseteq s.alloc.bits
  BY DEF Sound
<1>3. Bitmap_Indices(u.alloc) = Bitmap_Indices(s.alloc)
  BY DEF Bitmap_Indices
<1> HIDE DEF X, D
<1>4. X \cap H = {}
  BY <1>1
<1>5. IsFiniteSet(X \cup H) /\ Cardinality(X \cup H) = g - HeapPage
  <2>1. IsFiniteSet(X \cup H) /\ Cardinality(X \cup H) = Cardinality(X) + Cardinality(H)
    BY <1>1, <1>4, DisjointUnion
  <2> QED BY <1>1, <2>1
<1>6. Before(m) \cap (T \cup H \cup I) = {}
  BY <1>1
<1>7. (TablesOf(s) \cup T) \cap (X \cup H) = {}
  BY <1>1, <1>2
<1>8. (D \cup I) \cap (TablesOf(s) \cup T \cup X \cup H) = {}
  BY <1>1, <1>2
<1>9. Before(m) \cap (TablesOf(s) \cup T \cup X \cup H \cup D \cup I) = {}
  BY <1>1, <1>6
<1>10. /\ TablesOf(u) = TablesOf(s) \cup T /\ HeapFramesOf(u, g) = X \cup H
       /\ {e} \ {NULL} = D \cup I
  BY DEF X, D
<1> QED BY <1>1, <1>3, <1>5, <1>7, <1>8, <1>9, <1>10 DEF FramesInv

LEMMA EntriesGrow ==
  ASSUME NEW m, NEW s, EntriesInv(m, s), NEW u, u.alloc.size = s.alloc.size,
         NEW F, Entries(s, u, F), F \subseteq TargetsOf(m, s)
  PROVE  EntriesInv(m, u)
<1>1. TargetsOf(m, u) = TargetsOf(m, s)
  BY DEF TargetsOf, Bitmap_Indices
<1> QED BY <1>1 DEF EntriesInv, Entries

(* What changes the allocator alone changes no table.                      *)
LEMMA AllocatorAlone ==
  ASSUME NEW s, Sound(s), NEW a, Consistent(a), s.alloc.bits \subseteq a.bits,
         NEW u, u = [s EXCEPT !.alloc = a]
  PROVE  /\ Sound(u) /\ u.alloc = a /\ u.root = s.root
         /\ TablesOf(u) = TablesOf(s)
         /\ \A t \in Int, i \in Indices : Entry(u, t, i) = Entry(s, t, i)
         /\ \A v : Translate(u, v) = Translate(s, v)
         /\ \A v, k : Reached(u, v, k) = Reached(s, v, k)
<1>1. s = [alloc |-> s.alloc, tables |-> s.tables, root |-> s.root]
  BY DEF Sound, Shape
<1>2. u.alloc = a /\ u.root = s.root /\ u.tables = s.tables
      /\ u = [alloc |-> u.alloc, tables |-> u.tables, root |-> u.root]
  BY <1>1
<1>3. \A t, i : Entry(u, t, i) = Entry(s, t, i)
  BY <1>2 DEF Entry
<1>4. TablesOf(u) = TablesOf(s)
  BY <1>2 DEF TablesOf
<1>5. Shape(u)
  BY <1>2, <1>4 DEF Sound, Shape
<1>6. \A lv : Tree(s, lv) => Tree(u, lv)
  BY <1>2, <1>3, <1>4 DEF Tree
<1>7. Sound(u)
  BY <1>2, <1>4, <1>5, <1>6 DEF Sound
<1>8. \A v : Translate(u, v) = Translate(s, v)
  BY <1>2, <1>3 DEF Translate
<1>9. \A v, k : Reached(u, v, k) = Reached(s, v, k)
  BY <1>2, <1>3 DEF Reached
<1> QED BY <1>2, <1>3, <1>4, <1>7, <1>8, <1>9

(* A turn of the loops over the memory and the frame buffer.               *)
LEMMA IdentityStep ==
  ASSUME NEW m \in Machines, NEW s, NEW S, SpaceInv(m, s, S, HeapPage, NULL),
         NEW v \in BelowSize(m) \cup FrameBuffer(m), NEW u, MapsTo(s, u, v, v)
  PROVE  SpaceInv(m, u, S \cup {v}, HeapPage, NULL)
<1> DEFINE N == New(s.alloc, u.alloc)
<1>1. HeapPage \in Nat
  BY PagesFacts
<1>2. HeapPage .. (HeapPage - 1) = {}
  BY <1>1
<1>3. HeapFramesOf(s, HeapPage) = {} /\ HeapFramesOf(u, HeapPage) = {}
  BY <1>2 DEF HeapFramesOf
<1>4. /\ Sound(u) /\ Took(s.alloc, u.alloc)
      /\ TablesOf(u) = TablesOf(s) \cup N
      /\ Entries(s, u, N \cup {v})
      /\ Translate(u, v) = v
      /\ \A x \in Pages : x # v => Translate(u, x) = Translate(s, x)
  BY DEF MapsTo
<1>5. MappedInv(u, S \cup {v}, HeapPage)
  BY <1>2, <1>4 DEF SpaceInv, MappedInv
<1>6. /\ u.alloc.size = s.alloc.size /\ s.alloc.bits \subseteq u.alloc.bits
      /\ N \subseteq u.alloc.bits \ s.alloc.bits /\ N \subseteq Bitmap_Indices(s.alloc)
  BY <1>4 DEF Took, New, Clear, Managed, Bitmap_Indices, Consistent
<1>7. FramesInv(m, u, HeapPage, NULL)
  <2>1. FramesInv(m, s, HeapPage, NULL) /\ Sound(s)
    BY DEF SpaceInv
  <2>2. /\ HeapFramesOf(u, HeapPage) = HeapFramesOf(s, HeapPage) \cup {}
        /\ {NULL} \ {NULL} = ({NULL} \ {NULL}) \cup {}
        /\ N \cap {} = {} /\ (N \cup {}) \cap {} = {}
        /\ N \cup {} \cup {} \subseteq u.alloc.bits \ s.alloc.bits
        /\ N \cup {} \cup {} \subseteq Bitmap_Indices(s.alloc)
    BY <1>3, <1>6
  <2>3. IsFiniteSet({}) /\ Cardinality({}) = HeapPage - HeapPage
    BY <1>1, FS_EmptySet
  <2> QED BY <1>1, <1>4, <1>6, <2>1, <2>2, <2>3, FramesGrow
<1>8. EntriesInv(m, u)
  <2>1. EntriesInv(m, s)
    BY DEF SpaceInv
  <2>2. N \cup {v} \subseteq TargetsOf(m, s)
    BY <1>6 DEF TargetsOf
  <2> QED BY <1>4, <1>6, <2>1, <2>2, EntriesGrow
<1> QED BY <1>4, <1>5, <1>7, <1>8 DEF SpaceInv

(* Locking the frame buffer, or taking the interrupt table's frame.        *)
LEMMA AllocatorStep ==
  ASSUME NEW m, NEW s, NEW S, NEW h \in Nat, SpaceInv(m, s, S, h, NULL),
         NEW a, Consistent(a), a.size = s.alloc.size, s.alloc.bits \subseteq a.bits,
         NEW d, {d} \ {NULL} \subseteq a.bits \ s.alloc.bits,
         NEW u, u = [s EXCEPT !.alloc = a]
  PROVE  /\ SpaceInv(m, u, S, h, d)
         /\ \A v : Translate(u, v) = Translate(s, v)
<1>1. /\ Sound(s) /\ MappedInv(s, S, h) /\ FramesInv(m, s, h, NULL) /\ EntriesInv(m, s)
  BY DEF SpaceInv
<1>2. /\ Sound(u) /\ u.alloc = a /\ u.root = s.root
      /\ TablesOf(u) = TablesOf(s)
      /\ \A t \in Int, i \in Indices : Entry(u, t, i) = Entry(s, t, i)
      /\ \A v : Translate(u, v) = Translate(s, v)
  BY <1>1, AllocatorAlone
<1>3. MappedInv(u, S, h)
  BY <1>1, <1>2 DEF MappedInv
<1>4. HeapFramesOf(u, h) = HeapFramesOf(s, h)
  BY <1>2 DEF HeapFramesOf
<1>5. FramesInv(m, u, h, d)
  <2> DEFINE I == {d} \ {NULL}
  <2>1. I \subseteq u.alloc.bits \ s.alloc.bits /\ I \subseteq Bitmap_Indices(s.alloc)
    BY <1>2 DEF Consistent, Bitmap_Indices
  <2>2. /\ HeapFramesOf(u, h) = HeapFramesOf(s, h) \cup {}
        /\ {d} \ {NULL} = ({NULL} \ {NULL}) \cup I
        /\ {} \cap {} = {} /\ ({} \cup {}) \cap I = {}
        /\ {} \cup {} \cup I \subseteq u.alloc.bits \ s.alloc.bits
        /\ {} \cup {} \cup I \subseteq Bitmap_Indices(s.alloc)
        /\ TablesOf(u) = TablesOf(s) \cup {}
        /\ u.alloc.size = s.alloc.size /\ s.alloc.bits \subseteq u.alloc.bits
    BY <1>2, <1>4, <2>1
  <2>3. IsFiniteSet({}) /\ Cardinality({}) = h - h
    BY FS_EmptySet
  <2>4. HeapPage \in Nat
    BY PagesFacts
  <2> HIDE DEF I
  <2> QED BY <1>1, <2>2, <2>3, <2>4, FramesGrow
<1>6. EntriesInv(m, u)
  <2>1. Entries(s, u, {})
    <3>1. TablesOf(s) \subseteq Int
      BY <1>1 DEF Sound, Shape
    <3> QED BY <1>2, <3>1 DEF Entries
  <2>2. PICK F : F = {}
    OBVIOUS
  <2>3. u.alloc.size = s.alloc.size /\ Entries(s, u, F) /\ F \subseteq TargetsOf(m, s)
    BY <1>2, <2>1, <2>2
  <2> HIDE <2>2
  <2> QED BY <1>1, <2>3, EntriesGrow, Zenon
<1> QED BY <1>2, <1>3, <1>5, <1>6 DEF SpaceInv

(* A turn of the loops over the heap: first the page's frame is taken, then*)
(* the tables that it needs.                                               *)
LEMMA HeapStep ==
  ASSUME NEW m, NEW s, NEW S \in SUBSET (0 .. (HeapPage - 1)),
         NEW h \in HeapPage .. (HeapPage + MaxHeapPages - 1), NEW d,
         SpaceInv(m, s, S, h, d),
         ~Refused(s),
         NEW u, MapsTo(TakeFrame(s), u, h, Requested(s))
  PROVE  /\ SpaceInv(m, u, S, h + 1, d)
         /\ Translate(s, h) = Absent
         /\ \A v \in Pages : v # h => Translate(u, v) = Translate(s, v)
<1>a. PICK f : f = Requested(s)
  OBVIOUS
<1>b. PICK x : x = TakeFrame(s)
  OBVIOUS
<1>c. MapsTo(x, u, h, f)
  BY <1>a, <1>b
<1> DEFINE N == New(x.alloc, u.alloc)
<1>1. /\ HeapPage \in Nat /\ h \in Nat /\ h \in Pages /\ HeapPage .. h \subseteq Pages
  BY PagesFacts
<1>2. /\ Sound(s) /\ MappedInv(s, S, h) /\ FramesInv(m, s, h, d) /\ EntriesInv(m, s)
  BY DEF SpaceInv
<1>3. Consistent(s.alloc)
  BY <1>2 DEF Sound
<1>4. PICK a : a = Grant(s.alloc)
  OBVIOUS
<1>5. /\ Took(s.alloc, a) /\ New(s.alloc, a) = {f} /\ f \in Nat /\ f \in Clear(s.alloc)
  BY <1>3, <1>4, <1>a, TookOne DEF Refused, Requested
<1>6. x = [s EXCEPT !.alloc = a]
  BY <1>4, <1>b DEF TakeFrame
<1>7. Consistent(a) /\ s.alloc.bits \subseteq a.bits
  BY <1>5 DEF Took
<1>8. /\ Sound(x) /\ x.alloc = a
      /\ TablesOf(x) = TablesOf(s)
      /\ \A t \in Int, i \in Indices : Entry(x, t, i) = Entry(s, t, i)
      /\ \A v : Translate(x, v) = Translate(s, v)
  BY <1>2, <1>6, <1>7, AllocatorAlone
<1>9. /\ Sound(u) /\ Took(a, u.alloc)
      /\ TablesOf(u) = TablesOf(s) \cup N
      /\ Entries(x, u, N \cup {f})
      /\ Translate(u, h) = f
      /\ \A v \in Pages : v # h => Translate(u, v) = Translate(s, v)
  BY <1>8, <1>c DEF MapsTo
<1>10. /\ Took(s.alloc, u.alloc) /\ New(s.alloc, u.alloc) = {f} \cup N /\ f \notin N
  <2>1. /\ Took(s.alloc, u.alloc) /\ New(s.alloc, u.alloc) = {f} \cup New(a, u.alloc)
    BY <1>5, <1>9, TookMore
  <2>2. f \in a.bits
    BY <1>5 DEF New
  <2> QED BY <1>8, <2>1, <2>2 DEF New
<1>11. /\ u.alloc.size = s.alloc.size /\ s.alloc.bits \subseteq u.alloc.bits
       /\ N \cup {f} \subseteq u.alloc.bits \ s.alloc.bits
       /\ N \cup {f} \subseteq Bitmap_Indices(s.alloc)
  <2>1. /\ u.alloc.size = s.alloc.size /\ s.alloc.bits \subseteq u.alloc.bits
        /\ New(s.alloc, u.alloc) \subseteq Clear(s.alloc) /\ Consistent(u.alloc)
    BY <1>10 DEF Took
  <2>2. New(s.alloc, u.alloc) \subseteq u.alloc.bits \ s.alloc.bits
    BY DEF New
  <2>3. u.alloc.bits \subseteq Bitmap_Indices(s.alloc)
    BY <2>1 DEF Consistent, Bitmap_Indices
  <2> QED BY <1>10, <2>1, <2>2, <2>3
<1> HIDE DEF N
<1>12. HeapPage .. ((h + 1) - 1) = (HeapPage .. (h - 1)) \cup {h}
  BY <1>1
<1>13. h \notin S /\ h \notin HeapPage .. (h - 1)
  BY <1>1
<1>14. MappedInv(u, S, h + 1)
  BY <1>2, <1>9, <1>12, <1>13 DEF MappedInv
<1>15. HeapFramesOf(u, h + 1) = HeapFramesOf(s, h) \cup {f}
  <2>1. \A v \in HeapPage .. (h - 1) : v # h /\ v \in Pages
    BY <1>1
  <2> QED BY <1>9, <1>12, <2>1 DEF HeapFramesOf
<1>16. FramesInv(m, u, h + 1, d)
  <2>1. /\ {d} \ {NULL} = ({d} \ {NULL}) \cup {}
        /\ N \cap {f} = {} /\ (N \cup {f}) \cap {} = {}
        /\ N \cup {f} \cup {} \subseteq u.alloc.bits \ s.alloc.bits
        /\ N \cup {f} \cup {} \subseteq Bitmap_Indices(s.alloc)
    BY <1>10, <1>11
  <2>2. PICK g \in Nat : g = h + 1
    BY <1>1
  <2>3. IsFiniteSet({f}) /\ Cardinality({f}) = g - h
    <3>1. IsFiniteSet({f}) /\ Cardinality({f}) = 1
      BY FS_Singleton
    <3> QED BY <1>1, <2>2, <3>1
  <2>4. HeapFramesOf(u, g) = HeapFramesOf(s, h) \cup {f}
    BY <1>15, <2>2
  <2>5. FramesInv(m, u, g, d)
    BY <1>1, <1>2, <1>9, <1>11, <2>1, <2>3, <2>4, FramesGrow
  <2> QED BY <2>2, <2>5
<1>17. EntriesInv(m, u)
  <2>1. Entries(s, u, N \cup {f})
    <3>1. TablesOf(s) \subseteq Int
      BY <1>2 DEF Sound, Shape
    <3> QED BY <1>8, <1>9, <3>1 DEF Entries
  <2>2. N \cup {f} \subseteq TargetsOf(m, s)
    BY <1>11 DEF TargetsOf
  <2> QED BY <1>2, <1>11, <2>1, <2>2, EntriesGrow
<1>18. Translate(s, h) = Absent
  BY <1>1, <1>2, <1>13 DEF MappedInv
<1> QED BY <1>9, <1>14, <1>16, <1>17, <1>18, <1>a DEF SpaceInv

(* The start: the bitmap, the kernel and low memory are locked, and the    *)
(* empty PML4 is the only table.                                           *)
Started(m, garbage) == LockPages(Boot(m.map, garbage), LockedKernel(m))

LEMMA StartStep ==
  ASSUME NEW m \in Machines, NEW garbage \in SUBSET {8 * BitmapSize(m.map)},
         NEW b, b = Started(m, garbage), Found(b),
         NEW r, r = FoundFrame(b),
         NEW u, u = [alloc |-> Grant(b), tables |-> [f \in {r} |-> EmptyTable], root |-> r]
  PROVE  /\ SpaceInv(m, u, {}, HeapPage, NULL)
         /\ \A v \in Pages : Translate(u, v) = Absent
<1>1. /\ GetMemorySize(m.map) \in Nat /\ BitmapSize(m.map) \in Nat
      /\ KernelFrames(m) \subseteq LockedKernel(m)
  BY MachineFacts
<1>2. PICK o : o = Boot(m.map, garbage)
  OBVIOUS
<1>3. /\ Consistent(o) /\ o.size = BitmapSize(m.map)
      /\ (BitmapFrames(m.map) \cup Frames(0, LowPages)) \cap Bitmap_Indices(o) \subseteq o.bits
  BY <1>1, <1>2, BootFacts
<1>4. b = LockPages(o, LockedKernel(m))
  BY <1>2 DEF Started
<1>5. Consistent(b)
  BY <1>3, <1>4, SetBitsConsistent
<1>6. b.size = o.size /\ b.bits = o.bits \cup Fresh(o, LockedKernel(m))
  BY <1>3, <1>4, SetBitsEffect DEF Consistent
<1>7. Before(m) \cap Bitmap_Indices(b) \subseteq b.bits
  <2>1. Bitmap_Indices(b) = Bitmap_Indices(o)
    BY <1>6 DEF Bitmap_Indices
  <2>2. LockedKernel(m) \cap Bitmap_Indices(o) \subseteq b.bits
    BY <1>6 DEF Fresh
  <2> QED BY <1>1, <1>3, <1>6, <2>1, <2>2 DEF Before
<1>8. PICK a : a = Grant(b)
  OBVIOUS
<1>9. /\ Took(b, a) /\ New(b, a) = {r} /\ r \in Nat /\ r \in Clear(b)
  BY <1>5, <1>8, TookOne
<1>10. /\ Consistent(a) /\ a.size = BitmapSize(m.map) /\ b.bits \subseteq a.bits
       /\ r \in a.bits /\ r \notin b.bits
  <2>1. Consistent(a) /\ a.size = b.size /\ b.bits \subseteq a.bits
    BY <1>9 DEF Took
  <2>2. r \in a.bits /\ r \notin b.bits
    BY <1>9 DEF New
  <2> QED BY <1>3, <1>6, <2>1, <2>2
<1>11. Bitmap_Indices(a) = Bitmap_Indices(b)
  BY <1>3, <1>6, <1>10 DEF Bitmap_Indices
<1>12. EmptyTable \in [Indices -> Int] /\ \A j \in Indices : EmptyTable[j] = Absent
  BY DEF EmptyTable, Indices, Absent
<1>13. /\ u.alloc = a /\ u.root = r /\ u.tables = [f \in {r} |-> EmptyTable]
       /\ u = [alloc |-> u.alloc, tables |-> u.tables, root |-> u.root]
  BY <1>8
<1>14. TablesOf(u) = {r}
  BY <1>13 DEF TablesOf
<1>15. \A j \in Indices : Entry(u, r, j) = Absent /\ Entry(u, Absent, j) = Absent
  BY <1>9, <1>12, <1>13 DEF Entry
<1>16. Sound(u)
  <2>1. Shape(u)
    BY <1>9, <1>12, <1>13, <1>14 DEF Shape
  <2>2. PICK lv : lv = [t \in {r} |-> 3]
    OBVIOUS
  <2>3. lv \in [{r} -> 0 .. 3] /\ lv[r] = 3
    BY <2>2
  <2>4. Tree(u, lv)
    BY <1>13, <1>14, <1>15, <2>3 DEF Tree
  <2> QED BY <1>10, <1>13, <1>14, <2>1, <2>4 DEF Sound
<1>17. \A v \in Pages : Translate(u, v) = Absent
  <2> SUFFICES ASSUME NEW v \in Pages PROVE Translate(u, v) = Absent
    OBVIOUS
  <2>1. v \in Nat
    BY DEF Pages
  <2>2. \A k \in 0 .. 3 : Index(v, k) \in Indices
    BY <2>1, IndexIsIndex
  <2>3. Reached(u, v, 0) = Absent
    BY <1>13, <1>15, <2>2 DEF Reached
  <2> QED BY <1>15, <2>1, <2>2, <2>3, ReachedNext
<1>18. MappedInv(u, {}, HeapPage)
  BY <1>17 DEF MappedInv
<1>19. HeapPage \in Nat /\ HeapPage .. (HeapPage - 1) = {} /\ HeapFramesOf(u, HeapPage) = {}
  <2>1. HeapPage \in Nat /\ HeapPage .. (HeapPage - 1) = {}
    BY PagesFacts
  <2> QED BY <2>1 DEF HeapFramesOf
<1>20. FramesInv(m, u, HeapPage, NULL)
  <2>1. r \notin Before(m)
    <3>1. r \in Bitmap_Indices(b)
      BY <1>10, <1>11 DEF Consistent
    <3> QED BY <1>7, <1>10, <3>1
  <2>2. IsFiniteSet(HeapFramesOf(u, HeapPage)) /\ Cardinality(HeapFramesOf(u, HeapPage)) = HeapPage - HeapPage
    BY <1>19, FS_EmptySet
  <2>3. {NULL} \ {NULL} = {}
    OBVIOUS
  <2> QED BY <1>7, <1>10, <1>11, <1>13, <1>14, <1>19, <2>1, <2>2, <2>3 DEF FramesInv
<1>21. EntriesInv(m, u)
  BY <1>14, <1>15 DEF EntriesInv
<1> QED BY <1>16, <1>17, <1>18, <1>20, <1>21 DEF SpaceInv
-----------------------------------------------------------------------------
(***************************************************************************)
(* Every action keeps the invariant and maps one page at most.             *)
(***************************************************************************)
LEMMA MapOutcome ==
  ASSUME NEW s, Sound(s), NEW v \in Pages, NEW f \in Int
  PROVE  /\ Outcome(s, v) \in {"ok", "exhausted", "fault"}
         /\ Outcome(s, v) = "ok" => MapsTo(s, MapMemory(s, v, f), v, f)
<1>1. Outcome(s, v) \in {"ok", "exhausted", "fault"}
  BY DEF Outcome
<1>2. ASSUME Outcome(s, v) = "ok"
      PROVE  MapsTo(s, MapMemory(s, v, f), v, f)
  <2>1. ~Walk(s, v).refused
    BY <1>2 DEF Outcome
  <2> QED BY <2>1, MapMemoryMaps
<1> QED BY <1>1, <1>2

(* What a step does to one page, as MapsOnePage says. *)
MapsOneStep ==
  \A v \in Pages :
    LET before == Translate(space, v)
        after  == Translate(space', v)
    IN  IF phase' = phase /\ page' = page + 1 /\ v = page THEN after = page
        ELSE IF heapEnd' = heapEnd + 1 /\ v = heapEnd
        THEN before = Absent /\ after = FoundFrame(space.alloc)
        ELSE after = before

LEMMA NothingMapped ==
  ASSUME heapEnd \in Nat, heapEnd' = heapEnd,
         phase' # phase \/ (page \in Nat /\ page' = page),
         \A v \in Pages : Translate(space', v) = Translate(space, v)
  PROVE  MapsOneStep
<1>1. heapEnd' # heapEnd + 1
  OBVIOUS
<1>2. ~(phase' = phase /\ page' = page + 1)
  OBVIOUS
<1> QED BY <1>1, <1>2 DEF MapsOneStep

LEMMA InitStep == Init => AInv
<1> SUFFICES ASSUME Init PROVE AInv
  OBVIOUS
<1>1. HeapPage \in Nat /\ HeapPage \in HeapPage .. (HeapPage + MaxHeapPages)
  BY PagesFacts
<1> QED BY <1>1 DEF Init, AInv, ProgressInv, Loaded, NULL

LEMMA InitMemoryStep == AInv /\ InitMemory => AInv' /\ MapsOneStep
<1> SUFFICES ASSUME AInv, InitMemory PROVE AInv' /\ MapsOneStep
  OBVIOUS
<1>1. /\ ProgressInv /\ machine \in Machines /\ phase = "boot" /\ page = 0
      /\ heapEnd = HeapPage /\ idt = NULL
      /\ space = [alloc |-> Unbooted, tables |-> [f \in {} |-> EmptyTable], root |-> Absent]
      /\ HeapPage \in Nat
      /\ UNCHANGED <<machine, page, heapEnd, idt>>
  BY PagesFacts DEF AInv, ProgressInv, InitMemory, Loaded
<1>2. PICK garbage \in SUBSET {8 * BitmapSize(machine.map)} :
        LET s == [space EXCEPT !.alloc = Started(machine, garbage)]
        IN  IF Refused(s)
            THEN status' = "exhausted" /\ UNCHANGED <<phase, space>>
            ELSE /\ phase' = "identity"
                 /\ space' = [alloc  |-> Grant(s.alloc),
                              tables |-> [f \in {Requested(s)} |-> EmptyTable],
                              root   |-> Requested(s)]
                 /\ UNCHANGED status
  BY DEF InitMemory, Started
<1>3. PICK b : b = Started(machine, garbage)
  OBVIOUS
<1>4. PICK s : s = [space EXCEPT !.alloc = b]
  OBVIOUS
<1>5. s = [alloc |-> b, tables |-> [f \in {} |-> EmptyTable], root |-> Absent]
  BY <1>1, <1>4
<1>6. CASE Refused(s)
  <2>1. status' = "exhausted" /\ UNCHANGED <<phase, space>>
    BY <1>2, <1>3, <1>4, <1>6
  <2>2. AInv'
    BY <1>1, <2>1 DEF AInv, ProgressInv, Loaded
  <2>3. MapsOneStep
    BY <1>1, <2>1, NothingMapped
  <2> QED BY <2>2, <2>3
<1>7. CASE ~Refused(s)
  <2>1. PICK r : r = FoundFrame(b)
    OBVIOUS
  <2>2. Found(b) /\ Requested(s) = r
    BY <1>5, <1>7, <2>1 DEF Refused, Requested
  <2>3. /\ phase' = "identity" /\ status' = status
        /\ space' = [alloc |-> Grant(s.alloc), tables |-> [f \in {r} |-> EmptyTable],
                     root |-> r]
    BY <1>2, <1>3, <1>4, <1>7, <2>2
  <2>4. s.alloc = b
    BY <1>5
  <2>5. space' = [alloc |-> Grant(b), tables |-> [f \in {r} |-> EmptyTable], root |-> r]
    BY <2>3, <2>4, Zenon
  <2>6. /\ SpaceInv(machine, space', {}, HeapPage, NULL)
        /\ \A v \in Pages : Translate(space', v) = Absent
    BY <1>1, <1>3, <2>1, <2>2, <2>5, StartStep
  <2>7. SoFar(machine', phase', page') = {}
    BY <1>1, <2>3 DEF SoFar
  <2>8. SpaceInv(machine', space', SoFar(machine', phase', page'), heapEnd', idt')
    BY <1>1, <2>6, <2>7
  <2>9. ProgressInv'
    <3>1. MemoryFrames(machine) \in Nat
      BY <1>1, MachineFacts
    <3> QED BY <1>1, <2>3, <3>1 DEF ProgressInv, Loaded
  <2>10. AInv'
    BY <2>3, <2>8, <2>9 DEF AInv
  <2>11. \A v \in Pages : Translate(space, v) = Absent
    BY <1>1 DEF Translate, Entry
  <2>12. MapsOneStep
    BY <1>1, <2>3, <2>6, <2>11, NothingMapped
  <2> QED BY <2>10, <2>12
<1> QED BY <1>6, <1>7

(* One turn of either loop that maps a page to its own address. *)
LEMMA LoopStep ==
  ASSUME AInv, phase \in {"identity", "frameBuffer"},
         page \in BelowSize(machine) \cup FrameBuffer(machine),
         SoFar(machine, phase, page + 1) = SoFar(machine, phase, page) \cup {page},
         page \in Nat,
         Map(space, page, page),
         page' = IF status' = "ok" THEN page + 1 ELSE page,
         UNCHANGED <<machine, phase, heapEnd, idt>>
  PROVE  /\ SpaceInv(machine', space', SoFar(machine', phase', page'), heapEnd', idt')
         /\ status' \in {"ok", "exhausted", "fault"}
         /\ MapsOneStep
<1>1. /\ SpaceInv(machine, space, SoFar(machine, phase, page), HeapPage, NULL)
      /\ heapEnd = HeapPage /\ idt = NULL /\ machine \in Machines
      /\ HeapPage \in Nat
  BY PagesFacts DEF AInv, ProgressInv, Loaded
<1>2. page \in Pages
  <2>1. page \in 0 .. (HeapPage - 1)
    BY <1>1, MachineFacts
  <2> QED BY <1>1, <2>1, PagesFacts
<1>3. Sound(space)
  BY <1>1 DEF SpaceInv
<1>4. /\ status' = Outcome(space, page) /\ status' \in {"ok", "exhausted", "fault"}
      /\ status' = "ok" => space' = MapMemory(space, page, page)
      /\ status' # "ok" => space' = space
  BY <1>2, <1>3, MapOutcome DEF Map
<1>5. CASE status' = "ok"
  <2>1. MapsTo(space, space', page, page)
    <3>1. page \in Int /\ Outcome(space, page) = "ok"
      BY <1>4, <1>5
    <3>2. MapsTo(space, MapMemory(space, page, page), page, page)
      BY <1>2, <1>3, <3>1, MapOutcome, Zenon
    <3> QED BY <1>4, <1>5, <3>2, Zenon
  <2>2. SpaceInv(machine, space', SoFar(machine, phase, page) \cup {page}, HeapPage, NULL)
    <3>1. page \in BelowSize(machine) \cup FrameBuffer(machine)
      OBVIOUS
    <3> QED BY <1>1, <2>1, <3>1, IdentityStep, Zenon
  <2>3. page' = page + 1
    BY <1>5
  <2>4. SpaceInv(machine', space', SoFar(machine', phase', page'), heapEnd', idt')
    BY <1>1, <2>2, <2>3
  <2>5. MapsOneStep
    <3>1. /\ Translate(space', page) = page
          /\ \A v \in Pages : v # page => Translate(space', v) = Translate(space, v)
      BY <2>1 DEF MapsTo
    <3>2. heapEnd' # heapEnd + 1
      BY <1>1
    <3> QED BY <2>3, <3>1, <3>2 DEF MapsOneStep
  <2> QED BY <1>4, <2>4, <2>5
<1>6. CASE status' # "ok"
  <2>1. space' = space /\ page' = page
    BY <1>4, <1>6
  <2>2. SpaceInv(machine', space', SoFar(machine', phase', page'), heapEnd', idt')
    BY <1>1, <2>1
  <2>3. MapsOneStep
    BY <1>1, <2>1, NothingMapped
  <2> QED BY <1>4, <2>2, <2>3
<1> QED BY <1>5, <1>6

LEMMA MapIdentityStep == AInv /\ MapIdentity => AInv' /\ MapsOneStep
<1> SUFFICES ASSUME AInv, MapIdentity PROVE AInv' /\ MapsOneStep
  OBVIOUS
<1>1. /\ ProgressInv /\ machine \in Machines /\ phase = "identity"
      /\ page \in 0 .. MemoryFrames(machine) /\ page < MemoryFrames(machine)
      /\ Map(space, page, page)
      /\ page' = IF status' = "ok" THEN page + 1 ELSE page
      /\ UNCHANGED <<machine, phase, heapEnd, idt>>
  BY DEF AInv, ProgressInv, MapIdentity, IdentityPages
<1>2. MemoryFrames(machine) \in Nat /\ BelowSize(machine) = 0 .. (MemoryFrames(machine) - 1)
  BY <1>1, MachineFacts
<1>3. page \in BelowSize(machine) /\ page \in Nat /\ page + 1 \in 0 .. MemoryFrames(machine)
  BY <1>1, <1>2
<1>4. SoFar(machine, phase, page + 1) = SoFar(machine, phase, page) \cup {page}
  BY <1>1, <1>3 DEF SoFar
<1>5. /\ SpaceInv(machine', space', SoFar(machine', phase', page'), heapEnd', idt')
      /\ status' \in {"ok", "exhausted", "fault"}
      /\ MapsOneStep
  BY <1>1, <1>3, <1>4, LoopStep
<1>6. page' \in 0 .. MemoryFrames(machine)
  BY <1>1, <1>3
<1>7. ProgressInv'
  BY <1>1, <1>5, <1>6 DEF ProgressInv, Loaded
<1> QED BY <1>1, <1>5, <1>7 DEF AInv

LEMMA MapFrameBufferStep == AInv /\ MapFrameBuffer => AInv' /\ MapsOneStep
<1> SUFFICES ASSUME AInv, MapFrameBuffer PROVE AInv' /\ MapsOneStep
  OBVIOUS
<1>1. /\ ProgressInv /\ machine \in Machines /\ phase = "frameBuffer"
      /\ page \in FrameBuffer(machine)
      /\ Map(space, page, page)
      /\ page' = IF status' = "ok" THEN page + 1 ELSE page
      /\ UNCHANGED <<machine, phase, heapEnd, idt>>
  BY DEF AInv, ProgressInv, MapFrameBuffer
<1>2. PICK n \in Nat : n = FrameBufferPages(machine)
  BY <1>1, MachineFacts
<1>3. PICK a \in Nat : a = machine.frameBuffer.first
  BY <1>1, MachineFacts
<1>4. FrameBuffer(machine) = a .. (a + n - 1)
  BY <1>1, <1>2, <1>3, MachineFacts
<1>5. page \in Nat /\ a =< page /\ page + 1 \in a .. (a + n)
  BY <1>1, <1>4
<1>6. SoFar(machine, phase, page + 1) = SoFar(machine, phase, page) \cup {page}
  BY <1>1, <1>3, <1>5 DEF SoFar
<1>7. /\ SpaceInv(machine', space', SoFar(machine', phase', page'), heapEnd', idt')
      /\ status' \in {"ok", "exhausted", "fault"}
      /\ MapsOneStep
  BY <1>1, <1>5, <1>6, LoopStep
<1>8. page' \in a .. (a + n)
  BY <1>1, <1>4, <1>5
<1>9. page' \in machine'.frameBuffer.first .. (machine'.frameBuffer.first + FrameBufferPages(machine'))
  BY <1>1, <1>2, <1>3, <1>8
<1>10. ProgressInv'
  BY <1>1, <1>7, <1>9 DEF ProgressInv, Loaded
<1> QED BY <1>1, <1>7, <1>10 DEF AInv

LEMMA LockFrameBufferStep == AInv /\ LockFrameBuffer => AInv' /\ MapsOneStep
<1> SUFFICES ASSUME AInv, LockFrameBuffer PROVE AInv' /\ MapsOneStep
  OBVIOUS
<1>1. /\ ProgressInv /\ machine \in Machines /\ phase = "identity"
      /\ page = MemoryFrames(machine)
      /\ heapEnd = HeapPage /\ idt = NULL /\ HeapPage \in Nat
      /\ SpaceInv(machine, space, SoFar(machine, phase, page), HeapPage, NULL)
      /\ space' = [space EXCEPT !.alloc = LockPages(@, LockedFrameBuffer(machine))]
      /\ page' = machine.frameBuffer.first /\ phase' = "frameBuffer"
      /\ UNCHANGED <<machine, heapEnd, idt, status>>
  BY PagesFacts DEF AInv, ProgressInv, LockFrameBuffer, IdentityPages, Loaded
<1>2. PICK a : a = LockPages(space.alloc, LockedFrameBuffer(machine))
  OBVIOUS
<1>3. Consistent(space.alloc)
  BY <1>1 DEF SpaceInv, Sound
<1>4. Consistent(a)
  BY <1>2, <1>3, SetBitsConsistent
<1>5. a.size = space.alloc.size /\ space.alloc.bits \subseteq a.bits
  BY <1>2, <1>3, SetBitsEffect DEF Consistent
<1>6. space' = [space EXCEPT !.alloc = a]
  BY <1>1, <1>2
<1>7. {NULL} \ {NULL} \subseteq a.bits \ space.alloc.bits
  OBVIOUS
<1>8. /\ SpaceInv(machine, space', SoFar(machine, phase, page), HeapPage, NULL)
      /\ \A v : Translate(space', v) = Translate(space, v)
  BY <1>1, <1>4, <1>5, <1>6, <1>7, AllocatorStep
<1>9. SoFar(machine', phase', page') = SoFar(machine, phase, page)
  <2>1. PICK x \in Nat : x = machine.frameBuffer.first
    BY <1>1, MachineFacts
  <2>2. x .. (x - 1) = {}
    OBVIOUS
  <2>3. BelowSize(machine) = 0 .. (page - 1)
    BY <1>1, MachineFacts
  <2> QED BY <1>1, <2>1, <2>2, <2>3 DEF SoFar
<1>10. SpaceInv(machine', space', SoFar(machine', phase', page'), heapEnd', idt')
  BY <1>1, <1>8, <1>9
<1>11. ProgressInv'
  <2>1. PICK x \in Nat : x = machine.frameBuffer.first
    BY <1>1, MachineFacts
  <2>2. PICK n \in Nat : n = FrameBufferPages(machine)
    BY <1>1, MachineFacts
  <2>3. page' \in machine'.frameBuffer.first .. (machine'.frameBuffer.first + FrameBufferPages(machine'))
    BY <1>1, <2>1, <2>2
  <2> QED BY <1>1, <2>3 DEF ProgressInv, Loaded
<1>12. MapsOneStep
  BY <1>1, <1>8, NothingMapped
<1> QED BY <1>1, <1>10, <1>11, <1>12 DEF AInv

LEMMA LoadCR3Step == AInv /\ LoadCR3 => AInv' /\ MapsOneStep
<1> SUFFICES ASSUME AInv, LoadCR3 PROVE AInv' /\ MapsOneStep
  OBVIOUS
<1>1. /\ ProgressInv /\ machine \in Machines /\ phase = "frameBuffer"
      /\ page \notin FrameBuffer(machine)
      /\ page \in machine.frameBuffer.first .. (machine.frameBuffer.first + FrameBufferPages(machine))
      /\ heapEnd = HeapPage /\ idt = NULL /\ HeapPage \in Nat
      /\ SpaceInv(machine, space, SoFar(machine, phase, page), HeapPage, NULL)
      /\ phase' = "heap"
      /\ UNCHANGED <<machine, space, page, heapEnd, idt, status>>
  BY PagesFacts DEF AInv, ProgressInv, LoadCR3, Loaded
<1>2. PICK n \in Nat : n = FrameBufferPages(machine)
  BY <1>1, MachineFacts
<1>3. PICK a \in Nat : a = machine.frameBuffer.first
  BY <1>1, MachineFacts
<1>4. FrameBuffer(machine) = a .. (a + n - 1)
  BY <1>1, <1>2, <1>3, MachineFacts
<1>5. page = a + n
  BY <1>1, <1>2, <1>3, <1>4
<1>6. SoFar(machine', phase', page') = SoFar(machine, phase, page)
  <2>1. SoFar(machine, phase, page) = BelowSize(machine) \cup a .. (page - 1)
    BY <1>1, <1>3 DEF SoFar
  <2>2. SoFar(machine', phase', page') = BelowSize(machine) \cup FrameBuffer(machine)
    BY <1>1 DEF SoFar
  <2>3. page - 1 = a + n - 1
    BY <1>5
  <2> QED BY ONLY <1>4, <2>1, <2>2, <2>3
<1>7. SpaceInv(machine', space', SoFar(machine', phase', page'), heapEnd', idt')
  BY <1>1, <1>6
<1>8. ProgressInv'
  BY <1>1 DEF ProgressInv, Loaded
<1>9. MapsOneStep
  BY <1>1, NothingMapped
<1> QED BY <1>1, <1>7, <1>8, <1>9 DEF AInv

(* A turn of the loops of InitHeap and ExpandHeap. *)
LEMMA HeapPageStep ==
  ASSUME AInv, Loaded, heapEnd < HeapPage + MaxHeapPages, MapHeapPage,
         UNCHANGED <<machine, phase, page, idt>>
  PROVE  AInv' /\ MapsOneStep
<1>1. /\ ProgressInv /\ machine \in Machines /\ phase \in {"heap", "running"}
      /\ SpaceInv(machine, space, SoFar(machine, phase, page), heapEnd, idt)
      /\ heapEnd \in HeapPage .. (HeapPage + MaxHeapPages) /\ idt \in Nat
  BY DEF AInv, ProgressInv, Loaded
<1>2. HeapPage \in Nat /\ MaxHeapPages \in Nat
  BY PagesFacts
<1>3. heapEnd \in HeapPage .. (HeapPage + MaxHeapPages - 1) /\ heapEnd \in Nat
  BY <1>1, <1>2
<1>4. page \in Nat
  <2>1. PICK a \in Nat : a = machine.frameBuffer.first
    BY <1>1, MachineFacts
  <2>2. PICK n \in Nat : n = FrameBufferPages(machine)
    BY <1>1, MachineFacts
  <2>3. page \in a .. (a + n)
    BY <1>1, <2>1, <2>2 DEF ProgressInv
  <2> QED BY <2>3
<1>5. SoFar(machine, phase, page) \subseteq 0 .. (HeapPage - 1)
  BY <1>1, MachineFacts DEF SoFar
<1>6. heapEnd \in Pages
  BY <1>2, <1>3, PagesFacts
<1>7. ASSUME status' # "ok", status' \in {"exhausted", "fault"}, UNCHANGED space
      PROVE  AInv' /\ MapsOneStep
  <2>1. heapEnd' = heapEnd
    BY <1>7 DEF MapHeapPage
  <2>2. SpaceInv(machine', space', SoFar(machine', phase', page'), heapEnd', idt')
    BY <1>1, <1>7, <2>1
  <2>3. ProgressInv'
    BY <1>1, <1>7, <2>1 DEF ProgressInv, Loaded
  <2>4. MapsOneStep
    BY <1>3, <1>4, <1>7, <2>1, NothingMapped
  <2> QED BY <1>1, <2>2, <2>3, <2>4 DEF AInv
<1>8. CASE Refused(space)
  <2>1. status' = "exhausted" /\ UNCHANGED space
    BY <1>8 DEF MapHeapPage
  <2> QED BY <1>7, <2>1
<1>9. CASE ~Refused(space)
  <2>1. Map(TakeFrame(space), heapEnd, Requested(space))
    BY <1>9 DEF MapHeapPage
  <2>2. PICK x : x = TakeFrame(space)
    OBVIOUS
  <2>3. Sound(space) /\ Consistent(space.alloc)
    BY <1>1 DEF SpaceInv, Sound
  <2>4. PICK f \in Nat : f = Requested(space)
    BY <1>9, <2>3, TookOne DEF Refused, Requested
  <2>5. Sound(x)
    <3>1. PICK a : a = Grant(space.alloc)
      OBVIOUS
    <3>2. Consistent(a) /\ space.alloc.bits \subseteq a.bits
      BY <1>9, <2>3, <3>1, TookOne DEF Refused, Took
    <3>3. x = [space EXCEPT !.alloc = a]
      BY <2>2, <3>1 DEF TakeFrame
    <3> QED BY <2>3, <3>2, <3>3, AllocatorAlone
  <2>6. /\ status' = Outcome(x, heapEnd) /\ status' \in {"ok", "exhausted", "fault"}
        /\ status' = "ok" => space' = MapMemory(x, heapEnd, f)
        /\ status' # "ok" => space' = space
    BY <1>6, <2>1, <2>2, <2>4, <2>5, MapOutcome DEF Map
  <2>7. CASE status' # "ok"
    BY <1>7, <2>6, <2>7
  <2>8. CASE status' = "ok"
    <3>1. MapsTo(x, space', heapEnd, f)
      <4>1. f \in Int /\ Outcome(x, heapEnd) = "ok"
        BY <2>6, <2>8
      <4>2. MapsTo(x, MapMemory(x, heapEnd, f), heapEnd, f)
        BY <1>6, <2>5, <4>1, MapOutcome, Zenon
      <4> QED BY <2>6, <2>8, <4>2, Zenon
    <3>2. /\ SpaceInv(machine, space', SoFar(machine, phase, page), heapEnd + 1, idt)
          /\ Translate(space, heapEnd) = Absent /\ Translate(space', heapEnd) = f
          /\ \A v \in Pages : v # heapEnd => Translate(space', v) = Translate(space, v)
      <4>1. PICK S : S = SoFar(machine, phase, page)
        OBVIOUS
      <4>2. PICK s : s = space
        OBVIOUS
      <4>3. PICK u : u = space'
        OBVIOUS
      <4>4. PICK m : m = machine
        OBVIOUS
      <4>5. PICK h \in HeapPage .. (HeapPage + MaxHeapPages - 1) : h = heapEnd
        BY <1>3
      <4>6. PICK d : d = idt
        OBVIOUS
      <4>7. SpaceInv(m, s, S, h, d) /\ S \subseteq 0 .. (HeapPage - 1)
        BY <1>1, <1>5, <4>1, <4>2, <4>4, <4>5, <4>6
      <4>8. ~Refused(s) /\ f = Requested(s) /\ x = TakeFrame(s)
        BY <1>9, <2>2, <2>4, <4>2
      <4>9. MapsTo(TakeFrame(s), u, h, Requested(s))
        BY <3>1, <4>3, <4>5, <4>8
      <4>10. /\ SpaceInv(m, u, S, h + 1, d)
             /\ Translate(s, h) = Absent /\ Translate(u, h) = Requested(s)
             /\ \A v \in Pages : v # h => Translate(u, v) = Translate(s, v)
        <5>1. ~Refused(s)
          BY <4>8
        <5>2. h \in HeapPage .. (HeapPage + MaxHeapPages - 1)
          BY <4>5
        <5>3. SpaceInv(m, s, S, h, d)
          BY <4>7
        <5>4. S \in SUBSET (0 .. (HeapPage - 1))
          BY <4>7
        <5>5. Translate(u, h) = Requested(s)
          BY <4>9 DEF MapsTo
        <5> QED BY <4>9, <5>1, <5>2, <5>3, <5>4, <5>5, HeapStep
      <4> QED BY <4>1, <4>2, <4>3, <4>4, <4>5, <4>6, <4>8, <4>10
    <3>3. heapEnd' = heapEnd + 1
      BY <2>8 DEF MapHeapPage
    <3>4. SpaceInv(machine', space', SoFar(machine', phase', page'), heapEnd', idt')
      BY <3>2, <3>3
    <3>5. heapEnd' \in HeapPage .. (HeapPage + MaxHeapPages)
      BY <1>2, <1>3, <3>3
    <3>6. ProgressInv'
      BY <1>1, <2>8, <3>5 DEF ProgressInv, Loaded
    <3>7. MapsOneStep
      <4>1. page' # page + 1
        BY <1>4
      <4>2. f = FoundFrame(space.alloc)
        BY <2>4 DEF Requested
      <4> QED BY <3>2, <3>3, <4>1, <4>2 DEF MapsOneStep
    <3> QED BY <1>1, <3>4, <3>6, <3>7 DEF AInv
  <2> QED BY <2>7, <2>8
<1> QED BY <1>8, <1>9

LEMMA InitHeapStep == AInv /\ InitHeap => AInv' /\ MapsOneStep
<1> SUFFICES ASSUME AInv, InitHeap PROVE AInv' /\ MapsOneStep
  OBVIOUS
<1>1. Loaded /\ MapHeapPage /\ UNCHANGED <<machine, phase, page, idt>>
  BY DEF InitHeap, Loaded
<1>2. heapEnd < HeapPage + MaxHeapPages
  <2>1. heapEnd \in Int
    BY PagesFacts DEF AInv, ProgressInv
  <2> QED BY <2>1, PagesFacts DEF InitHeap
<1> QED BY <1>1, <1>2, HeapPageStep

LEMMA ExpandHeapStep == AInv /\ ExpandHeap => AInv' /\ MapsOneStep
<1> SUFFICES ASSUME AInv, ExpandHeap PROVE AInv' /\ MapsOneStep
  OBVIOUS
<1>1. /\ Loaded /\ MapHeapPage /\ UNCHANGED <<machine, phase, page, idt>>
      /\ heapEnd < HeapPage + MaxHeapPages
  BY DEF ExpandHeap, Loaded
<1> QED BY <1>1, HeapPageStep

LEMMA ISRInstallStep == AInv /\ ISRInstall => AInv' /\ MapsOneStep
<1> SUFFICES ASSUME AInv, ISRInstall PROVE AInv' /\ MapsOneStep
  OBVIOUS
<1>1. /\ ProgressInv /\ machine \in Machines /\ phase = "heap" /\ idt = NULL
      /\ SpaceInv(machine, space, SoFar(machine, phase, page), heapEnd, NULL)
      /\ heapEnd \in HeapPage .. (HeapPage + MaxHeapPages)
      /\ phase' = "running" /\ UNCHANGED <<machine, page, heapEnd>>
  BY DEF AInv, ProgressInv, ISRInstall
<1>2. heapEnd \in Nat
  BY <1>1, PagesFacts
<1>3. SoFar(machine', phase', page') = SoFar(machine, phase, page)
  BY <1>1 DEF SoFar
<1>4. CASE Refused(space)
  <2>1. status' = "exhausted" /\ UNCHANGED <<space, idt>>
    BY <1>4 DEF ISRInstall
  <2>2. SpaceInv(machine', space', SoFar(machine', phase', page'), heapEnd', idt')
    BY <1>1, <1>3, <2>1
  <2>3. ProgressInv'
    BY <1>1, <2>1 DEF ProgressInv, Loaded, NULL
  <2>4. MapsOneStep
    BY <1>1, <1>2, <2>1, NothingMapped
  <2> QED BY <1>1, <2>2, <2>3, <2>4 DEF AInv
<1>5. CASE ~Refused(space)
  <2>1. /\ space' = TakeFrame(space) /\ idt' = Requested(space)
        /\ status' \in {"ok", "fault"}
    BY <1>5 DEF ISRInstall
  <2>2. Consistent(space.alloc)
    BY <1>1 DEF SpaceInv, Sound
  <2>3. PICK f \in Nat : f = Requested(space)
    BY <1>5, <2>2, TookOne DEF Refused, Requested
  <2>4. PICK a : a = Grant(space.alloc)
    OBVIOUS
  <2>5. Took(space.alloc, a) /\ New(space.alloc, a) = {f}
    BY <1>5, <2>2, <2>3, <2>4, TookOne DEF Refused, Requested
  <2>6. /\ Consistent(a) /\ a.size = space.alloc.size /\ space.alloc.bits \subseteq a.bits
        /\ {f} \ {NULL} \subseteq a.bits \ space.alloc.bits
    BY <2>5 DEF Took, New
  <2>7. space' = [space EXCEPT !.alloc = a]
    BY <2>1, <2>4 DEF TakeFrame
  <2>8. /\ SpaceInv(machine, space', SoFar(machine, phase, page), heapEnd, f)
        /\ \A v : Translate(space', v) = Translate(space, v)
    <3>1. PICK S : S = SoFar(machine, phase, page)
      OBVIOUS
    <3>2. PICK s : s = space
      OBVIOUS
    <3>3. PICK h \in Nat : h = heapEnd
      BY <1>2
    <3>4. PICK u : u = [s EXCEPT !.alloc = a]
      OBVIOUS
    <3>5. SpaceInv(machine, s, S, h, NULL) /\ u = space'
      BY <1>1, <2>7, <3>1, <3>2, <3>3, <3>4
    <3>6. /\ Consistent(a) /\ a.size = s.alloc.size /\ s.alloc.bits \subseteq a.bits
          /\ {f} \ {NULL} \subseteq a.bits \ s.alloc.bits
      BY <2>6, <3>2
    <3>7. SpaceInv(machine, u, S, h, f) /\ \A v : Translate(u, v) = Translate(s, v)
      BY <3>4, <3>5, <3>6, AllocatorStep
    <3> QED BY <3>1, <3>2, <3>3, <3>5, <3>7
  <2>9. SpaceInv(machine', space', SoFar(machine', phase', page'), heapEnd', idt')
    BY <1>1, <1>3, <2>1, <2>3, <2>8
  <2>10. ProgressInv'
    BY <1>1, <2>1, <2>3 DEF ProgressInv, Loaded
  <2>11. MapsOneStep
    BY <1>1, <1>2, <2>8, NothingMapped
  <2> QED BY <1>1, <2>9, <2>10, <2>11 DEF AInv
<1> QED BY <1>4, <1>5

LEMMA NextStep == AInv /\ Next => AInv' /\ MapsOneStep
BY InitMemoryStep, MapIdentityStep, LockFrameBufferStep, MapFrameBufferStep, LoadCR3Step,
   InitHeapStep, ISRInstallStep, ExpandHeapStep DEF Next

LEMMA AInvariance == Spec => []AInv
<1>1. AInv /\ UNCHANGED vars => AInv'
  BY DEF AInv, ProgressInv, Loaded, vars
<1>2. AInv /\ [Next]_vars => AInv'
  BY <1>1, NextStep
<1> QED BY <1>2, InitStep, PTL DEF Spec
-----------------------------------------------------------------------------
(***************************************************************************)
(* The theorems.                                                           *)
(***************************************************************************)

(* The state keeps its types: no table entry, at any level, ever points to *)
(* a frame that is neither memory, nor the frame buffer's, nor one of the  *)
(* bitmap's last bits.                                                     *)
THEOREM TypeCorrect == Spec => []TypeOK
<1>1. AInv => TypeOK
  <2> SUFFICES ASSUME AInv PROVE TypeOK
    OBVIOUS
  <2>1. machine \in Machines /\ HeapPage \in Nat /\ MemoryFrames(machine) \in Nat
    BY PagesFacts, MachineFacts DEF AInv, ProgressInv
  <2>2. page \in Nat
    <3>1. PICK a \in Nat : a = machine.frameBuffer.first
      BY <2>1, MachineFacts
    <3>2. PICK n \in Nat : n = FrameBufferPages(machine)
      BY <2>1, MachineFacts
    <3>3. phase \notin {"boot", "identity"} => page \in a .. (a + n)
      BY <3>1, <3>2 DEF AInv, ProgressInv
    <3>4. phase = "boot" => page = 0
      BY DEF AInv, ProgressInv
    <3>5. phase = "identity" => page \in 0 .. MemoryFrames(machine)
      BY DEF AInv, ProgressInv
    <3> QED BY <2>1, <3>3, <3>4, <3>5
  <2>3. /\ space.tables \in [Tables -> [0 .. (Fanout - 1) -> Targets \cup {Absent}]]
        /\ space.root \in Tables \cup {Absent}
    <3>1. CASE phase = "boot"
      <4>1. space.tables = [f \in {} |-> EmptyTable] /\ space.root = Absent
        BY <3>1 DEF AInv
      <4> QED BY <4>1 DEF Tables
    <3>2. CASE phase # "boot"
      <4>1. Sound(space) /\ EntriesInv(machine, space)
        BY <3>2 DEF AInv, SpaceInv
      <4>2. Tables = TablesOf(space) /\ Targets = TargetsOf(machine, space)
        BY DEF Tables, TablesOf, Targets, TargetsOf
      <4>3. space.root \in Tables
        BY <4>1, <4>2 DEF Sound, Tree
      <4>4. space.tables \in [TablesOf(space) -> [Indices -> Int]]
        BY <4>1 DEF Sound, Shape
      <4>5. \A t \in TablesOf(space), i \in Indices :
              space.tables[t][i] \in Targets \cup {Absent}
        <5>1. \A t \in TablesOf(space) : t # Absent
          BY <4>1 DEF Sound, Shape, Absent
        <5> QED BY <4>1, <4>2, <5>1 DEF EntriesInv, Entry
      <4>6. \A t \in TablesOf(space) :
              space.tables[t] \in [Indices -> Targets \cup {Absent}]
        BY <4>4, <4>5
      <4>7. space.tables \in [TablesOf(space) -> [Indices -> Targets \cup {Absent}]]
        BY <4>4, <4>6
      <4> QED BY <4>2, <4>3, <4>7 DEF Indices
    <3> QED BY <3>1, <3>2
  <2> QED BY <2>1, <2>2, <2>3 DEF AInv, ProgressInv, TypeOK
<1> QED BY <1>1, AInvariance, PTL

(* A call of MapMemory maps one page and no other, in every state that the *)
(* start of the kernel and the heap's growth can reach, though the call    *)
(* asks the same allocator for tables in its midst.                        *)
THEOREM MappingCorrect == Spec => MapsOnePage
<1>1. AInv /\ [Next]_vars => [MapsOneStep]_<<space, phase, page, heapEnd>>
  BY NextStep DEF vars
<1> QED BY <1>1, AInvariance, PTL DEF Spec, MapsOnePage, MapsOneStep

(* Tables, heap pages, the interrupt table, the bitmap and what the loader *)
(* left in memory have frames of their own, for any memory map, and no two *)
(* pages of the heap share one.                                            *)
THEOREM FramesCorrect == Spec => []EachFrameHasOneUse
<1>1. AInv => EachFrameHasOneUse
  <2> SUFFICES ASSUME AInv, phase # "boot" PROVE EachFrameHasOneUse
    BY DEF EachFrameHasOneUse
  <2>1. FramesInv(machine, space, heapEnd, idt) /\ machine \in Machines
    BY DEF AInv, ProgressInv, SpaceInv
  <2> DEFINE before == Frames(0, LowPages) \cup KernelFrames(machine)
             bitmap == BitmapFrames(machine.map)
             D == {idt} \ {NULL}
  <2>2. bitmap \cap before = {}
    BY <2>1, MachinesAssumption
  <2>3. Tables = TablesOf(space) /\ HeapFrames = HeapFramesOf(space, heapEnd)
    BY DEF Tables, TablesOf, HeapFrames, HeapFramesOf
  <2>4. /\ Tables \cap HeapFrames = {} /\ D \cap (Tables \cup HeapFrames) = {}
        /\ (bitmap \cup before) \cap (Tables \cup HeapFrames \cup D) = {}
        /\ Cardinality(HeapFrames) = heapEnd - HeapPage
    BY <2>1, <2>3 DEF FramesInv, Before
  <2> HIDE DEF before, bitmap, D
  <2> DEFINE uses == <<Tables, HeapFrames, D, bitmap, before>>
  <2>5. ASSUME NEW i \in 1 .. 5, NEW j \in 1 .. 5, i # j
        PROVE  uses[i] \cap uses[j] = {}
    <3>1. \A k \in 1 .. 5 : k = 1 \/ k = 2 \/ k = 3 \/ k = 4 \/ k = 5
      OBVIOUS
    <3>2. /\ uses[1] = Tables /\ uses[2] = HeapFrames /\ uses[3] = D
          /\ uses[4] = bitmap /\ uses[5] = before
      OBVIOUS
    <3> HIDE DEF uses
    <3> QED BY <2>2, <2>4, <2>5, <3>1, <3>2
  <2>6. DOMAIN uses = 1 .. 5
    OBVIOUS
  <2> QED BY <2>4, <2>5, <2>6 DEF EachFrameHasOneUse, before, bitmap, D
<1> QED BY <1>1, AInvariance, PTL
-----------------------------------------------------------------------------
(***************************************************************************)
(* The tables of the identity map lie in the memory that it maps.          *)
(***************************************************************************)
Mapped(m) == BelowSize(m) \cup FrameBuffer(m)

(* Of the free memory the tables have taken the least frames, and nothing  *)
(* else has taken any; every table is on the way to a page that is mapped. *)
RoomInv(m, s) ==
  /\ Room(m) \subseteq TablesOf(s) \cup Clear(s.alloc)
  /\ \A f \in TablesOf(s), g \in Room(m) : g < f => g \in TablesOf(s)
  /\ TablesOf(s) \subseteq {s.root} \cup {Reached(s, v, j) : v \in Mapped(m), j \in 0 .. 2}

BInv ==
  /\ phase \in {"identity", "frameBuffer"} => RoomInv(machine, space)
  /\ Loaded => \A t \in TablesOf(space) : Translate(space, t) = t
  /\ FailsOnlyWhenMappedUsedUp

LEMMA UnionBound ==
  ASSUME NEW A, NEW B, IsFiniteSet(A), IsFiniteSet(B)
  PROVE  /\ IsFiniteSet(A \cup B)
         /\ Cardinality(A \cup B) \in Nat /\ Cardinality(A) \in Nat /\ Cardinality(B) \in Nat
         /\ Cardinality(A \cup B) =< Cardinality(A) + Cardinality(B)
<1>1. /\ IsFiniteSet(A \cup B)
      /\ Cardinality(A \cup B) = Cardinality(A) + Cardinality(B) - Cardinality(A \cap B)
  BY FS_Union
<1>2. IsFiniteSet(A \cap B)
  BY FS_Intersection
<1>3. /\ Cardinality(A \cup B) \in Nat /\ Cardinality(A) \in Nat /\ Cardinality(B) \in Nat
      /\ Cardinality(A \cap B) \in Nat
  BY <1>1, <1>2, FS_CardinalityType
<1> QED BY <1>1, <1>3

(* Pages that lie in the same part of the address space share a table.     *)
LEMMA PartsShare ==
  ASSUME NEW s, NEW v \in Nat, NEW w \in Nat, NEW k \in 0 .. 2,
         v \div Span(k + 1) = w \div Span(k + 1)
  PROVE  Reached(s, v, k) = Reached(s, w, k)
<1> DEFINE D(j) == v \div Span(j) = w \div Span(j)
<1>1. \A j \in 0 .. 3 : D(j) => Index(v, j) = Index(w, j)
  BY DEF Index
<1>2. ASSUME NEW j \in 0 .. 3, D(j) PROVE D(j + 1)
  <2>1. /\ v \div Span(j + 1) = (v \div Span(j)) \div Fanout
        /\ w \div Span(j + 1) = (w \div Span(j)) \div Fanout
    BY IndexFacts
  <2> QED BY <1>2, <2>1
<1>3. D(k + 1)
  OBVIOUS
<1> HIDE DEF D
<1>4. D(2) => D(3)
  <2>1. D(2) => D(2 + 1)
    BY <1>2
  <2> QED BY <2>1
<1>5. D(1) => D(2)
  <2>1. D(1) => D(1 + 1)
    BY <1>2
  <2> QED BY <2>1
<1>6. \/ k = 2 /\ D(3)
      \/ k = 1 /\ D(2)
      \/ k = 0 /\ D(1)
  <2>1. CASE k = 2
    BY <1>3, <2>1
  <2>2. CASE k = 1
    BY <1>3, <2>2
  <2>3. CASE k = 0
    BY <1>3, <2>3
  <2> QED BY <2>1, <2>2, <2>3
<1>7. CASE k = 2 /\ D(3)
  BY <1>1, <1>7 DEF Reached
<1>8. CASE k = 1 /\ D(2)
  BY <1>1, <1>4, <1>8 DEF Reached
<1>9. CASE k = 0 /\ D(1)
  BY <1>1, <1>4, <1>5, <1>9 DEF Reached
<1> QED BY <1>6, <1>7, <1>8, <1>9

(* So there are no more of them than there are parts.                      *)
LEMMA TablesOfALevel ==
  ASSUME NEW s, NEW S \in SUBSET Nat, IsFiniteSet(S), NEW k \in 0 .. 2,
         NEW T, T = {Reached(s, v, k) : v \in S}
  PROVE  /\ IsFiniteSet(T) /\ Cardinality(T) \in Nat
         /\ Cardinality(Parts(S, k + 1)) \in Nat
         /\ Cardinality(T) =< Cardinality(Parts(S, k + 1))
<1> DEFINE Part(v) == v \div Span(k + 1)
           Q == {Part(v) : v \in S}
           g == [v \in S |-> Part(v)]
           f == [q \in Q |-> Reached(s, CHOOSE v \in S : Part(v) = q, k)]
<1>1. g \in Surjection(S, Q)
  BY DEF Surjection
<1>2. IsFiniteSet(Q)
  BY <1>1, FS_Surjection
<1>3. \A v \in S : Part(v) \in Q /\ f[Part(v)] = Reached(s, v, k)
  <2> SUFFICES ASSUME NEW v \in S PROVE Part(v) \in Q /\ f[Part(v)] = Reached(s, v, k)
    OBVIOUS
  <2>1. Part(v) \in Q
    OBVIOUS
  <2>2. PICK w : w = CHOOSE y \in S : Part(y) = Part(v)
    OBVIOUS
  <2>3. w \in S /\ Part(w) = Part(v)
    BY <2>2
  <2>4. f[Part(v)] = Reached(s, w, k)
    BY <2>1, <2>2
  <2>5. w \in Nat /\ v \in Nat /\ w \div Span(k + 1) = v \div Span(k + 1)
    BY <2>3
  <2>6. Reached(s, w, k) = Reached(s, v, k)
    BY <2>5, PartsShare
  <2> QED BY <2>1, <2>4, <2>6
<1>4. f \in Surjection(Q, T)
  <2>1. DOMAIN f = Q
    OBVIOUS
  <2>2. ASSUME NEW q \in Q PROVE f[q] \in T
    <3>1. PICK v \in S : q = Part(v)
      OBVIOUS
    <3>2. f[q] = Reached(s, v, k)
      BY <1>3, <3>1
    <3> QED BY <3>2
  <2>3. ASSUME NEW t \in T PROVE \E q \in Q : f[q] = t
    <3> HIDE DEF f, Q, Part
    <3>1. PICK v \in S : t = Reached(s, v, k)
      OBVIOUS
    <3>2. Part(v) \in Q /\ f[Part(v)] = t
      BY <1>3, <3>1
    <3> QED BY <3>2
  <2>4. f \in [Q -> T]
    BY <2>2
  <2> HIDE DEF f, Q
  <2> QED BY <2>3, <2>4 DEF Surjection
<1>5. Q = Parts(S, k + 1)
  BY DEF Parts
<1> HIDE DEF f, Q, g
<1>6. IsFiniteSet(T) /\ Cardinality(T) =< Cardinality(Q)
  BY <1>2, <1>4, FS_Surjection
<1>7. Cardinality(T) \in Nat /\ Cardinality(Q) \in Nat
  BY <1>2, <1>6, FS_CardinalityType
<1> QED BY <1>5, <1>6, <1>7

LEMMA TablesInMemory ==
  ASSUME NEW m \in Machines, NEW s, Sound(s), RoomInv(m, s)
  PROVE  TablesOf(s) \subseteq BelowSize(m)
<1> DEFINE S == Mapped(m)
           R(k) == {Reached(s, v, k) : v \in S}
           P(k) == Cardinality(Parts(S, k))
           U == (({s.root} \cup R(0)) \cup R(1)) \cup R(2)
<1>1. S \in SUBSET Nat /\ IsFiniteSet(S)
  <2>1. S \subseteq 0 .. (HeapPage - 1) /\ HeapPage \in Nat
    BY MachineFacts, PagesFacts DEF Mapped
  <2>2. IsFiniteSet(0 .. (HeapPage - 1))
    BY <2>1, FS_Interval
  <2> QED BY <2>1, <2>2, FS_Subset
<1>2. \A k \in 0 .. 2 : /\ IsFiniteSet(R(k)) /\ Cardinality(R(k)) \in Nat
                        /\ P(k + 1) \in Nat /\ Cardinality(R(k)) =< P(k + 1)
  BY <1>1, TablesOfALevel
<1>3. /\ IsFiniteSet(R(0)) /\ Cardinality(R(0)) \in Nat /\ P(1) \in Nat /\ Cardinality(R(0)) =< P(1)
      /\ IsFiniteSet(R(1)) /\ Cardinality(R(1)) \in Nat /\ P(2) \in Nat /\ Cardinality(R(1)) =< P(2)
      /\ IsFiniteSet(R(2)) /\ Cardinality(R(2)) \in Nat /\ P(3) \in Nat /\ Cardinality(R(2)) =< P(3)
  <2>1. 0 + 1 = 1 /\ 1 + 1 = 2 /\ 2 + 1 = 3
    OBVIOUS
  <2> HIDE DEF R, P
  <2> QED BY <1>2, <2>1
<1>4. TablesNeeded(S) = 1 + P(1) + P(2) + P(3)
  BY DEF TablesNeeded
<1>5. TablesOf(s) \subseteq U
  <2>1. \A j \in 0 .. 2 : j = 0 \/ j = 1 \/ j = 2
    OBVIOUS
  <2>2. \A t \in TablesOf(s) : t = s.root \/ \E v \in S, j \in 0 .. 2 : t = Reached(s, v, j)
    BY DEF RoomInv
  <2> QED BY <2>1, <2>2
<1> HIDE DEF R, P, S
<1>6. IsFiniteSet(U) /\ Cardinality(U) \in Nat /\ Cardinality(U) =< TablesNeeded(S)
  <2> DEFINE A == {s.root} \cup R(0)
             B == A \cup R(1)
  <2>1. IsFiniteSet({s.root}) /\ Cardinality({s.root}) = 1
    BY FS_Singleton
  <2>2. IsFiniteSet(A) /\ Cardinality(A) \in Nat /\ Cardinality(A) =< 1 + Cardinality(R(0))
    BY <1>3, <2>1, UnionBound
  <2> HIDE DEF A
  <2>3. IsFiniteSet(B) /\ Cardinality(B) \in Nat /\ Cardinality(B) =< Cardinality(A) + Cardinality(R(1))
    BY <1>3, <2>2, UnionBound
  <2> HIDE DEF B
  <2>4. /\ IsFiniteSet(B \cup R(2)) /\ Cardinality(B \cup R(2)) \in Nat
        /\ Cardinality(B \cup R(2)) =< Cardinality(B) + Cardinality(R(2))
    BY <1>3, <2>3, UnionBound
  <2>5. B \cup R(2) = U
    BY DEF A, B
  <2>6. Cardinality(B \cup R(2)) =< TablesNeeded(S)
    <3>1. PICK c \in Nat : c = Cardinality(B \cup R(2))
      BY <2>4
    <3> QED BY <1>3, <1>4, <2>2, <2>3, <2>4, <3>1
  <2> HIDE DEF U
  <2> QED BY <2>4, <2>5, <2>6
<1> HIDE DEF U
<1>7. /\ IsFiniteSet(TablesOf(s)) /\ Cardinality(TablesOf(s)) \in Nat
      /\ Cardinality(TablesOf(s)) =< TablesNeeded(S) /\ TablesNeeded(S) \in Nat
  <2>1. IsFiniteSet(TablesOf(s)) /\ Cardinality(TablesOf(s)) =< Cardinality(U)
    BY <1>5, <1>6, FS_Subset
  <2>2. Cardinality(TablesOf(s)) \in Nat
    BY <2>1, FS_CardinalityType
  <2> QED BY <1>3, <1>4, <1>6, <2>1, <2>2
<1>8. Cardinality(Room(m)) >= TablesNeeded(S)
  BY RoomAssumption DEF S, Mapped
<1>9. ASSUME NEW t \in TablesOf(s), t \notin BelowSize(m) PROVE FALSE
  <2>1. /\ BelowSize(m) = 0 .. (MemoryFrames(m) - 1) /\ MemoryFrames(m) \in Nat
        /\ t \in Nat
    BY MachineFacts DEF Sound, Shape
  <2>2. \A g \in Room(m) : g < t /\ g # t
    BY <1>9, <2>1 DEF Room
  <2>3. Room(m) \subseteq TablesOf(s) \ {t}
    BY <2>2 DEF RoomInv
  <2>4. /\ IsFiniteSet(TablesOf(s) \ {t})
        /\ Cardinality(TablesOf(s) \ {t}) = Cardinality(TablesOf(s)) - 1
    BY <1>7, FS_RemoveElement
  <2>5. IsFiniteSet(Room(m)) /\ Cardinality(Room(m)) =< Cardinality(TablesOf(s) \ {t})
    BY <2>3, <2>4, FS_Subset
  <2>6. Cardinality(Room(m)) \in Nat
    BY <2>5, FS_CardinalityType
  <2> QED BY <1>7, <1>8, <2>4, <2>5, <2>6
<1> QED BY <1>9

(***************************************************************************)
(* What a call takes before it fails.                                      *)
(***************************************************************************)
LEMMA FewTables ==
  ASSUME NEW s, Sound(s), NEW v \in Nat, NEW w, w = Walk(s, v),
         NEW N, N = New(s.alloc, w.s.alloc)
  PROVE  /\ Took(s.alloc, w.s.alloc)
         /\ N \subseteq w.way /\ w.way \subseteq TablesOf(s) \cup N
         /\ IsFiniteSet(N) /\ Cardinality(N) \in Nat /\ Cardinality(N) =< 3
         /\ w.refused => /\ Clear(s.alloc) \subseteq N
                         /\ Cardinality(N) =< 2
<1>1. Walked(s, v, w, 0)
  BY WalkWalks
<1> DEFINE R(k) == Reached(w.s, v, k)
<1>2. /\ Took(s.alloc, w.s.alloc) /\ TablesOf(w.s) = TablesOf(s) \cup N
      /\ N \subseteq w.way /\ w.way \subseteq TablesOf(w.s)
  BY <1>1 DEF Walked, Grown
<1>3. \A x, y : /\ IsFiniteSet({x, y}) /\ Cardinality({x, y}) \in Nat
                /\ Cardinality({x, y}) =< 2
  <2> SUFFICES ASSUME NEW x, NEW y
               PROVE  /\ IsFiniteSet({x, y}) /\ Cardinality({x, y}) \in Nat
                      /\ Cardinality({x, y}) =< 2
    OBVIOUS
  <2>1. /\ IsFiniteSet({x}) /\ Cardinality({x}) = 1
        /\ IsFiniteSet({y}) /\ Cardinality({y}) = 1
    BY FS_Singleton
  <2>2. {x} \cup {y} = {x, y}
    OBVIOUS
  <2>3. /\ IsFiniteSet({x} \cup {y}) /\ Cardinality({x} \cup {y}) \in Nat
        /\ Cardinality({x} \cup {y}) =< 1 + 1
    BY <2>1, UnionBound
  <2> QED BY <2>2, <2>3
<1>4. \A x, y, z : /\ IsFiniteSet({x, y, z}) /\ Cardinality({x, y, z}) \in Nat
                   /\ Cardinality({x, y, z}) =< 3
  <2> SUFFICES ASSUME NEW x, NEW y, NEW z
               PROVE  /\ IsFiniteSet({x, y, z}) /\ Cardinality({x, y, z}) \in Nat
                      /\ Cardinality({x, y, z}) =< 3
    OBVIOUS
  <2>1. IsFiniteSet({z}) /\ Cardinality({z}) = 1
    BY FS_Singleton
  <2>2. PICK A : A = {x, y}
    OBVIOUS
  <2>3. IsFiniteSet(A) /\ Cardinality(A) \in Nat /\ Cardinality(A) =< 2
    BY <1>3, <2>2
  <2>4. A \cup {z} = {x, y, z}
    BY <2>2
  <2>5. /\ IsFiniteSet(A \cup {z}) /\ Cardinality(A \cup {z}) \in Nat
        /\ Cardinality(A \cup {z}) =< Cardinality(A) + 1
    BY <2>1, <2>3, UnionBound
  <2> QED BY <2>3, <2>4, <2>5
<1>5. \A j : (j \in 0 .. 2 <=> j \in {0, 1, 2}) /\ (j \in 1 .. 2 <=> j \in {1, 2})
  OBVIOUS
<1>6. w.refused => Clear(s.alloc) \subseteq N /\ N \subseteq {R(1), R(2)}
  <2> SUFFICES ASSUME w.refused PROVE Clear(s.alloc) \subseteq N /\ N \subseteq {R(1), R(2)}
    OBVIOUS
  <2>1. Clear(w.s.alloc) = {} /\ N \subseteq {R(j) : j \in 1 .. 2}
    BY <1>1 DEF Walked
  <2>2. N \subseteq {R(1), R(2)}
    <3> HIDE DEF R
    <3> QED BY <1>5, <2>1
  <2>3. Clear(s.alloc) \subseteq N
    BY <1>2, <2>1 DEF Took, New, Clear, Managed
  <2> QED BY <2>2, <2>3
<1>7. ~w.refused => N \subseteq {R(0), R(1), R(2)}
  <2> SUFFICES ASSUME ~w.refused PROVE N \subseteq {R(0), R(1), R(2)}
    OBVIOUS
  <2>1. N \subseteq {R(j) : j \in 0 .. 2}
    BY <1>1 DEF Walked
  <2> HIDE DEF R
  <2> QED BY <1>5, <2>1
<1> HIDE DEF R
<1>8. N \subseteq {R(0), R(1), R(2)}
  BY <1>6, <1>7
<1>9. IsFiniteSet(N) /\ Cardinality(N) =< 3
  <2>1. PICK A : A = {R(0), R(1), R(2)}
    OBVIOUS
  <2>2. IsFiniteSet(A) /\ Cardinality(A) \in Nat /\ Cardinality(A) =< 3
    BY <1>4, <2>1
  <2>3. IsFiniteSet(N) /\ Cardinality(N) =< Cardinality(A)
    BY <1>8, <2>1, <2>2, FS_Subset
  <2>4. Cardinality(N) \in Nat
    BY <2>3, FS_CardinalityType
  <2> QED BY <2>2, <2>3, <2>4
<1>10. Cardinality(N) \in Nat
  BY <1>9, FS_CardinalityType
<1>11. w.refused => Cardinality(N) =< 2
  <2> SUFFICES ASSUME w.refused PROVE Cardinality(N) =< 2
    OBVIOUS
  <2>1. PICK A : A = {R(1), R(2)}
    OBVIOUS
  <2>2. IsFiniteSet(A) /\ Cardinality(A) \in Nat /\ Cardinality(A) =< 2
    BY <1>3, <2>1
  <2>3. Cardinality(N) =< Cardinality(A)
    BY <1>6, <2>1, <2>2, FS_Subset
  <2> QED BY <1>10, <2>2, <2>3
<1> QED BY <1>2, <1>6, <1>9, <1>10, <1>11

Left(m, s) == Clear(s.alloc) \cap BelowSize(m)

LEMMA SmallerIsFewer ==
  ASSUME NEW A, NEW B, IsFiniteSet(B), A \subseteq B
  PROVE  /\ IsFiniteSet(A) /\ Cardinality(A) \in Nat /\ Cardinality(B) \in Nat
         /\ Cardinality(A) =< Cardinality(B)
<1>1. IsFiniteSet(A) /\ Cardinality(A) =< Cardinality(B)
  BY FS_Subset
<1> QED BY <1>1, FS_CardinalityType

(* A walk that is refused has found all frames there were, no more than    *)
(* two.  One that touches a new table above the identity map has found all *)
(* frames below its end, no more than two, and that one.                   *)
LEMMA FailureLeavesTwo ==
  ASSUME NEW m \in Machines, NEW s, Sound(s), NEW v \in Nat, NEW w, w = Walk(s, v)
  PROVE  /\ w.refused => /\ Cardinality(Clear(s.alloc)) \in Nat
                         /\ Cardinality(Clear(s.alloc)) =< 2
         /\ ~w.refused /\ (\E t \in w.way : t \notin TablesOf(s) /\ t \notin BelowSize(m)) =>
              /\ IsFiniteSet(Left(m, s)) /\ Cardinality(Left(m, s)) \in Nat
              /\ Cardinality(Left(m, s)) =< 2
              /\ Clear(s.alloc) \ BelowSize(m) # {}
<1>1. PICK N : N = New(s.alloc, w.s.alloc)
  OBVIOUS
<1>2. /\ Took(s.alloc, w.s.alloc)
      /\ N \subseteq w.way /\ w.way \subseteq TablesOf(s) \cup N
      /\ IsFiniteSet(N) /\ Cardinality(N) \in Nat /\ Cardinality(N) =< 3
      /\ w.refused => Clear(s.alloc) \subseteq N /\ Cardinality(N) =< 2
  BY <1>1, FewTables
<1>3. ASSUME w.refused
      PROVE  Cardinality(Clear(s.alloc)) \in Nat /\ Cardinality(Clear(s.alloc)) =< 2
  <2>1. Clear(s.alloc) \subseteq N
    BY <1>2, <1>3
  <2>2. /\ Cardinality(Clear(s.alloc)) \in Nat
        /\ Cardinality(Clear(s.alloc)) =< Cardinality(N)
    BY <1>2, <2>1, SmallerIsFewer
  <2> QED BY <1>2, <1>3, <2>2
<1>4. ASSUME NEW t \in w.way, t \notin TablesOf(s), t \notin BelowSize(m)
      PROVE  /\ IsFiniteSet(Left(m, s)) /\ Cardinality(Left(m, s)) \in Nat
             /\ Cardinality(Left(m, s)) =< 2
             /\ Clear(s.alloc) \ BelowSize(m) # {}
  <2>2. t \in N
    BY <1>2, <1>4
  <2>3. BelowSize(m) = 0 .. (MemoryFrames(m) - 1) /\ MemoryFrames(m) \in Nat
    BY MachineFacts
  <2>4. t \in Nat /\ t \in Clear(s.alloc)
    <3>1. N \subseteq Clear(s.alloc)
      BY <1>1, <1>2 DEF Took
    <3>2. Consistent(s.alloc)
      BY DEF Sound
    <3> QED BY <2>2, <3>1, <3>2, ClearFacts
  <2>5. Left(m, s) \subseteq N \ {t}
    <3>1. \A g \in Left(m, s) : g < t /\ g # t /\ g \in Clear(s.alloc)
      BY <1>4, <2>3, <2>4 DEF Left
    <3> QED BY <1>1, <1>2, <2>2, <3>1 DEF Took
  <2>6. /\ IsFiniteSet(N \ {t}) /\ Cardinality(N \ {t}) = Cardinality(N) - 1
    BY <1>2, <2>2, FS_RemoveElement
  <2>7. /\ IsFiniteSet(Left(m, s)) /\ Cardinality(Left(m, s)) \in Nat
        /\ Cardinality(Left(m, s)) =< Cardinality(N \ {t})
    BY <2>5, <2>6, SmallerIsFewer
  <2> QED BY <1>2, <1>4, <2>4, <2>6, <2>7
<1> QED BY <1>3, <1>4

(* What FailsOnlyWhenMappedUsedUp says of a machine m, a state s, the      *)
(* interrupt table's frame d and the status st, and what is enough for it. *)
FailsRight(m, s, d, st) ==
  /\ st = "exhausted" => Cardinality(Clear(s.alloc)) =< 3
  /\ st = "fault" =>
       /\ Cardinality(Left(m, s)) =< 3
       /\ (Clear(s.alloc) \cup ({d} \ {NULL})) \ BelowSize(m) # {}
  /\ st # "ok" /\ Unbroken(m) =>
       Cardinality(Clear(s.alloc) \cap ConventionalFrames(m.map)) =< 3

LEMMA FailureIs ==
  ASSUME NEW m, NEW s, Consistent(s.alloc), NEW d, NEW st \in {"ok", "exhausted", "fault"},
         st = "exhausted" => Cardinality(Clear(s.alloc)) =< 3,
         st = "fault" => /\ Cardinality(Left(m, s)) =< 3
                         /\ (Clear(s.alloc) \cup ({d} \ {NULL})) \ BelowSize(m) # {}
  PROVE  FailsRight(m, s, d, st)
<1>1. IsFiniteSet(Clear(s.alloc))
  BY ClearFacts
<1>2. PICK C : C = Clear(s.alloc) \cap ConventionalFrames(m.map)
  OBVIOUS
<1>3. /\ Cardinality(C) \in Nat /\ Cardinality(Clear(s.alloc)) \in Nat
      /\ Cardinality(C) =< Cardinality(Clear(s.alloc))
  BY <1>1, <1>2, SmallerIsFewer
<1>4. IsFiniteSet(Left(m, s)) /\ Cardinality(Left(m, s)) \in Nat
  BY <1>1, SmallerIsFewer DEF Left
<1>5. Unbroken(m) => C \subseteq Left(m, s)
  BY <1>2 DEF Unbroken, Left
<1>6. Unbroken(m) => Cardinality(C) =< Cardinality(Left(m, s))
  BY <1>4, <1>5, SmallerIsFewer
<1>7. st # "ok" /\ Unbroken(m) => Cardinality(C) =< 3
  BY <1>3, <1>4, <1>6
<1> QED BY <1>2, <1>7 DEF FailsRight

LEMMA NoneLeft ==
  ASSUME NEW s, Clear(s.alloc) = {}
  PROVE  Cardinality(Clear(s.alloc)) =< 3
BY FS_EmptySet

(* The room for the tables, from the start to the end of the two loops.    *)
LEMMA RoomAtStart ==
  ASSUME NEW m \in Machines, NEW garbage \in SUBSET {8 * BitmapSize(m.map)},
         NEW b, b = Started(m, garbage), Found(b),
         NEW r, r = FoundFrame(b),
         NEW u, u = [alloc |-> Grant(b), tables |-> [f \in {r} |-> EmptyTable], root |-> r]
  PROVE  RoomInv(m, u)
<1>1. /\ GetMemorySize(m.map) \in Nat /\ BitmapSize(m.map) \in Nat
      /\ MemoryFrames(m) \in Nat /\ BelowSize(m) = 0 .. (MemoryFrames(m) - 1)
  BY MachineFacts
<1>2. PICK o : o = Boot(m.map, garbage)
  OBVIOUS
<1>3. /\ Consistent(o) /\ o.size = BitmapSize(m.map)
      /\ \A f \in ConventionalFrames(m.map) \ (Frames(0, LowPages) \cup BitmapFrames(m.map)) :
           f \notin o.bits
  BY <1>1, <1>2, BootFacts
<1>4. b = LockPages(o, LockedKernel(m))
  BY <1>2 DEF Started
<1>5. Consistent(b)
  BY <1>3, <1>4, SetBitsConsistent
<1>6. b.size = o.size /\ b.bits = o.bits \cup Fresh(o, LockedKernel(m))
  BY <1>3, <1>4, SetBitsEffect DEF Consistent
<1>7. Room(m) \subseteq Clear(b)
  <2>1. Room(m) \cap b.bits = {}
    BY <1>3, <1>6 DEF Room, Fresh
  <2>2. BelowSize(m) \subseteq Managed(b)
    <3>1. PICK n \in Nat : n = GetMemorySize(m.map)
      BY <1>1
    <3>2. n =< 8 * (n \div 8 + 1) - 1
      OBVIOUS
    <3>3. b.size = n \div 8 + 1 /\ MemoryFrames(m) = n
      BY <1>3, <1>6, <3>1 DEF BitmapSize, MemoryFrames
    <3> QED BY <1>1, <3>1, <3>2, <3>3 DEF Managed
  <2> QED BY <2>1, <2>2 DEF Room, Clear
<1>8. PICK a : a = Grant(b)
  OBVIOUS
<1>9. /\ Consistent(a) /\ r \in Nat /\ \A g \in Clear(b) : r =< g
      /\ Clear(a) = Clear(b) \ {r}
  BY <1>5, <1>8, GrantEffect
<1>10. u.alloc = a /\ u.root = r /\ u.tables = [f \in {r} |-> EmptyTable]
  BY <1>8
<1>11. TablesOf(u) = {r}
  BY <1>10 DEF TablesOf
<1>12. Room(m) \subseteq TablesOf(u) \cup Clear(u.alloc)
  BY <1>7, <1>9, <1>10, <1>11
<1>13. \A g \in Room(m) : ~(g < r)
  <2>1. Clear(b) \subseteq Nat
    BY <1>5, ClearFacts
  <2> QED BY <1>7, <1>9, <2>1
<1> QED BY <1>10, <1>11, <1>12, <1>13 DEF RoomInv

LEMMA RoomWhenMapped ==
  ASSUME NEW m, NEW s, Sound(s), RoomInv(m, s), NEW v \in Mapped(m), Mapped(m) \subseteq Nat,
         NEW u, MapsTo(s, u, v, v)
  PROVE  RoomInv(m, u)
<1> DEFINE N == New(s.alloc, u.alloc)
<1>1. /\ Took(s.alloc, u.alloc) /\ u.root = s.root
      /\ TablesOf(u) = TablesOf(s) \cup N
      /\ \A x \in Nat, k \in 0 .. 3 :
           Reached(s, x, k) # Absent => Reached(u, x, k) = Reached(s, x, k)
      /\ N \subseteq {Reached(u, v, j) : j \in 0 .. 2}
  BY DEF MapsTo
<1>2. Clear(u.alloc) = Clear(s.alloc) \ N
  BY <1>1 DEF Took, New, Clear, Managed
<1>3. Room(m) \subseteq TablesOf(u) \cup Clear(u.alloc)
  BY <1>1, <1>2 DEF RoomInv
<1>4. ASSUME NEW f \in TablesOf(u), NEW g \in Room(m), g < f
      PROVE  g \in TablesOf(u)
  <2>1. CASE f \in TablesOf(s)
    BY <1>1, <1>4, <2>1 DEF RoomInv
  <2>2. CASE f \in N
    <3>1. g \in TablesOf(s) \cup Clear(s.alloc)
      BY DEF RoomInv
    <3> QED BY <1>1, <1>4, <2>2, <3>1 DEF Took
  <2> QED BY <1>1, <2>1, <2>2
<1>5. ASSUME NEW t \in TablesOf(u), t # u.root
      PROVE  t \in {Reached(u, x, j) : x \in Mapped(m), j \in 0 .. 2}
  <2>1. CASE t \in TablesOf(s)
    <3>1. PICK x \in Mapped(m), j \in 0 .. 2 : t = Reached(s, x, j)
      BY <1>1, <1>5, <2>1 DEF RoomInv
    <3>2. t # Absent
      BY <2>1 DEF Sound, Shape, Absent
    <3>3. x \in Nat /\ j \in 0 .. 3
      OBVIOUS
    <3>4. t = Reached(u, x, j)
      BY <1>1, <3>1, <3>2, <3>3
    <3> QED BY <3>4
  <2>2. CASE t \in N
    BY <1>1, <2>2
  <2> QED BY <1>1, <2>1, <2>2
<1> QED BY <1>3, <1>4, <1>5 DEF RoomInv

LEMMA RoomWhenLocked ==
  ASSUME NEW m, NEW s, Sound(s), RoomInv(m, s),
         NEW a, a = LockPages(s.alloc, LockedFrameBuffer(m)),
         NEW u, u = [s EXCEPT !.alloc = a]
  PROVE  RoomInv(m, u)
<1>1. Consistent(s.alloc)
  BY DEF Sound
<1>2. Consistent(a)
  BY <1>1, SetBitsConsistent
<1>3. a.size = s.alloc.size /\ a.bits = s.alloc.bits \cup Fresh(s.alloc, LockedFrameBuffer(m))
  BY <1>1, SetBitsEffect DEF Consistent
<1>4. /\ u.alloc = a /\ u.root = s.root /\ TablesOf(u) = TablesOf(s)
      /\ \A v, k : Reached(u, v, k) = Reached(s, v, k)
  BY <1>2, <1>3, AllocatorAlone
<1>5. Room(m) \cap Clear(s.alloc) \subseteq Clear(a)
  BY <1>3 DEF Room, Fresh, Clear, Managed
<1>6. Room(m) \subseteq TablesOf(u) \cup Clear(u.alloc)
  BY <1>4, <1>5 DEF RoomInv
<1>7. TablesOf(u) \subseteq {u.root} \cup {Reached(u, v, j) : v \in Mapped(m), j \in 0 .. 2}
  BY <1>4 DEF RoomInv
<1> QED BY <1>4, <1>6, <1>7 DEF RoomInv

(***************************************************************************)
(* Every action keeps both invariants.                                     *)
(***************************************************************************)
LEMMA InitMemoryKeeps == AInv /\ BInv /\ status = "ok" /\ InitMemory => BInv'
<1> SUFFICES ASSUME AInv, status = "ok", InitMemory PROVE BInv'
  OBVIOUS
<1>1. /\ machine \in Machines /\ phase = "boot" /\ machine' = machine
      /\ space = [alloc |-> Unbooted, tables |-> [f \in {} |-> EmptyTable], root |-> Absent]
  BY DEF AInv, ProgressInv, InitMemory
<1>2. PICK garbage \in SUBSET {8 * BitmapSize(machine.map)} :
        LET s == [space EXCEPT !.alloc = Started(machine, garbage)]
        IN  IF Refused(s)
            THEN status' = "exhausted" /\ UNCHANGED <<phase, space>>
            ELSE /\ phase' = "identity"
                 /\ space' = [alloc  |-> Grant(s.alloc),
                              tables |-> [f \in {Requested(s)} |-> EmptyTable],
                              root   |-> Requested(s)]
                 /\ UNCHANGED status
  BY DEF InitMemory, Started
<1>3. PICK b : b = Started(machine, garbage)
  OBVIOUS
<1>4. PICK s : s = [space EXCEPT !.alloc = b]
  OBVIOUS
<1>5. s.alloc = b
  BY <1>1, <1>4
<1>6. CASE Refused(s)
  <2>1. phase' = phase /\ space' = space
    BY <1>2, <1>3, <1>4, <1>6
  <2>2. space.alloc = Unbooted /\ status' = "exhausted"
    BY <1>1, <1>2, <1>3, <1>4, <1>6
  <2>3. Clear(space.alloc) = {}
    BY <2>2 DEF Clear, Managed, Unbooted
  <2>4. Cardinality(Clear(space.alloc) \cap ConventionalFrames(machine.map)) =< 3
    BY <2>3, FS_EmptySet
  <2>5. FailsRight(machine, space, idt', status')
    BY <2>2, <2>3, <2>4, NoneLeft DEF FailsRight
  <2>6. FailsOnlyWhenMappedUsedUp'
    BY <1>1, <2>1, <2>5 DEF FailsOnlyWhenMappedUsedUp, FailsRight, Left
  <2> QED BY <1>1, <2>1, <2>6 DEF BInv, Loaded
<1>7. CASE ~Refused(s)
  <2>1. PICK r : r = FoundFrame(b)
    OBVIOUS
  <2>2. Found(b) /\ Requested(s) = r
    BY <1>5, <1>7, <2>1 DEF Refused, Requested
  <2>3. /\ phase' = "identity" /\ status' = "ok"
        /\ space' = [alloc |-> Grant(s.alloc), tables |-> [f \in {r} |-> EmptyTable],
                     root |-> r]
    BY <1>2, <1>3, <1>4, <1>7, <2>2
  <2>4. space' = [alloc |-> Grant(b), tables |-> [f \in {r} |-> EmptyTable], root |-> r]
    BY <1>5, <2>3, Zenon
  <2>5. RoomInv(machine, space')
    BY <1>1, <1>3, <2>1, <2>2, <2>4, RoomAtStart
  <2> QED BY <1>1, <2>3, <2>5 DEF BInv, Loaded, FailsOnlyWhenMappedUsedUp
<1> QED BY <1>6, <1>7

(* One turn of either loop that maps a page to its own address. *)
LEMMA LoopKeeps ==
  ASSUME AInv, BInv, phase \in {"identity", "frameBuffer"},
         page \in Mapped(machine), Map(space, page, page),
         UNCHANGED <<machine, phase>>
  PROVE  BInv'
<1>1. /\ machine \in Machines /\ HeapPage \in Nat
      /\ Sound(space) /\ RoomInv(machine, space) /\ ~Loaded /\ ~Loaded'
  BY PagesFacts DEF AInv, ProgressInv, SpaceInv, BInv, Loaded
<1>2. Mapped(machine) \subseteq 0 .. (HeapPage - 1)
  BY <1>1, MachineFacts DEF Mapped
<1>3. page \in Pages /\ page \in Nat /\ Mapped(machine) \subseteq Nat
  BY <1>1, <1>2, PagesFacts
<1>4. /\ status' = Outcome(space, page)
      /\ status' = "ok" => space' = MapMemory(space, page, page)
      /\ status' # "ok" => space' = space
  BY DEF Map
<1>5. CASE status' = "ok"
  <2>1. MapsTo(space, space', page, page)
    <3>1. page \in Int /\ Outcome(space, page) = "ok"
      BY <1>3, <1>4, <1>5
    <3>2. MapsTo(space, MapMemory(space, page, page), page, page)
      BY <1>1, <1>3, <3>1, MapOutcome, Zenon
    <3> QED BY <1>4, <1>5, <3>2, Zenon
  <2>2. RoomInv(machine, space')
    BY <1>1, <1>3, <2>1, RoomWhenMapped
  <2> QED BY <1>1, <1>5, <2>2 DEF BInv, FailsOnlyWhenMappedUsedUp
<1>6. CASE status' # "ok"
  <2>1. PICK w : w = Walk(space, page)
    OBVIOUS
  <2>2. w.refused
    BY <1>1, <1>4, <1>6, <2>1 DEF Outcome, Reachable
  <2>3. Cardinality(Clear(space.alloc)) \in Nat /\ Cardinality(Clear(space.alloc)) =< 2
    BY <1>1, <1>3, <2>1, <2>2, FailureLeavesTwo
  <2>4. space' = space /\ status' = "exhausted"
    BY <1>4, <1>6, <2>1, <2>2 DEF Outcome
  <2>5. Consistent(space.alloc)
    BY <1>1 DEF Sound
  <2>6. FailsRight(machine, space, idt', status')
    <3>1. status' \in {"ok", "exhausted", "fault"} /\ status' # "fault"
      BY <2>4
    <3>2. Cardinality(Clear(space.alloc)) =< 3
      BY <2>3
    <3> QED BY <2>5, <3>1, <3>2, FailureIs
  <2>7. FailsOnlyWhenMappedUsedUp'
    BY <2>4, <2>6 DEF FailsOnlyWhenMappedUsedUp, FailsRight, Left
  <2> QED BY <1>1, <2>4, <2>7 DEF BInv
<1> QED BY <1>5, <1>6

LEMMA MapIdentityKeeps == AInv /\ BInv /\ MapIdentity => BInv'
<1> SUFFICES ASSUME AInv, BInv, MapIdentity PROVE BInv'
  OBVIOUS
<1>1. /\ machine \in Machines /\ phase = "identity"
      /\ page \in 0 .. MemoryFrames(machine) /\ page < MemoryFrames(machine)
      /\ Map(space, page, page) /\ UNCHANGED <<machine, phase>>
  BY DEF AInv, ProgressInv, MapIdentity, IdentityPages
<1>2. BelowSize(machine) = 0 .. (MemoryFrames(machine) - 1) /\ MemoryFrames(machine) \in Nat
  BY <1>1, MachineFacts
<1>3. page \in Mapped(machine)
  BY <1>1, <1>2 DEF Mapped
<1> QED BY <1>1, <1>3, LoopKeeps

LEMMA MapFrameBufferKeeps == AInv /\ BInv /\ MapFrameBuffer => BInv'
<1> SUFFICES ASSUME AInv, BInv, MapFrameBuffer PROVE BInv'
  OBVIOUS
<1>1. /\ phase = "frameBuffer" /\ page \in Mapped(machine)
      /\ Map(space, page, page) /\ UNCHANGED <<machine, phase>>
  BY DEF MapFrameBuffer, Mapped
<1> QED BY <1>1, LoopKeeps

LEMMA LockFrameBufferKeeps ==
  AInv /\ BInv /\ status = "ok" /\ LockFrameBuffer => BInv'
<1> SUFFICES ASSUME AInv, BInv, status = "ok", LockFrameBuffer PROVE BInv'
  OBVIOUS
<1>1. /\ phase = "identity" /\ Sound(space) /\ RoomInv(machine, space)
      /\ space' = [space EXCEPT !.alloc = LockPages(@, LockedFrameBuffer(machine))]
      /\ phase' = "frameBuffer" /\ machine' = machine /\ status' = "ok"
  BY DEF AInv, SpaceInv, BInv, LockFrameBuffer
<1>2. PICK a : a = LockPages(space.alloc, LockedFrameBuffer(machine))
  OBVIOUS
<1>3. space' = [space EXCEPT !.alloc = a]
  BY <1>1, <1>2
<1>4. RoomInv(machine, space')
  BY <1>1, <1>2, <1>3, RoomWhenLocked
<1> QED BY <1>1, <1>4 DEF BInv, Loaded, FailsOnlyWhenMappedUsedUp

(* When CR3 is loaded every table lies in the memory that has been mapped. *)
LEMMA LoadCR3Keeps == AInv /\ BInv /\ status = "ok" /\ LoadCR3 => BInv'
<1> SUFFICES ASSUME AInv, BInv, status = "ok", LoadCR3 PROVE BInv'
  OBVIOUS
<1>1. /\ machine \in Machines /\ phase = "frameBuffer" /\ RoomInv(machine, space)
      /\ SpaceInv(machine, space, SoFar(machine, phase, page), heapEnd, idt)
      /\ phase' = "heap" /\ UNCHANGED <<machine, space, status>>
      /\ HeapPage \in Nat
  BY PagesFacts DEF AInv, ProgressInv, BInv, LoadCR3
<1>2. TablesOf(space) \subseteq BelowSize(machine)
  BY <1>1, TablesInMemory DEF SpaceInv
<1>3. BelowSize(machine) \subseteq SoFar(machine, phase, page)
  BY <1>1 DEF SoFar
<1>4. BelowSize(machine) \subseteq 0 .. (HeapPage - 1)
  BY <1>1, MachineFacts
<1>5. BelowSize(machine) \subseteq Pages
  BY <1>1, <1>4, PagesFacts
<1>6. \A t \in TablesOf(space) : Translate(space, t) = t
  BY <1>1, <1>2, <1>3, <1>5 DEF SpaceInv, MappedInv
<1> QED BY <1>1, <1>6 DEF BInv, FailsOnlyWhenMappedUsedUp

(* A page of the heap is mapped with tables that are mapped themselves, or *)
(* the call fails: refused, when no more than three frames are left, one   *)
(* for the page and two for its tables; or at a table that is not mapped,  *)
(* when no more than three of those below the identity map's end are.      *)
LEMMA HeapPageFailure ==
  ASSUME NEW m \in Machines, NEW s, Sound(s), Found(s.alloc), NEW f, f = Requested(s),
         NEW x, x = TakeFrame(s), NEW h \in Nat, NEW w, w = Walk(x, h),
         \A t \in TablesOf(s) \cup BelowSize(m) : Translate(s, t) = t
  PROVE  /\ w.refused => Cardinality(Clear(s.alloc)) =< 3
         /\ ~w.refused /\ (\E t \in w.way : Translate(x, t) # t) =>
              /\ Cardinality(Left(m, s)) =< 3
              /\ Clear(s.alloc) \ BelowSize(m) # {}
<1>1. Consistent(s.alloc)
  BY DEF Sound
<1>2. PICK a : a = Grant(s.alloc)
  OBVIOUS
<1>3. /\ Consistent(a) /\ s.alloc.bits \subseteq a.bits
      /\ Clear(a) = Clear(s.alloc) \ {f}
  BY <1>1, <1>2, GrantEffect DEF Requested
<1>4. x = [s EXCEPT !.alloc = a]
  BY <1>2 DEF TakeFrame
<1>5. /\ Sound(x) /\ x.alloc = a /\ TablesOf(x) = TablesOf(s)
      /\ \A v : Translate(x, v) = Translate(s, v)
  BY <1>3, <1>4, AllocatorAlone
<1>6. \A A, B : /\ IsFiniteSet(A) /\ Cardinality(A) \in Nat /\ Cardinality(A) =< 2
                /\ B \subseteq A \cup {f}
                => Cardinality(B) =< 3
  <2> SUFFICES ASSUME NEW A, NEW B, IsFiniteSet(A), Cardinality(A) \in Nat,
                      Cardinality(A) =< 2, B \subseteq A \cup {f}
               PROVE  Cardinality(B) =< 3
    OBVIOUS
  <2>1. IsFiniteSet({f}) /\ Cardinality({f}) = 1
    BY FS_Singleton
  <2>2. PICK U : U = A \cup {f}
    OBVIOUS
  <2>3. IsFiniteSet(U) /\ Cardinality(U) \in Nat /\ Cardinality(U) =< Cardinality(A) + 1
    BY <2>1, <2>2, UnionBound
  <2>4. Cardinality(B) \in Nat /\ Cardinality(B) =< Cardinality(U)
    BY <2>2, <2>3, SmallerIsFewer
  <2> QED BY <2>3, <2>4
<1>7. ASSUME w.refused PROVE Cardinality(Clear(s.alloc)) =< 3
  <2>1. Cardinality(Clear(a)) \in Nat /\ Cardinality(Clear(a)) =< 2
    BY <1>5, <1>7, FailureLeavesTwo
  <2>2. IsFiniteSet(Clear(a)) /\ Clear(s.alloc) \subseteq Clear(a) \cup {f}
    BY <1>3, ClearFacts
  <2> QED BY <1>6, <2>1, <2>2
<1>8. ASSUME ~w.refused, NEW t \in w.way, Translate(x, t) # t
      PROVE  Cardinality(Left(m, s)) =< 3 /\ Clear(s.alloc) \ BelowSize(m) # {}
  <2>1. t \notin TablesOf(x) /\ t \notin BelowSize(m)
    BY <1>5, <1>8
  <2>2. /\ IsFiniteSet(Left(m, x)) /\ Cardinality(Left(m, x)) \in Nat
        /\ Cardinality(Left(m, x)) =< 2
        /\ Clear(x.alloc) \ BelowSize(m) # {}
    BY <1>5, <1>8, <2>1, FailureLeavesTwo
  <2>3. Left(m, s) \subseteq Left(m, x) \cup {f}
    BY <1>3, <1>5 DEF Left
  <2>4. Clear(s.alloc) \ BelowSize(m) # {}
    BY <1>3, <1>5, <2>2
  <2> QED BY <1>6, <2>2, <2>3, <2>4
<1> QED BY <1>7, <1>8

LEMMA HeapPageTables ==
  ASSUME NEW m \in Machines, NEW x, Sound(x), x.alloc.size = BitmapSize(m.map),
         NEW h \in HeapPage .. (HeapPage + MaxHeapPages - 1), Translate(x, h) = Absent,
         NEW w, w = Walk(x, h), ~w.refused, NEW f \in Nat,
         NEW u, u = MapMemory(x, h, f),
         \A t \in TablesOf(x) \cup w.way : Translate(x, t) = t
  PROVE  \A t \in TablesOf(u) : Translate(u, t) = t
<1>1. HeapPage \in Nat /\ MaxHeapPages \in Nat
  BY PagesFacts
<1>2. h \in Pages /\ h \in Nat /\ HeapPage + MaxHeapPages - 1 >= HeapPage
  BY <1>1, PagesFacts
<1>3. MapsTo(x, u, h, f) /\ u.alloc = w.s.alloc
  BY <1>2, MapMemoryMaps
<1>4. PICK N : N = New(x.alloc, w.s.alloc)
  OBVIOUS
<1>5. N \subseteq w.way
  BY <1>2, <1>4, FewTables
<1>6. TablesOf(u) \subseteq TablesOf(x) \cup w.way
  BY <1>3, <1>4, <1>5 DEF MapsTo
<1>7. TablesOf(u) \subseteq 0 .. HeapPage
  <2>1. /\ TablesOf(u) \subseteq u.alloc.bits /\ u.alloc.size = BitmapSize(m.map)
        /\ u.alloc.bits \subseteq Bitmap_Indices(u.alloc)
    BY <1>3 DEF MapsTo, Took, Sound, Consistent
  <2>2. BitmapSize(m.map) \in Nat /\ 8 * BitmapSize(m.map) =< HeapPage
    BY MachineFacts
  <2>3. Bitmap_Indices(u.alloc) \subseteq 0 .. HeapPage
    BY <1>1, <2>1, <2>2 DEF Bitmap_Indices
  <2> QED BY <2>1, <2>3
<1>8. \A t \in TablesOf(u) : t \in Pages /\ t \in Nat
  BY <1>1, <1>2, <1>7, PagesFacts
<1>9. ASSUME NEW t \in TablesOf(u) PROVE Translate(u, t) = t
  <2>1. Translate(x, t) = t
    BY <1>6
  <2>2. t # h
    BY <1>8, <2>1 DEF Absent
  <2> QED BY <1>3, <1>8, <2>1, <2>2 DEF MapsTo
<1> QED BY <1>9

LEMMA HeapPageKeeps ==
  ASSUME AInv, BInv, Loaded, heapEnd < HeapPage + MaxHeapPages, MapHeapPage,
         UNCHANGED <<machine, phase>>
  PROVE  BInv'
<1>1. /\ machine \in Machines /\ phase \in {"heap", "running"}
      /\ SpaceInv(machine, space, Mapped(machine), heapEnd, idt)
      /\ heapEnd \in HeapPage .. (HeapPage + MaxHeapPages)
      /\ \A t \in TablesOf(space) : Translate(space, t) = t
  BY DEF AInv, ProgressInv, BInv, Loaded, SoFar, Mapped
<1>2. HeapPage \in Nat /\ MaxHeapPages \in Nat
  BY PagesFacts
<1>3. heapEnd \in HeapPage .. (HeapPage + MaxHeapPages - 1) /\ heapEnd \in Nat
  BY <1>1, <1>2
<1>4. Mapped(machine) \subseteq 0 .. (HeapPage - 1)
  BY <1>1, MachineFacts DEF Mapped
<1>5. Mapped(machine) \subseteq Pages /\ heapEnd \in Pages
  BY <1>2, <1>3, <1>4, PagesFacts
<1>6. \A t \in TablesOf(space) \cup BelowSize(machine) : Translate(space, t) = t
  BY <1>1, <1>5 DEF SpaceInv, MappedInv, Mapped
<1>7. Translate(space, heapEnd) = Absent
  <2>1. heapEnd \notin Mapped(machine) \cup HeapPage .. (heapEnd - 1)
    BY <1>2, <1>3, <1>4
  <2> QED BY <1>1, <1>5, <2>1 DEF SpaceInv, MappedInv
<1>8. ASSUME FailsRight(machine, space, idt', status'), UNCHANGED space
      PROVE  BInv'
  <2>1. FailsOnlyWhenMappedUsedUp'
    BY <1>8 DEF FailsOnlyWhenMappedUsedUp, FailsRight, Left
  <2> QED BY <1>1, <1>8, <2>1 DEF BInv
<1>9. Sound(space) /\ Consistent(space.alloc) /\ space.alloc.size = BitmapSize(machine.map)
  BY <1>1 DEF SpaceInv, Sound, FramesInv
<1>10. CASE Refused(space)
  <2>1. Clear(space.alloc) = {}
    BY <1>9, <1>10, ExhaustFacts DEF Refused
  <2>2. status' = "exhausted" /\ space' = space
    BY <1>10 DEF MapHeapPage
  <2>3. FailsRight(machine, space, idt', status')
    BY <1>9, <2>1, <2>2, NoneLeft, FailureIs
  <2> QED BY <1>8, <2>2, <2>3
<1>11. CASE ~Refused(space)
  <2>1. Map(TakeFrame(space), heapEnd, Requested(space))
    BY <1>11 DEF MapHeapPage
  <2>2. PICK x : x = TakeFrame(space)
    OBVIOUS
  <2>3. PICK f \in Nat : f = Requested(space)
    BY <1>9, <1>11, TookOne DEF Refused, Requested
  <2>4. PICK w : w = Walk(x, heapEnd)
    OBVIOUS
  <2>5. /\ Sound(x) /\ x.alloc.size = space.alloc.size /\ TablesOf(x) = TablesOf(space)
        /\ \A v : Translate(x, v) = Translate(space, v)
    <3>1. PICK a : a = Grant(space.alloc)
      OBVIOUS
    <3>2. Consistent(a) /\ space.alloc.bits \subseteq a.bits /\ a.size = space.alloc.size
      BY <1>9, <1>11, <3>1, TookOne DEF Refused, Took
    <3>3. x = [space EXCEPT !.alloc = a]
      BY <2>2, <3>1 DEF TakeFrame
    <3> QED BY <1>9, <3>2, <3>3, AllocatorAlone
  <2>6. /\ status' = Outcome(x, heapEnd)
        /\ status' = "ok" => space' = MapMemory(x, heapEnd, f)
        /\ status' # "ok" => space' = space
    BY <2>1, <2>2, <2>3 DEF Map
  <2>7. CASE status' # "ok"
    <3>1. /\ status' \in {"exhausted", "fault"}
          /\ status' = "exhausted" => w.refused
          /\ status' = "fault" => ~w.refused /\ \E t \in w.way : Translate(x, t) # t
      BY <2>4, <2>6, <2>7 DEF Outcome, Reachable
    <3>2. Found(space.alloc)
      BY <1>11 DEF Refused
    <3>3. /\ w.refused => Cardinality(Clear(space.alloc)) =< 3
          /\ ~w.refused /\ (\E t \in w.way : Translate(x, t) # t) =>
               /\ Cardinality(Left(machine, space)) =< 3
               /\ Clear(space.alloc) \ BelowSize(machine) # {}
      BY <1>1, <1>3, <1>6, <1>9, <2>2, <2>3, <2>4, <3>2, HeapPageFailure
    <3>4. FailsRight(machine, space, idt', status')
      BY <1>9, <3>1, <3>3, FailureIs
    <3> QED BY <1>8, <2>6, <2>7, <3>4
  <2>8. CASE status' = "ok"
    <3>1. ~w.refused /\ \A t \in w.way : Translate(x, t) = t
      BY <2>4, <2>6, <2>8 DEF Outcome, Reachable
    <3>2. PICK u : u = MapMemory(x, heapEnd, f)
      OBVIOUS
    <3>3. \A t \in TablesOf(x) \cup w.way : Translate(x, t) = t
      BY <1>1, <2>5, <3>1
    <3>4. Translate(x, heapEnd) = Absent /\ x.alloc.size = BitmapSize(machine.map)
      BY <1>7, <1>9, <2>5
    <3>5. \A t \in TablesOf(u) : Translate(u, t) = t
      BY <1>1, <1>3, <2>4, <2>5, <3>1, <3>2, <3>3, <3>4, HeapPageTables
    <3>6. space' = u
      BY <2>6, <2>8, <3>2
    <3> QED BY <1>1, <2>8, <3>5, <3>6 DEF BInv, FailsOnlyWhenMappedUsedUp
  <2> QED BY <2>7, <2>8
<1> QED BY <1>10, <1>11

LEMMA InitHeapKeeps == AInv /\ BInv /\ InitHeap => BInv'
<1> SUFFICES ASSUME AInv, BInv, InitHeap PROVE BInv'
  OBVIOUS
<1>1. Loaded /\ MapHeapPage /\ UNCHANGED <<machine, phase>>
  BY DEF InitHeap, Loaded
<1>2. heapEnd < HeapPage + MaxHeapPages
  <2>1. heapEnd \in Int
    BY PagesFacts DEF AInv, ProgressInv
  <2> QED BY <2>1, PagesFacts DEF InitHeap
<1> QED BY <1>1, <1>2, HeapPageKeeps

LEMMA ExpandHeapKeeps == AInv /\ BInv /\ ExpandHeap => BInv'
<1> SUFFICES ASSUME AInv, BInv, ExpandHeap PROVE BInv'
  OBVIOUS
<1>1. /\ Loaded /\ MapHeapPage /\ UNCHANGED <<machine, phase>>
      /\ heapEnd < HeapPage + MaxHeapPages
  BY DEF ExpandHeap, Loaded
<1> QED BY <1>1, HeapPageKeeps

(* The interrupt table's frame is the least that is clear: when it is not  *)
(* mapped, no frame that is mapped is left.                                *)
LEMMA ISRInstallKeeps == AInv /\ BInv /\ ISRInstall => BInv'
<1> SUFFICES ASSUME AInv, BInv, ISRInstall PROVE BInv'
  OBVIOUS
<1>1. /\ machine \in Machines /\ phase = "heap" /\ HeapPage \in Nat
      /\ SpaceInv(machine, space, Mapped(machine), heapEnd, idt)
      /\ \A t \in TablesOf(space) : Translate(space, t) = t
      /\ phase' = "running" /\ machine' = machine
  BY PagesFacts DEF AInv, ProgressInv, BInv, Loaded, SoFar, Mapped, ISRInstall
<1>2. Mapped(machine) \subseteq 0 .. (HeapPage - 1)
  BY <1>1, MachineFacts DEF Mapped
<1>3. Mapped(machine) \subseteq Pages
  BY <1>1, <1>2, PagesFacts
<1>4. \A v \in BelowSize(machine) : Translate(space, v) = v
  BY <1>1, <1>3 DEF SpaceInv, MappedInv, Mapped
<1>5. Sound(space) /\ Consistent(space.alloc)
  BY <1>1 DEF SpaceInv, Sound
<1>6. CASE Refused(space)
  <2>1. Clear(space.alloc) = {}
    BY <1>5, <1>6, ExhaustFacts DEF Refused
  <2>2. space' = space /\ status' = "exhausted"
    BY <1>6 DEF ISRInstall
  <2>3. FailsRight(machine, space, idt', status')
    BY <1>5, <2>1, <2>2, NoneLeft, FailureIs
  <2>4. FailsOnlyWhenMappedUsedUp'
    BY <1>1, <2>2, <2>3 DEF FailsOnlyWhenMappedUsedUp, FailsRight, Left
  <2> QED BY <1>1, <2>2, <2>4 DEF BInv
<1>7. CASE ~Refused(space)
  <2>1. PICK f \in Nat : f = Requested(space)
    BY <1>5, <1>7, TookOne DEF Refused, Requested
  <2>2. /\ space' = TakeFrame(space) /\ idt' = f
        /\ status' = IF Translate(space, f) = f THEN "ok" ELSE "fault"
    BY <1>7, <2>1 DEF ISRInstall
  <2>3. PICK a : a = Grant(space.alloc)
    OBVIOUS
  <2>4. /\ Consistent(a) /\ space.alloc.bits \subseteq a.bits
        /\ Clear(a) = Clear(space.alloc) \ {f}
        /\ \A g \in Clear(space.alloc) : f =< g
    BY <1>5, <1>7, <2>1, <2>3, GrantEffect DEF Refused, Requested
  <2>5. space' = [space EXCEPT !.alloc = a]
    BY <2>2, <2>3 DEF TakeFrame
  <2>6. PICK u : u = [space EXCEPT !.alloc = a]
    OBVIOUS
  <2>7. /\ u.alloc = a /\ TablesOf(u) = TablesOf(space)
        /\ \A v : Translate(u, v) = Translate(space, v)
    BY <1>5, <2>4, <2>6, AllocatorAlone
  <2>8. space' = u
    BY <2>5, <2>6
  <2>9. status' = "fault" =>
          /\ Cardinality(Left(machine, u)) =< 3
          /\ (Clear(u.alloc) \cup ({idt'} \ {NULL})) \ BelowSize(machine) # {}
    <3> SUFFICES ASSUME status' = "fault"
                 PROVE  /\ Cardinality(Left(machine, u)) =< 3
                        /\ (Clear(u.alloc) \cup ({idt'} \ {NULL})) \ BelowSize(machine) # {}
      OBVIOUS
    <3>1. f \notin BelowSize(machine)
      BY <1>4, <2>2
    <3>2. BelowSize(machine) = 0 .. (MemoryFrames(machine) - 1) /\ MemoryFrames(machine) \in Nat
      BY <1>1, MachineFacts
    <3>3. \A g \in BelowSize(machine) : ~(f =< g)
      BY <3>1, <3>2
    <3>4. Left(machine, u) = {}
      BY <2>4, <2>7, <3>3 DEF Left
    <3>5. Cardinality(Left(machine, u)) =< 3
      BY <3>4, FS_EmptySet
    <3>6. f # NULL
      <4>1. f \in Clear(space.alloc)
        BY <1>5, <1>7, <2>1, TookOne DEF Refused, Requested
      <4>2. 0 \in Before(machine)
        BY LowPagesAssumption DEF Before, Frames
      <4>3. 0 \in Bitmap_Indices(space.alloc)
        BY <1>5, ClearFacts DEF Bitmap_Indices
      <4> QED BY <1>1, <4>1, <4>2, <4>3 DEF SpaceInv, FramesInv, Clear, NULL
    <3> QED BY <2>2, <3>1, <3>5, <3>6
  <2>10. FailsOnlyWhenMappedUsedUp'
    <3>1. status' \in {"ok", "fault"}
      BY <2>2
    <3>2. FailsRight(machine, u, idt', status')
      BY <2>4, <2>7, <2>9, <3>1, FailureIs
    <3> QED BY <1>1, <2>8, <3>2 DEF FailsOnlyWhenMappedUsedUp, FailsRight, Left
  <2>11. \A t \in TablesOf(u) : Translate(u, t) = t
    BY <1>1, <2>7
  <2> QED BY <1>1, <2>8, <2>10, <2>11 DEF BInv
<1> QED BY <1>6, <1>7

LEMMA BInvariance == Spec => [](AInv /\ BInv)
<1>1. Init => BInv
  BY DEF Init, BInv, Loaded, FailsOnlyWhenMappedUsedUp
<1>2. AInv /\ BInv /\ Next => BInv'
  BY InitMemoryKeeps, MapIdentityKeeps, LockFrameBufferKeeps, MapFrameBufferKeeps,
     LoadCR3Keeps, InitHeapKeeps, ISRInstallKeeps, ExpandHeapKeeps DEF Next
<1>3. AInv /\ BInv /\ UNCHANGED vars => BInv'
  BY DEF BInv, Loaded, FailsOnlyWhenMappedUsedUp, vars
<1>4. AInv /\ BInv /\ [Next]_vars => BInv'
  BY <1>2, <1>3
<1> QED BY <1>1, <1>4, AInvariance, PTL DEF Spec

(***************************************************************************)
(* The frame buffer's frames are handed out to nobody once they are locked.*)
(***************************************************************************)
Locked(m, s) == FrameBuffer(m) \cap Clear(s.alloc) = {}

LockedInv == phase \notin {"boot", "identity"} => Locked(machine, space)

LEMMA TakingKeepsLocked ==
  ASSUME NEW m, NEW s, Locked(m, s), NEW u, Took(s.alloc, u.alloc)
  PROVE  Locked(m, u)
BY DEF Locked, Took, Clear, Managed

LEMMA OneTaken ==
  ASSUME NEW s, Sound(s), ~Refused(s), NEW x, x = TakeFrame(s)
  PROVE  /\ Sound(x) /\ Took(s.alloc, x.alloc)
         /\ Requested(s) \in Nat
<1>1. PICK a : a = Grant(s.alloc)
  OBVIOUS
<1>2. /\ Took(s.alloc, a) /\ Consistent(a) /\ s.alloc.bits \subseteq a.bits
      /\ Requested(s) \in Nat
  BY <1>1, TookOne DEF Sound, Refused, Requested, Took
<1>3. x = [s EXCEPT !.alloc = a]
  BY <1>1 DEF TakeFrame
<1> QED BY <1>2, <1>3, AllocatorAlone

LEMMA MappingKeepsLocked ==
  ASSUME NEW m, NEW s, Sound(s), Locked(m, s), NEW v \in Pages, NEW f \in Int,
         Outcome(s, v) = "ok"
  PROVE  Locked(m, MapMemory(s, v, f))
BY MapOutcome, TakingKeepsLocked DEF MapsTo

LEMMA LockingLocks ==
  ASSUME NEW m \in Machines, NEW s, Sound(s),
         NEW u, u = [s EXCEPT !.alloc = LockPages(@, LockedFrameBuffer(m))]
  PROVE  Locked(m, u)
<1>1. PICK a : a = LockPages(s.alloc, LockedFrameBuffer(m))
  OBVIOUS
<1>2. /\ a.size = s.alloc.size /\ s.alloc.size \in Nat
      /\ a.bits = s.alloc.bits \cup Fresh(s.alloc, LockedFrameBuffer(m))
  BY <1>1, SetBitsEffect, ClearFacts DEF Sound, Consistent
<1>3. u.alloc = a
  BY <1>1 DEF Sound, Shape
<1>4. FrameBuffer(m) \subseteq LockedFrameBuffer(m)
  BY MachineFacts
<1>5. Managed(a) \subseteq Bitmap_Indices(s.alloc)
  BY <1>2 DEF Managed, Bitmap_Indices
<1> QED BY <1>2, <1>3, <1>4, <1>5 DEF Locked, Fresh, Clear

LEMMA LockedStep == AInv /\ LockedInv /\ Next => LockedInv'
<1> SUFFICES ASSUME AInv, LockedInv, Next PROVE LockedInv'
  OBVIOUS
<1>1. CASE InitMemory
  BY <1>1 DEF InitMemory, LockedInv, AInv, ProgressInv
<1>2. CASE MapIdentity
  BY <1>2 DEF MapIdentity, LockedInv
<1>3. CASE LockFrameBuffer
  <2>1. Sound(space) /\ machine \in Machines /\ machine' = machine
    BY <1>3 DEF LockFrameBuffer, AInv, ProgressInv, SpaceInv
  <2> QED BY <1>3, <2>1, LockingLocks DEF LockFrameBuffer, LockedInv
<1>4. CASE MapFrameBuffer
  <2>1. /\ Sound(space) /\ Locked(machine, space) /\ machine \in Machines
        /\ machine' = machine /\ page \in FrameBuffer(machine)
    BY <1>4 DEF MapFrameBuffer, LockedInv, AInv, ProgressInv, SpaceInv
  <2>2. FrameBuffer(machine) \subseteq 0 .. (HeapPage - 1) /\ HeapPage \in Nat
    BY <2>1, MachineFacts, PagesFacts
  <2>3. page \in Pages /\ page \in Int
    BY <2>1, <2>2, PagesFacts
  <2>4. \/ space' = space
        \/ Outcome(space, page) = "ok" /\ space' = MapMemory(space, page, page)
    BY <1>4 DEF MapFrameBuffer, Map
  <2>5. Locked(machine, space')
    BY <2>1, <2>3, <2>4, MappingKeepsLocked
  <2> QED BY <2>1, <2>5 DEF LockedInv
<1>5. CASE LoadCR3
  BY <1>5 DEF LoadCR3, LockedInv
<1>6. CASE InitHeap \/ ExpandHeap
  <2>1. /\ Sound(space) /\ Locked(machine, space) /\ machine' = machine
        /\ MapHeapPage /\ heapEnd < HeapPage + MaxHeapPages
        /\ heapEnd \in HeapPage .. (HeapPage + MaxHeapPages)
        /\ HeapPage \in Nat /\ MaxHeapPages \in Nat
    <3>1. /\ InitPages \in Nat /\ InitPages =< MaxHeapPages
          /\ HeapPage \in Nat /\ MaxHeapPages \in Nat
      BY PagesFacts
    <3>2. heapEnd \in HeapPage .. (HeapPage + MaxHeapPages)
      BY DEF AInv, ProgressInv
    <3> QED BY <1>6, <3>1, <3>2 DEF InitHeap, ExpandHeap, LockedInv, AInv, SpaceInv
  <2>2. heapEnd \in Pages
    BY <2>1, PagesFacts
  <2>3. PICK x : x = TakeFrame(space)
    OBVIOUS
  <2>4. \/ space' = space
        \/ /\ ~Refused(space) /\ Outcome(x, heapEnd) = "ok"
           /\ space' = MapMemory(x, heapEnd, Requested(space))
    BY <2>1, <2>3 DEF MapHeapPage, Map
  <2>5. ASSUME ~Refused(space), Outcome(x, heapEnd) = "ok",
               space' = MapMemory(x, heapEnd, Requested(space))
        PROVE  Locked(machine, space')
    <3>1. Sound(x) /\ Took(space.alloc, x.alloc) /\ Requested(space) \in Int
      BY <2>1, <2>3, <2>5, OneTaken
    <3>2. Locked(machine, x)
      BY <2>1, <3>1, TakingKeepsLocked
    <3> QED BY <2>2, <2>5, <3>1, <3>2, MappingKeepsLocked
  <2>6. Locked(machine, space')
    BY <2>1, <2>4, <2>5
  <2> QED BY <2>1, <2>6 DEF LockedInv
<1>7. CASE ISRInstall
  <2>1. /\ Sound(space) /\ Locked(machine, space) /\ machine' = machine
        /\ space' = space \/ (~Refused(space) /\ space' = TakeFrame(space))
    BY <1>7 DEF ISRInstall, LockedInv, AInv, SpaceInv
  <2>2. Locked(machine, space')
    BY <2>1, OneTaken, TakingKeepsLocked
  <2> QED BY <2>1, <2>2 DEF LockedInv
<1> QED BY <1>1, <1>2, <1>3, <1>4, <1>5, <1>6, <1>7 DEF Next

LEMMA LockedInvariance == Spec => []LockedInv
<1>1. Init => LockedInv
  BY DEF Init, LockedInv
<1>2. AInv /\ LockedInv /\ [Next]_vars => LockedInv'
  BY LockedStep DEF LockedInv, vars
<1> QED BY <1>1, <1>2, AInvariance, PTL DEF Spec

(* From the moment CR3 is loaded, the kernel, the bitmap, every page table *)
(* that there is or will be and the frame buffer are reached at their own  *)
(* addresses, and so is every frame that the kernel may yet request if it  *)
(* lies below the sum of the sizes; one that does not is not mapped.       *)
THEOREM SwitchSafe == Spec => []SwitchIsSafe
<1>1. AInv /\ BInv /\ LockedInv => SwitchIsSafe
  <2> SUFFICES ASSUME AInv, BInv, LockedInv, Loaded
               PROVE  /\ \A f \in KernelFrames(machine) \cup BitmapFrames(machine.map)
                                   \cup Tables \cup FrameBuffer(machine) :
                           Translate(space, f) = f
                      /\ \A f \in Clear(space.alloc) :
                           Translate(space, f) = IF f \in BelowSize(machine) THEN f ELSE Absent
    BY DEF SwitchIsSafe
  <2>1. /\ machine \in Machines /\ HeapPage \in Nat
        /\ SpaceInv(machine, space, Mapped(machine), heapEnd, idt)
        /\ \A t \in TablesOf(space) : Translate(space, t) = t
        /\ Locked(machine, space)
    BY PagesFacts DEF AInv, ProgressInv, BInv, LockedInv, Loaded, SoFar, Mapped
  <2>2. KernelFrames(machine) \cup BitmapFrames(machine.map) \subseteq BelowSize(machine)
    BY <2>1, MachinesAssumption
  <2>3. Mapped(machine) \subseteq 0 .. (HeapPage - 1)
    BY <2>1, MachineFacts DEF Mapped
  <2>4. ASSUME NEW f \in Mapped(machine)
        PROVE  Translate(space, f) = f
    <3>1. f \in Pages
      BY <2>1, <2>3, PagesFacts
    <3> QED BY <2>1, <3>1 DEF SpaceInv, MappedInv
  <2>5. ASSUME NEW f \in KernelFrames(machine) \cup BitmapFrames(machine.map)
                           \cup Tables \cup FrameBuffer(machine)
        PROVE  Translate(space, f) = f
    <3>1. CASE f \in Tables
      BY <2>1, <3>1 DEF Tables, TablesOf
    <3>2. CASE f \in Mapped(machine)
      BY <2>4, <3>2
    <3> QED BY <2>2, <3>1, <3>2 DEF Mapped
  <2>6. ASSUME NEW f \in Clear(space.alloc)
        PROVE  Translate(space, f) = IF f \in BelowSize(machine) THEN f ELSE Absent
    <3>1. CASE f \in BelowSize(machine)
      BY <2>4, <3>1 DEF Mapped
    <3>2. CASE f \notin BelowSize(machine)
      <4>1. f \notin Mapped(machine)
        BY <2>1, <3>2 DEF Locked, Mapped
      <4>2. f \in 0 .. (HeapPage - 1)
        <5>1. /\ Clear(space.alloc) \subseteq 0 .. (8 * space.alloc.size - 1)
              /\ space.alloc.size = BitmapSize(machine.map)
          BY <2>1, ClearFacts DEF SpaceInv, Sound, FramesInv
        <5>2. BitmapSize(machine.map) \in Nat /\ 8 * BitmapSize(machine.map) =< HeapPage
          BY <2>1, MachineFacts
        <5> QED BY <2>1, <5>1, <5>2
      <4>3. f \in Pages /\ f \notin HeapPage .. (heapEnd - 1)
        BY <2>1, <4>2, PagesFacts
      <4>4. Translate(space, f) = Absent
        BY <2>1, <4>1, <4>3 DEF SpaceInv, MappedInv
      <4> QED BY <3>2, <4>4
    <3> QED BY <3>1, <3>2
  <2> QED BY <2>5, <2>6
<1> QED BY <1>1, BInvariance, LockedInvariance, PTL

(* The kernel stops in a mapping only for want of frames that it can use:  *)
(* RequestPage has nothing when no more than three frames of any kind are  *)
(* left, and gives one that is not mapped when no more than three of those *)
(* that are mapped are left.  Unless the memory map has a hole, that is    *)
(* all memory but three frames.                                            *)
THEOREM FailsCorrect == Spec => []FailsOnlyWhenMappedUsedUp
<1>1. BInv => FailsOnlyWhenMappedUsedUp
  BY DEF BInv
<1> QED BY <1>1, BInvariance, PTL
=============================================================================
