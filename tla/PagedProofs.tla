------------------------------ MODULE PagedProofs ------------------------------
(***************************************************************************)
(* Proofs about the paged cache.  First about PagedKVPool, for any slots,  *)
(* batch, tokens, pages and page size: no page is in two places, and the   *)
(* pool implements KVStore.  Then about PagedAdmission, for every set of   *)
(* sessions, every pool and any timeouts.                                  *)
(***************************************************************************)
EXTENDS PagedKVPool, PagedAdmission, FiniteSetTheorems, SequenceTheorems, TLAPS

USE PagedKVPoolAssumption

--------------------------------------------------------------------------------
(* The inductive invariant of the pool *)

Tables == [Rows -> Seq(Pages)]
Stores == [Pages -> [Offsets -> Tokens \cup {Blank}]]

\* The pages of a block table.
PagesOf(table) == {p \in Pages : \E i \in DOMAIN table : \E k \in 1 .. Len(table[i]) : table[i][k] = p}

\* A block table and a stack of free pages in which no page occurs twice.
Separate(table) ==
  \A i, j \in Rows : \A k \in 1 .. Len(table[i]), m \in 1 .. Len(table[j]) :
    table[i][k] = table[j][m] => i = j /\ k = m

Once(free) == \A k, m \in 1 .. Len(free) : free[k] = free[m] => k = m

Unused(table, free) == \A k \in 1 .. Len(free) : free[k] \notin PagesOf(table)

Clean(table, free) ==
  /\ table \in Tables /\ free \in Seq(Pages)
  /\ Separate(table) /\ Once(free) /\ Unused(table, free)

\* No row is longer than a sequence may get.
Bounded(table) == \A i \in Rows : Len(table[i]) <= MaxLength

\* The rows of a table have pages for the first tokens, and these are stored there.
Holds(table, store, length) ==
  \A i \in Rows :
    /\ NumLogicalPages(length) <= Len(table[i])
    /\ \A t \in 1 .. length : store[table[i][LogicalPage(t)]][Offset(t)] \in Tokens

Types ==
  /\ phase \in [Slots -> {"new", "open", "lost", "freed"}]
  /\ prefix_length \in [Slots -> 0 .. MaxLength]
  /\ free_pages \in Seq(Pages)
  /\ block_tables \in [Slots -> Tables \cup {<< >>}]
  /\ pool \in Stores

SlotOK(s) ==
  /\ phase[s] \in {"new", "freed"} => block_tables[s] = << >>
  /\ phase[s] = "new" => prefix_length[s] = 0
  /\ phase[s] \in {"open", "lost"} => Clean(block_tables[s], free_pages) /\ Bounded(block_tables[s])
  /\ phase[s] = "open" => Holds(block_tables[s], pool, prefix_length[s])

\* Two slots have no page in common.
Apart == \A s, u \in Slots : s # u => PagesOf(block_tables[s]) \cap PagesOf(block_tables[u]) = {}

Inv == Types /\ Once(free_pages) /\ Apart /\ \A s \in Slots : SlotOK(s)

--------------------------------------------------------------------------------
(* Induction                                                               *)

\* A set of numbers that is not empty has a least element.
LEMMA LeastNumber ==
  ASSUME NEW T \in SUBSET Nat, T # {}
  PROVE  \E m \in T : \A n \in T : m <= n
<1> DEFINE R == OpToRel(<, Nat)
<1>1. \A x, y \in Nat : <<x, y>> \in R <=> x < y
  BY DEF OpToRel
<1>2. IsWellFoundedOn(R, Nat)
  BY NatLessThanWellFounded
<1> HIDE DEF R
<1>3. PICK m \in T : \A n \in T : ~(<<n, m>> \in R)
  BY <1>2, WFMin
<1>4. ASSUME NEW n \in T
      PROVE  m <= n
  <2>1. m \in Nat /\ n \in Nat
    OBVIOUS
  <2>2. ~(n < m)
    BY <1>1, <1>3, <2>1
  <2>3. QED  BY <2>1, <2>2
<1>5. QED  BY <1>4

\* A set that has 0 and, with each number below a bound, the next one has every
\* number up to the bound.
LEMMA NumbersByInduction ==
  ASSUME NEW N \in Nat, NEW T, 0 \in T, \A n \in 0 .. (N - 1) : n \in T => n + 1 \in T
  PROVE  0 .. N \subseteq T
<1> DEFINE U == {n \in 0 .. N : n \notin T}
<1>1. SUFFICES ASSUME U # {}  PROVE  FALSE
  OBVIOUS
<1>2. U \in SUBSET Nat
  OBVIOUS
<1>3. PICK m \in U : \A n \in U : m <= n
  <2> HIDE DEF U
  <2>1. QED  BY <1>1, <1>2, LeastNumber
<1>4. m \in 1 .. N /\ m - 1 \in 0 .. (N - 1) /\ (m - 1) + 1 = m
  OBVIOUS
<1>5. m - 1 \in T
  BY <1>3, <1>4
<1>6. m \in T
  BY <1>4, <1>5
<1>7. QED  BY <1>6

\* A set of numbers above a bound without gaps is an interval.
LEMMA NoGaps ==
  ASSUME NEW a \in Nat, NEW N \in Nat, NEW K \in SUBSET ((a + 1) .. N),
         \A k \in K : \A j \in (a + 1) .. k : j \in K
  PROVE  Cardinality(K) \in Nat /\ K = (a + 1) .. (a + Cardinality(K))
<1> DEFINE T == {n \in Nat : n > a /\ n \notin K}
<1>1. a + N + 1 \in T
  OBVIOUS
<1>2. PICK m \in T : \A n \in T : m <= n
  <2>1. T \in SUBSET Nat /\ T # {}
    BY <1>1
  <2> HIDE DEF T
  <2>2. QED  BY <2>1, LeastNumber
<1>3. m \in Nat /\ m > a /\ m \notin K
  OBVIOUS
<1>4. K = (a + 1) .. (m - 1)
  <2>1. ASSUME NEW k \in K  PROVE  k \in (a + 1) .. (m - 1)
    <3>1. k \in (a + 1) .. N /\ (m <= k => m \in (a + 1) .. k)
      BY <1>3
    <3>2. QED  BY <1>3, <3>1
  <2>2. ASSUME NEW k \in (a + 1) .. (m - 1)  PROVE  k \in K
    BY <1>2, <1>3
  <2>3. QED  BY <2>1, <2>2
<1>5. Cardinality(K) = IF a + 1 > m - 1 THEN 0 ELSE m - 1 - (a + 1) + 1
  <2>1. a + 1 \in Int /\ m - 1 \in Int
    BY <1>3
  <2>2. QED  BY <1>4, <2>1, FS_Interval
<1>6. Cardinality(K) = m - 1 - a
  BY <1>3, <1>5
<1>7. QED  BY <1>3, <1>4, <1>6

--------------------------------------------------------------------------------
(* Pages and offsets                                                       *)

\* Division by the size of a page.
LEMMA DivMod ==
  ASSUME NEW x \in Nat
  PROVE  /\ x \div PageSize \in Nat
         /\ x % PageSize \in Offsets
         /\ x = (x \div PageSize) * PageSize + (x % PageSize)
BY SMTT(30) DEF Offsets

\* The quotient is the greatest number of pages that fit.
LEMMA DivLeast ==
  ASSUME NEW x \in Nat, NEW y \in Nat, x <= y
  PROVE  x \div PageSize <= y \div PageSize
<1> DEFINE a == x \div PageSize
           b == y \div PageSize
<1>1. a \in Nat /\ b \in Nat /\ a * PageSize <= x /\ y < (b + 1) * PageSize
  <2>1. /\ a \in Nat /\ x = a * PageSize + (x % PageSize) /\ x % PageSize \in 0 .. (PageSize - 1)
        /\ b \in Nat /\ y = b * PageSize + (y % PageSize) /\ y % PageSize \in 0 .. (PageSize - 1)
    BY DivMod DEF Offsets
  <2> HIDE DEF a, b
  <2>2. QED  BY <2>1
<1> HIDE DEF a, b
<1>2. SUFFICES ASSUME b + 1 <= a  PROVE  FALSE
  BY <1>1 DEF a, b
<1>3. (b + 1) * PageSize <= a * PageSize
  <2>1. PICK d \in Nat : a = (b + 1) + d
    BY <1>1, <1>2
  <2>2. d * PageSize >= 0
    BY <2>1
  <2>3. QED  BY <1>1, <2>1, <2>2
<1>4. QED  BY <1>1, <1>3

\* A token has one place, and one that lies among the pages of its row.
LEMMA PlaceOfToken ==
  ASSUME NEW t \in Nat \ {0}
  PROVE  /\ LogicalPage(t) \in Nat \ {0}
         /\ Offset(t) \in Offsets
BY DivMod, t - 1 \in Nat DEF LogicalPage, Offset

\* Two tokens on the same page at the same offset are the same token.
LEMMA OnePlacePerToken ==
  ASSUME NEW t \in Nat \ {0}, NEW u \in Nat \ {0},
         LogicalPage(t) = LogicalPage(u), Offset(t) = Offset(u)
  PROVE  t = u
<1> DEFINE a == (t - 1) \div PageSize
           b == (u - 1) \div PageSize
<1>1. /\ t - 1 \in Nat /\ u - 1 \in Nat /\ a \in Nat /\ b \in Nat
      /\ t - 1 = a * PageSize + ((t - 1) % PageSize)
      /\ u - 1 = b * PageSize + ((u - 1) % PageSize)
  BY DivMod, t - 1 \in Nat, u - 1 \in Nat
<1>2. a + 1 = b + 1 /\ (t - 1) % PageSize = (u - 1) % PageSize
  BY DEF LogicalPage, Offset
<1> HIDE DEF a, b
<1>3. a = b
  BY <1>1, <1>2
<1>4. QED  BY <1>1, <1>2, <1>3

\* There are pages for all tokens of a sequence, and no more pages than tokens.
LEMMA PagesForLength ==
  ASSUME NEW length \in Nat
  PROVE  /\ NumLogicalPages(length) \in 0 .. length
         /\ \A t \in 1 .. length : LogicalPage(t) \in 1 .. NumLogicalPages(length)
<1>1. length + PageSize - 1 \in Nat
  OBVIOUS
<1>2. NumLogicalPages(length) \in Nat
  BY <1>1, DivMod DEF NumLogicalPages
<1>3. NumLogicalPages(length) <= length
  <2> DEFINE a == NumLogicalPages(length)
  <2>1. length + PageSize - 1 = a * PageSize + ((length + PageSize - 1) % PageSize)
        /\ (length + PageSize - 1) % PageSize \in 0 .. (PageSize - 1)
    BY <1>1, DivMod DEF NumLogicalPages, Offsets
  <2> HIDE DEF a
  <2>2. a \in Nat
    BY <1>2 DEF a
  <2>3. SUFFICES ASSUME length + 1 <= a  PROVE  FALSE
    BY <1>2, <2>2 DEF a
  <2>4. PICK d \in Nat : a = (length + 1) + d
    BY <2>2, <2>3
  <2>5. a * PageSize <= length + PageSize - 1
    BY <1>1, <2>1, <2>2
  <2>6. d * PageSize >= 0 /\ length * PageSize >= length
    <3>1. PICK e \in Nat : PageSize = e + 1
      OBVIOUS
    <3>2. length * e >= 0 /\ length * PageSize = length * e + length
      BY <3>1
    <3>3. QED  BY <2>4, <3>2
  <2>7. a * PageSize = length * PageSize + PageSize + d * PageSize
    BY <2>4
  <2>8. QED  BY <2>5, <2>6, <2>7
<1>4. ASSUME NEW t \in 1 .. length
      PROVE  LogicalPage(t) \in 1 .. NumLogicalPages(length)
  <2>1. t \in Nat \ {0} /\ t - 1 + PageSize \in Nat /\ t - 1 + PageSize <= length + PageSize - 1
    OBVIOUS
  <2>2. (t - 1 + PageSize) \div PageSize <= NumLogicalPages(length)
    BY <1>1, <2>1, DivLeast DEF NumLogicalPages
  <2>3. (t - 1 + PageSize) \div PageSize = (t - 1) \div PageSize + 1
    <3> DEFINE a == (t - 1) \div PageSize
               b == (t - 1 + PageSize) \div PageSize
               x == (t - 1) % PageSize
               y == (t - 1 + PageSize) % PageSize
    <3>1. /\ a \in Nat /\ t - 1 = a * PageSize + x /\ x \in 0 .. (PageSize - 1)
          /\ b \in Nat /\ t - 1 + PageSize = b * PageSize + y /\ y \in 0 .. (PageSize - 1)
      BY <2>1, t - 1 \in Nat, DivMod DEF Offsets
    <3> HIDE DEF a, b, x, y
    <3>2. (b - (a + 1)) * PageSize = x - y
      BY <3>1
    <3>3. CASE b > a + 1
      <4>1. PICK d \in Nat : b - (a + 1) = d + 1
        BY <3>1, <3>3
      <4>2. d * PageSize >= 0 /\ (d + 1) * PageSize = d * PageSize + PageSize
        OBVIOUS
      <4>3. QED  BY <3>1, <3>2, <4>1, <4>2
    <3>4. CASE b < a + 1
      <4>1. PICK d \in Nat : b - (a + 1) = -(d + 1)
        <5>1. a + 1 - b - 1 \in Nat
          BY <3>1, <3>4
        <5>2. b - (a + 1) = -((a + 1 - b - 1) + 1)
          BY <3>1
        <5>3. QED  BY <5>1, <5>2
      <4>2. d * PageSize >= 0 /\ (-(d + 1)) * PageSize = -(d * PageSize) - PageSize
        OBVIOUS
      <4>3. QED  BY <3>1, <3>2, <4>1, <4>2
    <3>5. b = a + 1
      BY <3>1, <3>3, <3>4
    <3>6. QED  BY <3>5 DEF a, b
  <2>4. QED  BY <1>2, <2>1, <2>2, <2>3, PlaceOfToken DEF LogicalPage
<1>5. QED  BY <1>2, <1>3, <1>4

--------------------------------------------------------------------------------
(* Pages from the stack                                                    *)

Positions == Rows \X (1 .. MaxLength)

\* There are finitely many positions.
LEMMA PositionsFinite ==
  ASSUME NEW S \in SUBSET Positions
  PROVE  IsFiniteSet(S) /\ Cardinality(S) \in Nat
<1>1. IsFiniteSet(Rows) /\ IsFiniteSet(1 .. MaxLength)
  BY FS_Interval DEF Rows
<1>2. IsFiniteSet(Positions)
  BY <1>1, FS_Product DEF Positions
<1>3. IsFiniteSet(S)
  BY <1>2, FS_Subset
<1>4. QED  BY <1>3, FS_CardinalityType

\* Before is a linear order of the positions.
LEMMA BeforeOrders ==
  /\ \A p \in Positions : ~Before(p, p)
  /\ \A p, q \in Positions : p = q \/ Before(p, q) \/ Before(q, p)
  /\ \A p, q, r \in Positions : Before(p, q) /\ Before(q, r) => Before(p, r)
<1>1. \A p \in Positions : p[1] \in Int /\ p[2] \in Int /\ p = <<p[1], p[2]>>
  BY DEF Positions, Rows
<1>2. QED  BY <1>1 DEF Before

\* Positions before another have lower ranks.
LEMMA RankGrows ==
  ASSUME NEW S \in SUBSET Positions, NEW p \in S, NEW q \in S
  PROVE  /\ Rank(S, p) \in 0 .. (Cardinality(S) - 1)
         /\ Before(p, q) => Rank(S, p) < Rank(S, q)
         /\ p # q => Rank(S, p) # Rank(S, q)
<1> DEFINE below(x) == {y \in S : Before(y, x)}
<1>1. \A x \in S : below(x) \in SUBSET Positions /\ below(x) \subseteq S /\ x \notin below(x)
  BY BeforeOrders
<1>2. \A x \in S : Rank(S, x) = Cardinality(below(x)) /\ Rank(S, x) \in Nat
                   /\ Cardinality(S) \in Nat /\ IsFiniteSet(S) /\ IsFiniteSet(below(x))
  <2> TAKE x \in S
  <2>1. Rank(S, x) = Cardinality(below(x))
    BY DEF Rank
  <2> HIDE DEF below
  <2>2. QED  BY <1>1, <2>1, PositionsFinite
<1>3. ASSUME NEW x \in S, NEW y \in S, Before(x, y)
      PROVE  Rank(S, x) < Rank(S, y)
  <2>1. below(x) \subseteq below(y) /\ below(x) # below(y)
    <3>1. x \in below(y) /\ x \notin below(x)
      BY <1>1, <1>3
    <3>2. below(x) \subseteq below(y)
      BY <1>3, BeforeOrders
    <3>3. QED  BY <3>1, <3>2
  <2> HIDE DEF below
  <2>2. QED  BY <1>2, <2>1, FS_Subset
<1>4. Rank(S, p) < Cardinality(S)
  <2>1. below(p) \subseteq S /\ below(p) # S
    BY <1>1
  <2> HIDE DEF below
  <2>2. QED  BY <1>2, <2>1, FS_Subset
<1>5. p # q => Before(p, q) \/ Before(q, p)
  BY BeforeOrders
<1>6. QED
  <2> HIDE DEF below
  <2>1. Rank(S, p) \in Nat /\ Rank(S, q) \in Nat /\ Cardinality(S) \in Nat
    BY <1>2
  <2>2. Before(p, q) => Rank(S, p) < Rank(S, q)
    BY <1>3
  <2>3. Before(q, p) => Rank(S, q) < Rank(S, p)
    BY <1>3
  <2>4. QED  BY <1>4, <1>5, <2>1, <2>2, <2>3

\* The positions served are the first ones, as many as there are pages for.
LEMMA ServedFirst ==
  ASSUME NEW S \in SUBSET Positions, NEW free \in Seq(Pages)
  PROVE  /\ Served(S, free) \subseteq S
         /\ \A p \in Served(S, free), q \in S : Before(q, p) => q \in Served(S, free)
         /\ Cardinality(Served(S, free)) \in 0 .. Len(free)
         /\ \A p \in Served(S, free) : Rank(S, p) \in 0 .. (Cardinality(Served(S, free)) - 1)
         /\ Cardinality(S) <= Len(free) => Served(S, free) = S
<1> DEFINE U == Served(S, free)
<1>1. U \subseteq S /\ U \in SUBSET Positions /\ Len(free) \in Nat
  BY LenProperties DEF Served
<1>2. \A p \in U : Rank(S, p) \in Nat /\ Rank(S, p) < Len(free) /\ Rank(S, p) < Cardinality(S)
  <2>1. \A p \in S : Rank(S, p) \in 0 .. (Cardinality(S) - 1)
    BY RankGrows
  <2>2. \A p \in U : Rank(S, p) < Len(free)
    BY DEF Served
  <2> HIDE DEF U
  <2>3. QED  BY <1>1, <2>1, <2>2, PositionsFinite
<1>3. ASSUME NEW p \in U, NEW q \in S, Before(q, p)
      PROVE  q \in U
  <2>1. Rank(S, q) < Rank(S, p) /\ Rank(S, q) \in 0 .. (Cardinality(S) - 1)
    BY <1>1, <1>3, RankGrows
  <2>2. Rank(S, q) < Len(free)
    BY <1>1, <1>2, <2>1, PositionsFinite
  <2>3. QED  BY <2>2 DEF Served
<1>4. \A p \in U : Rank(S, p) = Rank(U, p)
  <2> TAKE p \in U
  <2>1. {q \in S : Before(q, p)} = {q \in U : Before(q, p)}
    BY <1>1, <1>3
  <2> HIDE DEF U
  <2>2. QED  BY <2>1 DEF Rank
<1>5. \A p \in U : Rank(S, p) \in 0 .. (Cardinality(U) - 1)
  <2> HIDE DEF U
  <2>1. \A p \in U : Rank(U, p) \in 0 .. (Cardinality(U) - 1)
    BY <1>1, RankGrows
  <2>2. QED  BY <1>4, <2>1
<1>6. Cardinality(U) \in 0 .. Len(free)
  <2> DEFINE f == [p \in U |-> Rank(S, p)]
             T == 0 .. (Len(free) - 1)
  <2> HIDE DEF U
  <2>1. f \in [U -> T]
    BY <1>1, <1>2
  <2>2. \A p, q \in U : f[p] = f[q] => p = q
    BY <1>1, RankGrows
  <2>3. f \in Injection(U, T)
    BY <2>1, <2>2 DEF Injection, IsInjective
  <2>4. IsFiniteSet(T) /\ Cardinality(T) = Len(free)
    <3>1. 0 \in Int /\ Len(free) - 1 \in Int
      BY <1>1
    <3>2. IsFiniteSet(T) /\ Cardinality(T) = IF 0 > Len(free) - 1 THEN 0 ELSE Len(free) - 1 - 0 + 1
      BY <3>1, FS_Interval
    <3>3. QED  BY <1>1, <3>2
  <2> HIDE DEF f, T
  <2>5. Cardinality(U) <= Cardinality(T)
    BY <2>3, <2>4, FS_Injection
  <2>6. QED  BY <1>1, <2>4, <2>5, PositionsFinite
<1>7. ASSUME Cardinality(S) <= Len(free)  PROVE  S \subseteq U
  <2> SUFFICES ASSUME NEW p \in S  PROVE  p \in U
    OBVIOUS
  <2>1. Rank(S, p) \in 0 .. (Cardinality(S) - 1) /\ Cardinality(S) \in Nat
    BY RankGrows, PositionsFinite
  <2>2. Rank(S, p) < Len(free)
    BY <1>1, <1>7, <2>1
  <2>3. QED  BY <2>2 DEF Served
<1>8. QED
  <2> HIDE DEF U
  <2>1. Cardinality(S) <= Len(free) => U = S
    BY <1>1, <1>7
  <2>2. QED  BY <1>1, <1>3, <1>5, <1>6, <2>1 DEF U

\* What positions get from a stack without repetitions: pages of the stack, each
\* once, which are no longer in it.
Handout(S, new, rest, free) ==
  /\ new \in [S -> Pages] /\ rest \in Seq(Pages)
  /\ \A p, q \in S : new[p] = new[q] => p = q
  /\ Once(rest)
  /\ \A p \in S : \A k \in 1 .. Len(rest) : new[p] # rest[k]
  /\ \A p \in S : \E k \in 1 .. Len(free) : new[p] = free[k]
  /\ \A k \in 1 .. Len(rest) : \E m \in 1 .. Len(free) : rest[k] = free[m]

\* acquire: if no page is twice on the free list, the pages handed out and those left
\* over are all different, and all from the list.
LEMMA AcquiredOnce ==
  ASSUME NEW S \in SUBSET Positions, NEW free \in Seq(Pages), Once(free)
  PROVE  Handout(Served(S, free), Acquired(S, free), Rest(S, free), free)
<1> DEFINE U == Served(S, free)
           L == Len(free)
           C == Cardinality(U)
           at(p) == L - Rank(S, p)
           new == Acquired(S, free)
           rest == Rest(S, free)
<1>1. L \in Nat /\ C \in 0 .. L /\ U \subseteq S /\ \A k \in 1 .. L : free[k] \in Pages
  BY ServedFirst, LenProperties, ElementOfSeq
<1>2. \A p \in U : at(p) \in (L - C + 1) .. L
  <2>1. \A p \in U : Rank(S, p) \in 0 .. (C - 1)
    BY ServedFirst
  <2> HIDE DEF U, C, L
  <2>2. QED  BY <1>1, <2>1 DEF L
<1>3. \A p, q \in U : at(p) = at(q) => p = q
  <2> SUFFICES ASSUME NEW p \in U, NEW q \in U, p # q  PROVE  at(p) # at(q)
    OBVIOUS
  <2>1. Rank(S, p) # Rank(S, q) /\ Rank(S, p) \in 0 .. (C - 1) /\ Rank(S, q) \in 0 .. (C - 1)
    BY <1>1, RankGrows, ServedFirst
  <2> HIDE DEF U, C, L
  <2>2. QED  BY <1>1, <2>1
<1>4. new = [p \in U |-> free[at(p)]]
  BY DEF Acquired
<1>5. rest \in Seq(Pages) /\ Len(rest) = L - C /\ \A k \in 1 .. (L - C) : rest[k] = free[k]
  <2>1. rest = SubSeq(free, 1, L - C)
    BY DEF Rest
  <2>2. \A k \in 1 .. (L - C) : free[k] \in Pages
    BY <1>1
  <2> HIDE DEF rest, U, C, L
  <2>3. QED  BY <1>1, <2>1, <2>2, SubSeqProperties
<1> HIDE DEF U, C, at, new, rest
<1>6. new \in [U -> Pages] /\ \A p \in U : new[p] = free[at(p)] /\ at(p) \in 1 .. L
  BY <1>1, <1>2, <1>4
<1>7. \A p, q \in U : new[p] = new[q] => p = q
  BY <1>3, <1>6 DEF Once
<1>8. \A k \in 1 .. Len(rest) : k \in 1 .. L /\ rest[k] = free[k]
  BY <1>1, <1>5
<1>9. Once(rest)
  BY <1>8 DEF Once
<1>10. \A p \in U : \A k \in 1 .. Len(rest) : new[p] # rest[k]
  <2> SUFFICES ASSUME NEW p \in U, NEW k \in 1 .. Len(rest), new[p] = rest[k]  PROVE  FALSE
    OBVIOUS
  <2>1. at(p) = k
    BY <1>6, <1>8 DEF Once
  <2>2. QED  BY <1>1, <1>2, <1>5, <2>1
<1>11. Handout(U, new, rest, free)
  BY <1>5, <1>6, <1>7, <1>8, <1>9, <1>10 DEF Handout
<1>12. QED  BY <1>11 DEF U, new, rest

--------------------------------------------------------------------------------
(* The pages of a block table in one sequence                              *)

\* Intervals of the same numbers have the same length.
LEMMA SameLength ==
  ASSUME NEW a \in Nat, NEW b \in Nat, 1 .. a = 1 .. b
  PROVE  a = b
<1>1. a = 0 \/ a \in 1 .. a
  OBVIOUS
<1>2. b = 0 \/ b \in 1 .. b
  OBVIOUS
<1>3. a <= b /\ b <= a
  BY <1>1, <1>2
<1>4. QED  BY <1>3

\* A table is a sequence of rows.
LEMMA TableLength ==
  ASSUME NEW table \in Tables
  PROVE  Len(table) = Batch
<1>1. table \in Seq(Seq(Pages))
  <2>1. table \in [1 .. Batch -> Seq(Pages)] /\ Batch \in Nat
    BY DEF Tables, Rows
  <2>2. QED  BY <2>1, SeqDef
<1>2. Len(table) \in Nat /\ DOMAIN table = 1 .. Len(table)
  BY <1>1, LenProperties
<1>3. 1 .. Len(table) = 1 .. Batch
  BY <1>2 DEF Tables, Rows
<1>4. QED  BY <1>2, <1>3, SameLength

\* One row appended after the other, up to row n.
Appends(f, table, n) ==
  /\ f \in [1 .. n -> Seq(Pages)]
  /\ \A i \in 1 .. n : f[i] = IF i = 1 THEN table[i] ELSE f[i - 1] \o table[i]

\* The row after the first n.
LEMMA AppendsStep ==
  ASSUME NEW f, NEW table, NEW n \in 0 .. (Batch - 1),
         \A i \in 1 .. Batch : f[i] = IF i = 1 THEN table[i] ELSE f[i - 1] \o table[i]
  PROVE  /\ n = 0 => f[n + 1] = table[n + 1]
         /\ n # 0 => f[n + 1] = f[n] \o table[n + 1]
<1> DEFINE i == n + 1
<1>1. i \in 1 .. Batch /\ (n = 0 => i = 1) /\ (n # 0 => i # 1 /\ i - 1 = n)
  OBVIOUS
<1> HIDE DEF i
<1>2. f[i] = IF i = 1 THEN table[i] ELSE f[i - 1] \o table[i]
  BY <1>1
<1>3. n = 0 => f[i] = table[i]
  BY <1>1, <1>2
<1>4. n # 0 => f[i] = f[n] \o table[i]
  BY <1>1, <1>2
<1>5. QED  BY <1>3, <1>4 DEF i

\* FlattenSeq's recursive function exists for every table.
LEMMA AppendsExists ==
  ASSUME NEW table \in Tables
  PROVE  \E f : Appends(f, table, Batch)
<1> DEFINE T == {n \in 0 .. Batch : \E f : Appends(f, table, n)}
<1>1. 0 \in T
  <2>1. Appends([i \in 1 .. 0 |-> << >>], table, 0)
    BY DEF Appends
  <2>2. QED  BY <2>1
<1>2. ASSUME NEW n \in 0 .. (Batch - 1), n \in T
      PROVE  n + 1 \in T
  <2>1. PICK f : Appends(f, table, n)
    BY <1>2
  <2> DEFINE last == IF n = 0 THEN table[n + 1] ELSE f[n] \o table[n + 1]
             g == [i \in 1 .. (n + 1) |-> IF i = n + 1 THEN last ELSE f[i]]
  <2>2. table[n + 1] \in Seq(Pages)
    BY DEF Tables, Rows
  <2>3. last \in Seq(Pages)
    <3>1. CASE n = 0
      BY <2>2, <3>1
    <3>2. CASE n # 0
      <4>1. f[n] \in Seq(Pages)
        BY <2>1, <3>2 DEF Appends
      <4>2. QED  BY <2>2, <3>2, <4>1, ConcatProperties
    <3>3. QED  BY <3>1, <3>2
  <2>4. \A i \in 1 .. n : i \in 1 .. (n + 1) /\ i # n + 1 /\ f[i] \in Seq(Pages)
    BY <2>1 DEF Appends
  <2>5. \A i \in 1 .. n : g[i] = f[i]
    BY <2>4
  <2>6. g[n + 1] = last
    OBVIOUS
  <2>7. g \in [1 .. (n + 1) -> Seq(Pages)]
    <3> HIDE DEF last
    <3>1. \A i \in 1 .. (n + 1) : i = n + 1 \/ i \in 1 .. n
      OBVIOUS
    <3>2. QED  BY <2>3, <2>4, <3>1
  <2>8. \A i \in 1 .. (n + 1) : g[i] = IF i = 1 THEN table[i] ELSE g[i - 1] \o table[i]
    <3> TAKE i \in 1 .. (n + 1)
    <3>1. CASE i = n + 1
      <4>1. CASE n = 0
        BY <2>6, <3>1, <4>1
      <4>2. CASE n # 0
        <5>1. n \in 1 .. n /\ i - 1 = n /\ i # 1
          BY <3>1, <4>2
        <5>2. g[n] = f[n]
          BY <2>5, <5>1
        <5>3. g[i] = f[n] \o table[n + 1]
          BY <2>6, <3>1, <4>2
        <5> HIDE DEF g
        <5>4. QED  BY <3>1, <5>1, <5>2, <5>3
      <4>3. QED  BY <4>1, <4>2
    <3>2. CASE i # n + 1
      <4>1. i \in 1 .. n /\ (i # 1 => i - 1 \in 1 .. n)
        BY <3>2
      <4>2. g[i] = f[i] /\ (i # 1 => g[i - 1] = f[i - 1])
        BY <2>5, <4>1
      <4>3. f[i] = IF i = 1 THEN table[i] ELSE f[i - 1] \o table[i]
        BY <2>1, <4>1 DEF Appends
      <4> HIDE DEF g
      <4>4. QED  BY <4>2, <4>3
    <3>3. QED  BY <3>1, <3>2
  <2>9. Appends(g, table, n + 1)
    <3> HIDE DEF g
    <3>1. QED  BY <2>7, <2>8 DEF Appends
  <2>10. QED  BY <2>9
<1>3. 0 .. Batch \subseteq T
  <2> HIDE DEF T
  <2>1. Batch \in Nat
    OBVIOUS
  <2>2. QED  BY <1>1, <1>2, <2>1, NumbersByInduction
<1>4. QED  BY <1>3

\* FlattenSeq appends the rows.
LEMMA FlattenAppends ==
  ASSUME NEW table \in Tables
  PROVE  \E f : Appends(f, table, Batch) /\ FlattenSeq(table) = f[Batch]
<1> DEFINE body(f) == [i \in 1 .. Len(table) |-> IF i = 1 THEN table[i] ELSE f[i - 1] \o table[i]]
           g == CHOOSE f : f = body(f)
<1>1. Len(table) = Batch /\ Batch # 0
  BY TableLength
<1>2. FlattenSeq(table) = g[Batch]
  BY <1>1 DEF FlattenSeq
<1>3. PICK f : Appends(f, table, Batch)
  BY AppendsExists
<1>4. f = body(f)
  BY <1>1, <1>3 DEF Appends
<1>5. g = body(g)
  <2> HIDE DEF body
  <2>1. QED  BY <1>4
<1>6. Appends(g, table, Batch)
  <2> HIDE DEF g
  <2>1. DOMAIN g = 1 .. Batch /\ \A i \in 1 .. Batch : g[i] = IF i = 1 THEN table[i] ELSE g[i - 1] \o table[i]
    BY <1>1, <1>5
  <2> HIDE DEF body
  <2> DEFINE T == {n \in 0 .. Batch : n = 0 \/ g[n] \in Seq(Pages)}
  <2>2. ASSUME NEW n \in 0 .. (Batch - 1), n \in T
        PROVE  n + 1 \in T
    <3>1. table[n + 1] \in Seq(Pages) /\ n + 1 \in 1 .. Batch /\ (n # 0 => n + 1 # 1)
      BY DEF Tables, Rows
    <3>2. CASE n = 0
      <4>1. g[n + 1] = table[n + 1]
        BY <2>1, <3>2, AppendsStep, ZenonT(40)
      <4>2. QED  BY <3>1, <4>1
    <3>3. CASE n # 0
      <4>2. g[n] \in Seq(Pages)
        BY <2>2, <3>3
      <4>3. g[n + 1] = g[n] \o table[n + 1]
        BY <2>1, <3>3, AppendsStep, ZenonT(40)
      <4>4. g[n + 1] \in Seq(Pages)
        BY <3>1, <4>2, <4>3, ConcatProperties
      <4>5. QED  BY <4>4
    <3>4. QED  BY <3>2, <3>3
  <2>3. 0 .. Batch \subseteq T
    <3>1. 0 \in T /\ Batch \in Nat
      OBVIOUS
    <3> HIDE DEF T
    <3>2. QED  BY <2>2, <3>1, NumbersByInduction
  <2>4. \A n \in 1 .. Batch : g[n] \in Seq(Pages)
    BY <2>3
  <2>5. g = [i \in 1 .. Batch |-> g[i]]
    BY <1>1, <1>5 DEF body
  <2>6. QED  BY <2>1, <2>4, <2>5 DEF Appends
<1>7. QED
  <2> HIDE DEF g
  <2>1. QED  BY <1>2, <1>6

\* Two sequences without repetitions and nothing in common, one after the other.
LEMMA OnceConcat ==
  ASSUME NEW s \in Seq(Pages), NEW t \in Seq(Pages), Once(s), Once(t),
         \A k \in 1 .. Len(s), m \in 1 .. Len(t) : s[k] # t[m]
  PROVE  /\ s \o t \in Seq(Pages)
         /\ Once(s \o t)
         /\ \A k \in 1 .. Len(s \o t) : \/ \E m \in 1 .. Len(s) : (s \o t)[k] = s[m]
                                        \/ \E m \in 1 .. Len(t) : (s \o t)[k] = t[m]
<1>1. /\ Len(s) \in Nat /\ Len(t) \in Nat /\ Len(s \o t) = Len(s) + Len(t) /\ s \o t \in Seq(Pages)
      /\ \A k \in 1 .. Len(s) + Len(t) : (s \o t)[k] = IF k <= Len(s) THEN s[k] ELSE t[k - Len(s)]
  BY ConcatProperties, LenProperties
<1>2. \A k \in 1 .. Len(s) + Len(t) :
        IF k <= Len(s) THEN k \in 1 .. Len(s) ELSE k - Len(s) \in 1 .. Len(t)
  BY <1>1
<1>3. ASSUME NEW k \in 1 .. Len(s) + Len(t), NEW m \in 1 .. Len(s) + Len(t), (s \o t)[k] = (s \o t)[m]
      PROVE  k = m
  <2>1. CASE k <= Len(s) /\ m <= Len(s)
    BY <1>1, <1>2, <1>3, <2>1 DEF Once
  <2>2. CASE k <= Len(s) /\ ~(m <= Len(s))
    BY <1>1, <1>2, <1>3, <2>2
  <2>3. CASE ~(k <= Len(s)) /\ m <= Len(s)
    BY <1>1, <1>2, <1>3, <2>3
  <2>4. CASE ~(k <= Len(s)) /\ ~(m <= Len(s))
    <3>1. k - Len(s) = m - Len(s)
      BY <1>1, <1>2, <1>3, <2>4 DEF Once
    <3>2. QED  BY <1>1, <3>1
  <2>5. QED  BY <2>1, <2>2, <2>3, <2>4
<1>4. Once(s \o t)
  BY <1>1, <1>3 DEF Once
<1>5. QED  BY <1>1, <1>2, <1>4

\* It has the pages of the table, each once if none occurs twice in the table.
LEMMA FlattenPages ==
  ASSUME NEW table \in Tables, Separate(table)
  PROVE  /\ FlattenSeq(table) \in Seq(Pages)
         /\ Once(FlattenSeq(table))
         /\ \A k \in 1 .. Len(FlattenSeq(table)) : FlattenSeq(table)[k] \in PagesOf(table)
<1>1. PICK f : Appends(f, table, Batch) /\ FlattenSeq(table) = f[Batch]
  BY FlattenAppends
<1> DEFINE from(n, p) == \E i \in 1 .. n : \E m \in 1 .. Len(table[i]) : table[i][m] = p
           ok(n) == Once(f[n]) /\ \A k \in 1 .. Len(f[n]) : from(n, f[n][k])
           T == {n \in 0 .. Batch : n = 0 \/ ok(n)}
<1>2. \A n \in 1 .. Batch : n \in Rows /\ f[n] \in Seq(Pages) /\ table[n] \in Seq(Pages)
  BY <1>1 DEF Appends, Tables, Rows
<1>3. \A n \in 1 .. Batch : Once(table[n])
  BY <1>2 DEF Separate, Once
<1>4. ASSUME NEW n \in 0 .. (Batch - 1), n \in T
      PROVE  n + 1 \in T
  <2>1. n + 1 \in 1 .. Batch /\ n \in 0 .. (Batch - 1)
    OBVIOUS
  <2>5. \A i \in 1 .. Batch : f[i] = IF i = 1 THEN table[i] ELSE f[i - 1] \o table[i]
    BY <1>1 DEF Appends
  <2>2. CASE n = 0
    <3>1. f[n + 1] = table[n + 1]
      <4>1. n = 0 => f[n + 1] = table[n + 1]
        BY <2>1, <2>5, AppendsStep
      <4>2. QED  BY <2>2, <4>1
    <3>2. ok(n + 1)
      BY <1>3, <2>1, <3>1
    <3>3. QED  BY <2>1, <3>2
  <2>3. CASE n # 0
    <3> DEFINE s == f[n]
               t == table[n + 1]
    <3>1. n \in 1 .. Batch /\ f[n + 1] = s \o t /\ s \in Seq(Pages) /\ t \in Seq(Pages)
      <4>1. n \in 1 .. Batch
        BY <2>3
      <4>2. f[n + 1] = f[n] \o table[n + 1]
        BY <1>1, <2>3, AppendsStep, ZenonT(40) DEF Appends
      <4>3. QED  BY <1>2, <2>1, <4>1, <4>2
    <3>2. ok(n)
      BY <1>4, <2>3
    <3>3. /\ Len(s) \in Nat /\ Len(t) \in Nat /\ Len(s \o t) = Len(s) + Len(t)
          /\ \A k \in 1 .. Len(s) + Len(t) : (s \o t)[k] = IF k <= Len(s) THEN s[k] ELSE t[k - Len(s)]
      BY <3>1, ConcatProperties, LenProperties, ZenonT(40)
    <3>4. \A k \in 1 .. Len(s) + Len(t) :
            IF k <= Len(s) THEN k \in 1 .. Len(s) ELSE k - Len(s) \in 1 .. Len(t)
      <4> HIDE DEF s, t
      <4>1. QED  BY <3>3
    <3>5. \A k \in 1 .. Len(s), m \in 1 .. Len(t) : s[k] # t[m]
      <4> SUFFICES ASSUME NEW k \in 1 .. Len(s), NEW m \in 1 .. Len(t), s[k] = t[m]  PROVE  FALSE
        OBVIOUS
      <4>1. PICK i \in 1 .. n : \E j \in 1 .. Len(table[i]) : table[i][j] = s[k]
        BY <3>2
      <4>2. PICK j \in 1 .. Len(table[i]) : table[i][j] = s[k]
        BY <4>1
      <4>3. i \in Rows /\ n + 1 \in Rows /\ i # n + 1
        BY <1>2, <2>1
      <4>4. QED  BY <4>2, <4>3 DEF Separate
    <3>6. Once(s) /\ Once(t)
      BY <1>3, <2>1, <3>2
    <3> HIDE DEF s, t
    <3>7. Once(s \o t)
      BY <3>1, <3>5, <3>6, OnceConcat
    <3>8. \A k \in 1 .. Len(s) + Len(t) : from(n + 1, (s \o t)[k])
      <4> TAKE k \in 1 .. Len(s) + Len(t)
      <4>1. CASE k <= Len(s)
        <5>1. from(n, s[k])
          BY <3>2, <3>4, <4>1 DEF s
        <5>2. \A i \in 1 .. n : i \in 1 .. (n + 1)
          OBVIOUS
        <5>3. from(n + 1, s[k])
          BY <5>1, <5>2
        <5>4. QED  BY <3>3, <4>1, <5>3
      <4>2. CASE ~(k <= Len(s))
        <5>1. k - Len(s) \in 1 .. Len(table[n + 1]) /\ (s \o t)[k] = table[n + 1][k - Len(s)]
          BY <3>3, <3>4, <4>2 DEF t
        <5>2. n + 1 \in 1 .. (n + 1)
          OBVIOUS
        <5>3. QED  BY <5>1, <5>2
      <4>3. QED  BY <4>1, <4>2
    <3>9. f[n + 1] = s \o t /\ Len(f[n + 1]) = Len(s) + Len(t)
      BY <3>1, <3>3 DEF s, t
    <3>10. ok(n + 1)
      <4> HIDE DEF from
      <4>1. QED  BY <3>7, <3>8, <3>9
    <3>11. QED  BY <2>1, <3>10
  <2>4. QED  BY <2>2, <2>3
<1>5. 0 .. Batch \subseteq T
  <2>1. 0 \in T /\ Batch \in Nat
    OBVIOUS
  <2> HIDE DEF T
  <2>2. QED  BY <1>4, <2>1, NumbersByInduction
<1>6. ok(Batch) /\ Batch \in 1 .. Batch
  <2>1. Batch \in T /\ Batch # 0
    <3>1. Batch \in 0 .. Batch /\ Batch # 0
      OBVIOUS
    <3> HIDE DEF T
    <3>2. QED  BY <1>5, <3>1
  <2> HIDE DEF ok
  <2>2. QED  BY <2>1
<1>7. \A k \in 1 .. Len(f[Batch]) : f[Batch][k] \in PagesOf(table)
  <2> TAKE k \in 1 .. Len(f[Batch])
  <2>1. PICK i \in 1 .. Batch : \E m \in 1 .. Len(table[i]) : table[i][m] = f[Batch][k]
    BY <1>6
  <2>2. i \in DOMAIN table
    BY DEF Tables, Rows
  <2>3. f[Batch][k] \in Pages
    BY <1>2, <1>6, ElementOfSeq
  <2>4. QED  BY <2>1, <2>2, <2>3 DEF PagesOf
<1>8. QED  BY <1>1, <1>2, <1>6, <1>7

--------------------------------------------------------------------------------
(* Reordering                                                              *)

\* The pages of a table and a stack all come from another table and its stack.
Within(table2, free2, table, free) ==
  /\ \A p \in PagesOf(table2) : p \in PagesOf(table) \/ \E k \in 1 .. Len(free) : p = free[k]
  /\ \A k \in 1 .. Len(free2) :
       free2[k] \in PagesOf(table) \/ \E m \in 1 .. Len(free) : free2[k] = free[m]

\* Nothing was written to other pages than these.
SameElsewhere(store2, store, table, free) ==
  \A p \in Pages \ PagesOf(table) : (\A k \in 1 .. Len(free) : free[k] # p) => store2[p] = store[p]

\* Each entry of a table comes from a row of another, or was handed out to it.
Mixes(table2, table, R, U, new) ==
  /\ table2 \in Tables
  /\ \A i \in Rows : \A k \in 1 .. Len(table2[i]) :
       \/ \E j \in Rows : <<i, j>> \in R /\ k \in 1 .. Len(table[j]) /\ table2[i][k] = table[j][k]
       \/ <<i, k>> \in U /\ table2[i][k] = new[<<i, k>>]

\* No two rows come from the same one.
SourcesOnce(R) == \A i, j, h \in Rows : <<i, h>> \in R /\ <<j, h>> \in R => i = j

\* A page of a table comes from a row taken over, or from the stack.
KnownPages(table2, table, R, free) ==
  \A p \in PagesOf(table2) :
    \/ \E i, j \in Rows : <<i, j>> \in R /\ \E k \in 1 .. Len(table[j]) : table[j][k] = p
    \/ \E k \in 1 .. Len(free) : free[k] = p

\* Pages of a table are physical pages.
LEMMA EntryIsPage ==
  ASSUME NEW table \in Tables, NEW i \in Rows, NEW k \in 1 .. Len(table[i])
  PROVE  table[i][k] \in Pages /\ table[i][k] \in PagesOf(table)
<1>1. table[i] \in Seq(Pages) /\ i \in DOMAIN table
  BY DEF Tables
<1>2. table[i][k] \in Pages
  BY <1>1, ElementOfSeq
<1>3. QED  BY <1>1, <1>2 DEF PagesOf

\* If no two rows come from the same one, no page occurs twice.
LEMMA MixedTable ==
  ASSUME NEW table, NEW free, Clean(table, free),
         NEW U, NEW new, NEW rest, Handout(U, new, rest, free),
         NEW table2, NEW R, Mixes(table2, table, R, U, new),
         SourcesOnce(R)
  PROVE  /\ Clean(table2, rest)
         /\ Within(table2, rest, table, free)
         /\ KnownPages(table2, table, R, free)
<1>1. /\ table \in Tables /\ free \in Seq(Pages) /\ Separate(table) /\ Once(free) /\ Unused(table, free)
      /\ table2 \in Tables /\ rest \in Seq(Pages) /\ Once(rest)
  BY DEF Clean, Mixes, Handout
<1> DEFINE Old(i, k, p) == \E j \in Rows : <<i, j>> \in R /\ k \in 1 .. Len(table[j]) /\ p = table[j][k]
           New(i, k, p) == <<i, k>> \in U /\ p = new[<<i, k>>]
<1>2. \A i \in Rows : \A k \in 1 .. Len(table2[i]) : Old(i, k, table2[i][k]) \/ New(i, k, table2[i][k])
  BY DEF Mixes
<1>3. \A i, k, p : Old(i, k, p) => p \in PagesOf(table)
  BY <1>1, EntryIsPage
<1>4. \A i, k, p : New(i, k, p) => /\ \E m \in 1 .. Len(free) : p = free[m]
                                   /\ \A m \in 1 .. Len(rest) : rest[m] # p
  BY DEF Handout
<1>5. \A m \in 1 .. Len(free) : free[m] \notin PagesOf(table)
  BY <1>1 DEF Unused
<1>6. ASSUME NEW i \in Rows, NEW j \in Rows, NEW k \in 1 .. Len(table2[i]), NEW m \in 1 .. Len(table2[j]),
             table2[i][k] = table2[j][m]
      PROVE  i = j /\ k = m
  <2> DEFINE p == table2[i][k]
  <2>1. p = table2[j][m] /\ (Old(i, k, p) \/ New(i, k, p)) /\ (Old(j, m, p) \/ New(j, m, p))
    BY <1>2, <1>6
  <2> HIDE DEF p
  <2>2. ~(Old(i, k, p) /\ New(j, m, p)) /\ ~(New(i, k, p) /\ Old(j, m, p))
    <3> HIDE DEF Old, New
    <3>1. QED  BY <1>3, <1>4, <1>5
  <2>3. CASE Old(i, k, p) /\ Old(j, m, p)
    <3>1. PICK a \in Rows : <<i, a>> \in R /\ k \in 1 .. Len(table[a]) /\ p = table[a][k]
      BY <2>3
    <3>2. PICK b \in Rows : <<j, b>> \in R /\ m \in 1 .. Len(table[b]) /\ p = table[b][m]
      BY <2>3
    <3>3. table[a][k] = table[b][m]
      BY <3>1, <3>2
    <3>5. a = b /\ k = m
      BY <1>1, <3>1, <3>2, <3>3 DEF Separate
    <3>6. QED  BY <3>1, <3>2, <3>5 DEF SourcesOnce
  <2>4. CASE New(i, k, p) /\ New(j, m, p)
    <3>1. <<i, k>> = <<j, m>>
      BY <2>4 DEF Handout
    <3>2. QED  BY <3>1
  <2>5. QED
    <3> HIDE DEF Old, New
    <3>1. QED  BY <2>1, <2>2, <2>3, <2>4
<1>7. Separate(table2)
  BY <1>6 DEF Separate
<1>8. ASSUME NEW p \in PagesOf(table2)
      PROVE  \E i \in Rows : \E k \in 1 .. Len(table2[i]) : Old(i, k, p) \/ New(i, k, p)
  <2>1. PICK i \in DOMAIN table2 : \E k \in 1 .. Len(table2[i]) : table2[i][k] = p
    BY DEF PagesOf
  <2>2. i \in Rows
    BY <1>1 DEF Tables
  <2>3. PICK k \in 1 .. Len(table2[i]) : table2[i][k] = p
    BY <2>1
  <2>4. Old(i, k, p) \/ New(i, k, p)
    BY <1>2, <2>2, <2>3
  <2> HIDE DEF Old, New
  <2>5. QED  BY <2>2, <2>4
<1>9. \A m \in 1 .. Len(rest) : \E k \in 1 .. Len(free) : rest[m] = free[k]
  BY DEF Handout
<1>10. Unused(table2, rest)
  <2> SUFFICES ASSUME NEW m \in 1 .. Len(rest), rest[m] \in PagesOf(table2)  PROVE  FALSE
    BY DEF Unused
  <2>1. PICK i \in Rows : \E k \in 1 .. Len(table2[i]) : Old(i, k, rest[m]) \/ New(i, k, rest[m])
    BY <1>8
  <2> HIDE DEF Old, New
  <2>2. QED  BY <1>3, <1>4, <1>5, <1>9, <2>1
<1>11. Clean(table2, rest)
  BY <1>1, <1>7, <1>10 DEF Clean
<1>12. Within(table2, rest, table, free)
  <2>1. \A p \in PagesOf(table2) : p \in PagesOf(table) \/ \E k \in 1 .. Len(free) : p = free[k]
    <3> HIDE DEF Old, New
    <3>1. QED  BY <1>3, <1>4, <1>8
  <2>2. QED  BY <1>9, <2>1 DEF Within
<1>13. ASSUME NEW p \in PagesOf(table2)
       PROVE  \/ \E i, j \in Rows : <<i, j>> \in R /\ \E k \in 1 .. Len(table[j]) : table[j][k] = p
              \/ \E k \in 1 .. Len(free) : free[k] = p
  <2>0. PICK i \in Rows : \E k \in 1 .. Len(table2[i]) : Old(i, k, p) \/ New(i, k, p)
    BY <1>8
  <2>1. PICK k \in 1 .. Len(table2[i]) : Old(i, k, p) \/ New(i, k, p)
    BY <2>0
  <2>2. CASE Old(i, k, p)
    BY <2>2
  <2>3. CASE New(i, k, p)
    <3> HIDE DEF New
    <3>1. QED  BY <1>4, <2>3
  <2>4. QED  BY <2>1, <2>2, <2>3
<1>14. QED  BY <1>11, <1>12, <1>13 DEF KnownPages

Hypos == [Rows -> Rows]

\* Two rows cannot both be the first to ask for a source.
LEMMA OneFirstUse ==
  ASSUME NEW hypo \in Hypos, NEW i \in Rows, NEW j \in Rows, hypo[i] = hypo[j],
         FirstUse(hypo, i), FirstUse(hypo, j)
  PROVE  i = j
<1>1. i \in Int /\ j \in Int /\ i >= 1 /\ j >= 1
  BY DEF Rows
<1>2. ~(i < j)
  <2>1. i < j => i \in 1 .. (j - 1)
    BY <1>1
  <2>2. QED  BY <2>1 DEF FirstUse
<1>3. ~(j < i)
  <2>1. j < i => j \in 1 .. (i - 1)
    BY <1>1
  <2>2. QED  BY <2>1 DEF FirstUse
<1>4. QED  BY <1>1, <1>2, <1>3

\* Copies are needed of the pages of the rows that come second.
LEMMA CopiesNeeded ==
  ASSUME NEW table \in Tables, Bounded(table), NEW hypo \in Hypos
  PROVE  /\ Copies(table, hypo) \in SUBSET Positions
         /\ \A c \in Copies(table, hypo) :
              c[1] \in Rows /\ ~FirstUse(hypo, c[1]) /\ hypo[c[1]] \in Rows
              /\ c[2] \in 1 .. Len(table[hypo[c[1]]])
         /\ \A i \in Rows : \A k \in 1 .. Len(table[hypo[i]]) :
              ~FirstUse(hypo, i) => <<i, k>> \in Copies(table, hypo)
<1>1. \A i \in Rows : hypo[i] \in Rows /\ Len(table[hypo[i]]) \in 0 .. MaxLength
  <2> TAKE i \in Rows
  <2>1. hypo[i] \in Rows
    BY DEF Hypos
  <2>2. table[hypo[i]] \in Seq(Pages) /\ Len(table[hypo[i]]) <= MaxLength
    BY <2>1 DEF Tables, Bounded
  <2>3. QED  BY <2>1, <2>2, LenProperties
<1>2. \A i \in Rows : \A k \in 1 .. Len(table[hypo[i]]) : k \in 1 .. MaxLength
  BY <1>1
<1>3. \A c \in Copies(table, hypo) : c[2] \in 1 .. Len(table[hypo[c[1]]])
  <2> TAKE c \in Copies(table, hypo)
  <2>1. c[1] \in Rows /\ c[2] \in 1 .. MaxLength /\ c[2] <= Len(table[hypo[c[1]]])
    BY DEF Copies
  <2>2. QED  BY <1>1, <2>1
<1>4. QED  BY <1>1, <1>2, <1>3 DEF Copies, Positions

\* Pages are handed out for copies of the rows.
Copying(table, hypo, new, rest, free) ==
  DOMAIN new \subseteq Copies(table, hypo) /\ Handout(DOMAIN new, new, rest, free)

\* A page that was handed out gets the contents of its source, others keep theirs.
LEMMA PagesCopied ==
  ASSUME NEW table \in Tables, Bounded(table), NEW hypo \in Hypos, NEW store \in Stores,
         NEW new, NEW rest, NEW free, Copying(table, hypo, new, rest, free)
  PROVE  /\ CopiedPool(store, table, hypo, new) \in Stores
         /\ \A c \in DOMAIN new : CopiedPool(store, table, hypo, new)[new[c]] = store[table[hypo[c[1]]][c[2]]]
         /\ \A p \in Pages : (\A k \in 1 .. Len(free) : free[k] # p) =>
              CopiedPool(store, table, hypo, new)[p] = store[p]
<1> DEFINE U == DOMAIN new
           source(c) == store[table[hypo[c[1]]][c[2]]]
           page(p) == IF p \in Range(new)
                      THEN LET c == CHOOSE c \in DOMAIN new : new[c] = p
                           IN  store[table[hypo[c[1]]][c[2]]]
                      ELSE store[p]
<1>1. /\ new \in [U -> Pages] /\ U \subseteq Copies(table, hypo) /\ Handout(U, new, rest, free)
      /\ \A c, d \in U : new[c] = new[d] => c = d
  BY DEF Handout, Copying
<1>2. CopiedPool(store, table, hypo, new) = [p \in Pages |-> page(p)]
  BY DEF CopiedPool
<1>3. \A c \in U : c[1] \in Rows /\ table[hypo[c[1]]][c[2]] \in Pages
  BY <1>1, CopiesNeeded, EntryIsPage
<1>4. \A c \in U : source(c) \in [Offsets -> Tokens \cup {Blank}]
  BY <1>3 DEF Stores
<1>5. \A c \in U : page(new[c]) = source(c)
  <2> TAKE c \in U
  <2>1. new[c] \in Range(new)
    BY <1>1 DEF Range
  <2>2. (CHOOSE d \in U : new[d] = new[c]) = c
    BY <1>1
  <2>3. QED  BY <1>1, <2>1, <2>2
<1>6. \A p \in Range(new) : \E c \in U : p = new[c]
  BY <1>1 DEF Range
<1>7. \A p \in Pages : page(p) \in [Offsets -> Tokens \cup {Blank}]
  <2> TAKE p \in Pages
  <2>1. CASE p \in Range(new)
    <3>1. PICK c \in U : p = new[c]
      BY <1>6, <2>1
    <3> HIDE DEF page, source
    <3>2. QED  BY <1>4, <1>5, <3>1
  <2>2. CASE p \notin Range(new)
    BY <2>2 DEF Stores
  <2>3. QED  BY <2>1, <2>2
<1>8. \A p \in Pages : (\A k \in 1 .. Len(free) : free[k] # p) => page(p) = store[p]
  <2> SUFFICES ASSUME NEW p \in Pages, \A k \in 1 .. Len(free) : free[k] # p  PROVE  page(p) = store[p]
    OBVIOUS
  <2>1. p \notin Range(new)
    BY <1>1, <1>6 DEF Handout
  <2>2. QED  BY <2>1
<1> HIDE DEF page
<1>9. CopiedPool(store, table, hypo, new) \in Stores
  BY <1>2, <1>7 DEF Stores
<1>10. \A c \in U : new[c] \in Pages
  BY <1>1
<1>11. QED  BY <1>2, <1>5, <1>8, <1>9, <1>10

\* The reordered table has the rows asked for, and no page twice.
LEMMA RowsReordered ==
  ASSUME NEW table, NEW free, Clean(table, free), Bounded(table), NEW hypo \in Hypos,
         NEW new, NEW rest, Handout(Copies(table, hypo), new, rest, free)
  PROVE  LET table2 == Reordered(table, hypo, new)
         IN  /\ \A i \in Rows : Len(table2[i]) = Len(table[hypo[i]])
             /\ Bounded(table2)
             /\ Mixes(table2, table, {r \in Rows \X Rows : FirstUse(hypo, r[1]) /\ r[2] = hypo[r[1]]},
                      Copies(table, hypo), new)
<1> DEFINE table2 == Reordered(table, hypo, new)
           R == {r \in Rows \X Rows : FirstUse(hypo, r[1]) /\ r[2] = hypo[r[1]]}
           U == Copies(table, hypo)
           copy(i) == [k \in 1 .. Len(table[hypo[i]]) |-> new[<<i, k>>]]
<1>1. /\ table \in Tables /\ new \in [U -> Pages]
      /\ \A i \in Rows : table[i] \in Seq(Pages) /\ Len(table[i]) \in 0 .. MaxLength /\ hypo[i] \in Rows
  <2>1. table \in Tables /\ new \in [U -> Pages]
    BY DEF Clean, Handout
  <2>2. \A i \in Rows : table[i] \in Seq(Pages) /\ Len(table[i]) <= MaxLength /\ hypo[i] \in Rows
    BY <2>1 DEF Tables, Bounded, Hypos
  <2>3. QED  BY <2>1, <2>2, LenProperties
<1>2. \A i \in Rows : \A k \in 1 .. Len(table[hypo[i]]) : ~FirstUse(hypo, i) => <<i, k>> \in U
  BY <1>1, CopiesNeeded
<1>3. ASSUME NEW i \in Rows, ~FirstUse(hypo, i)
      PROVE  copy(i) \in Seq(Pages) /\ Len(copy(i)) = Len(table[hypo[i]])
  <2>1. \A k \in 1 .. Len(table[hypo[i]]) : new[<<i, k>>] \in Pages
    BY <1>1, <1>2, <1>3
  <2>2. Len(table[hypo[i]]) \in Nat
    BY <1>1
  <2> DEFINE n == Len(table[hypo[i]])
  <2> HIDE DEF n
  <2>3. copy(i) = [k \in 1 .. n |-> new[<<i, k>>]] /\ n \in Nat /\ \A k \in 1 .. n : new[<<i, k>>] \in Pages
    BY <2>1, <2>2 DEF n
  <2> HIDE DEF copy
  <2>4. copy(i) \in [1 .. n -> Pages]
    BY <2>3
  <2>5. copy(i) \in Seq(Pages)
    BY <2>3, <2>4, SeqDef
  <2>6. Len(copy(i)) \in Nat /\ 1 .. Len(copy(i)) = 1 .. n
    BY <2>4, <2>5, LenProperties
  <2>7. QED  BY <2>3, <2>5, <2>6, SameLength DEF n
<1>4. \A i \in Rows : table2[i] = IF FirstUse(hypo, i) THEN table[hypo[i]] ELSE copy(i)
  BY DEF Reordered
<1>5. DOMAIN table2 = Rows /\ table2 = [i \in Rows |-> table2[i]]
  BY DEF Reordered
<1> HIDE DEF table2
<1>6. \A i \in Rows : table2[i] \in Seq(Pages) /\ Len(table2[i]) = Len(table[hypo[i]])
  <2> HIDE DEF copy
  <2>1. QED  BY <1>1, <1>3, <1>4
<1>7. table2 \in Tables
  BY <1>5, <1>6 DEF Tables
<1>8. Bounded(table2)
  BY <1>1, <1>6 DEF Bounded
<1>9. ASSUME NEW i \in Rows, NEW k \in 1 .. Len(table2[i])
      PROVE  \/ \E j \in Rows : <<i, j>> \in R /\ k \in 1 .. Len(table[j]) /\ table2[i][k] = table[j][k]
             \/ <<i, k>> \in U /\ table2[i][k] = new[<<i, k>>]
  <2>1. k \in 1 .. Len(table[hypo[i]])
    BY <1>6
  <2>2. CASE FirstUse(hypo, i)
    <3>1. <<i, hypo[i]>> \in R /\ hypo[i] \in Rows
      BY <1>1, <2>2
    <3>2. table2[i][k] = table[hypo[i]][k]
      BY <1>4, <2>2
    <3>3. QED  BY <2>1, <3>1, <3>2
  <2>3. CASE ~FirstUse(hypo, i)
    <3>1. table2[i] = copy(i)
      BY <1>4, <2>3
    <3>2. copy(i)[k] = new[<<i, k>>]
      BY <2>1
    <3>3. QED  BY <1>2, <2>1, <2>3, <3>1, <3>2
  <2>4. QED  BY <2>2, <2>3
<1>10. Mixes(table2, table, R, U, new)
  <2> HIDE DEF R, U
  <2>1. QED  BY <1>7, <1>9 DEF Mixes
<1>11. QED  BY <1>6, <1>8, <1>10 DEF table2

\* Where the pages of a row are after the reordering, and what they hold.
LEMMA ReorderedContents ==
  ASSUME NEW table, NEW free, Clean(table, free), Bounded(table), NEW hypo \in Hypos,
         NEW new, NEW rest, Handout(Copies(table, hypo), new, rest, free), NEW store \in Stores,
         NEW i \in Rows, NEW k \in 1 .. Len(table[hypo[i]])
  PROVE  CopiedPool(store, table, hypo, new)[Reordered(table, hypo, new)[i][k]] = store[table[hypo[i]][k]]
<1> DEFINE table2 == Reordered(table, hypo, new)
<1>1. table \in Tables /\ hypo[i] \in Rows /\ Unused(table, free)
  BY DEF Clean, Hypos
<1>5. /\ \A c \in Copies(table, hypo) :
           CopiedPool(store, table, hypo, new)[new[c]] = store[table[hypo[c[1]]][c[2]]]
      /\ \A p \in Pages : (\A m \in 1 .. Len(free) : free[m] # p) =>
           CopiedPool(store, table, hypo, new)[p] = store[p]
  <2>1. DOMAIN new = Copies(table, hypo)
    BY DEF Handout
  <2>2. Copying(table, hypo, new, rest, free)
    BY <2>1 DEF Copying
  <2>3. QED  BY <1>1, <2>1, <2>2, PagesCopied
<1>2. CASE FirstUse(hypo, i)
  <2>1. table2[i][k] = table[hypo[i]][k]
    BY <1>2 DEF Reordered
  <2>2. table[hypo[i]][k] \in Pages /\ \A m \in 1 .. Len(free) : free[m] # table[hypo[i]][k]
    BY <1>1, EntryIsPage DEF Unused
  <2> HIDE DEF table2
  <2>3. CopiedPool(store, table, hypo, new)[table[hypo[i]][k]] = store[table[hypo[i]][k]]
    BY <1>5, <2>2
  <2>4. QED  BY <2>1, <2>3 DEF table2
<1>3. CASE ~FirstUse(hypo, i)
  <2>1. table2[i][k] = new[<<i, k>>]
    BY <1>3 DEF Reordered
  <2>2. <<i, k>> \in Copies(table, hypo)
    BY <1>1, <1>3, CopiesNeeded
  <2> HIDE DEF table2
  <2>3. CopiedPool(store, table, hypo, new)[new[<<i, k>>]] = store[table[hypo[i]][k]]
    BY <1>5, <2>2
  <2>4. QED  BY <2>1, <2>3 DEF table2
<1>4. QED  BY <1>2, <1>3

\* What is reclaimed are the pages, once each, of the rows that were not asked for.
LEMMA ReclaimedPages ==
  ASSUME NEW table \in Tables, Separate(table), NEW hypo \in Hypos
  PROVE  LET back == Reclaimed(table, hypo)
         IN  /\ back \in Seq(Pages) /\ Once(back)
             /\ \A m \in 1 .. Len(back) :
                  \E i \in Rows : i \notin Range(hypo) /\ \E k \in 1 .. Len(table[i]) : table[i][k] = back[m]
<1> DEFINE rows == [i \in Rows |-> IF i \in Range(hypo) THEN << >> ELSE table[i]]
           back == Reclaimed(table, hypo)
<1>1. back = FlattenSeq(rows)
  BY DEF Reclaimed
<1>2. \A i \in Rows : rows[i] \in Seq(Pages) /\ (i \in Range(hypo) => Len(rows[i]) = 0)
                      /\ (i \notin Range(hypo) => rows[i] = table[i])
  BY EmptySeq DEF Tables
<1>3. rows \in Tables
  <2>1. rows = [i \in Rows |-> rows[i]]
    OBVIOUS
  <2> HIDE DEF rows
  <2>2. QED  BY <1>2, <2>1 DEF Tables
<1>4. \A i \in Rows : \A k \in 1 .. Len(rows[i]) : i \notin Range(hypo) /\ rows[i] = table[i]
  <2> SUFFICES ASSUME NEW i \in Rows, NEW k \in 1 .. Len(rows[i]), i \in Range(hypo)  PROVE  FALSE
    BY <1>2
  <2> HIDE DEF rows
  <2>1. Len(rows[i]) = 0
    BY <1>2
  <2>2. QED  BY <2>1
<1> HIDE DEF rows
<1>5. Separate(rows)
  BY <1>4 DEF Separate
<1>6. /\ FlattenSeq(rows) \in Seq(Pages) /\ Once(FlattenSeq(rows))
      /\ \A k \in 1 .. Len(FlattenSeq(rows)) : FlattenSeq(rows)[k] \in PagesOf(rows)
  BY <1>3, <1>5, FlattenPages
<1>7. \A p \in PagesOf(rows) : \E i \in Rows : i \notin Range(hypo) /\ \E k \in 1 .. Len(table[i]) : table[i][k] = p
  <2> TAKE p \in PagesOf(rows)
  <2>1. PICK i \in Rows : \E k \in 1 .. Len(rows[i]) : rows[i][k] = p
    BY <1>3 DEF PagesOf, Tables
  <2>2. QED  BY <1>4, <2>1
<1> HIDE DEF back
<1>8. QED  BY <1>1, <1>6, <1>7 DEF back

\* The rows asked for, with every page once and other slots as they were.
InOrder(table2, free2, store2, table, free, store, hypo) ==
  /\ Clean(table2, free2) /\ Bounded(table2) /\ store2 \in Stores
  /\ Within(table2, free2, table, free) /\ SameElsewhere(store2, store, table, free)
  /\ \A i \in Rows : Len(table2[i]) = Len(table[hypo[i]])
  /\ \A i \in Rows : \A k \in 1 .. Len(table[hypo[i]]) :
       store2[table2[i][k]] = store[table[hypo[i]][k]]

\* Rows are put in order without mixing up pages: the new table and the new stack
\* have each page once, the rows hold what they are to hold, other slots do too.
LEMMA RowsInOrder ==
  ASSUME NEW table, NEW free, Clean(table, free), Bounded(table), NEW hypo \in Hypos,
         NEW store \in Stores, Cardinality(Copies(table, hypo)) <= Len(free),
         NEW copy, copy = Acquired(Copies(table, hypo), free),
         NEW table2, table2 = Reordered(table, hypo, copy),
         NEW free2, free2 = Rest(Copies(table, hypo), free) \o Reclaimed(table, hypo),
         NEW store2, store2 = CopiedPool(store, table, hypo, copy)
  PROVE  InOrder(table2, free2, store2, table, free, store, hypo)
<1> DEFINE U == Copies(table, hypo)
           rest == Rest(U, free)
           back == Reclaimed(table, hypo)
           R == {r \in Rows \X Rows : FirstUse(hypo, r[1]) /\ r[2] = hypo[r[1]]}
<1>1. /\ table \in Tables /\ free \in Seq(Pages) /\ Separate(table) /\ Once(free) /\ Unused(table, free)
  BY DEF Clean
<1>2. U \in SUBSET Positions
  BY <1>1, CopiesNeeded
<1>3. Handout(U, copy, rest, free)
  <2>1. Served(U, free) = U
    BY <1>1, <1>2, ServedFirst
  <2>2. Handout(Served(U, free), Acquired(U, free), Rest(U, free), free)
    BY <1>1, <1>2, AcquiredOnce
  <2>3. QED  BY <2>1, <2>2
<1>4. Copying(table, hypo, copy, rest, free)
  <2>1. DOMAIN copy = U
    BY <1>3 DEF Handout
  <2>2. QED  BY <1>3, <2>1 DEF Copying
<1>5. store2 \in Stores /\ \A p \in Pages : (\A k \in 1 .. Len(free) : free[k] # p) => store2[p] = store[p]
  BY <1>1, <1>4, PagesCopied
<1>6. /\ \A i \in Rows : Len(table2[i]) = Len(table[hypo[i]])
      /\ Bounded(table2) /\ Mixes(table2, table, R, U, copy)
  BY <1>3, RowsReordered
<1>7. \A i \in Rows : \A k \in 1 .. Len(table[hypo[i]]) : store2[table2[i][k]] = store[table[hypo[i]][k]]
  BY <1>3, ReorderedContents
<1>8. SourcesOnce(R)
  <2> SUFFICES ASSUME NEW i \in Rows, NEW j \in Rows, NEW h \in Rows, <<i, h>> \in R, <<j, h>> \in R
               PROVE  i = j
    BY DEF SourcesOnce
  <2>1. FirstUse(hypo, i) /\ FirstUse(hypo, j) /\ hypo[i] = hypo[j]
    OBVIOUS
  <2>2. QED  BY <2>1, OneFirstUse
<1>9. \A i, h \in Rows : <<i, h>> \in R => h \in Range(hypo)
  BY DEF Range, Hypos
<1>10. /\ Clean(table2, rest) /\ Within(table2, rest, table, free)
       /\ KnownPages(table2, table, R, free)
  <2> HIDE DEF U, rest, R
  <2>1. Clean(table, free) /\ Handout(U, copy, rest, free) /\ Mixes(table2, table, R, U, copy) /\ SourcesOnce(R)
    BY <1>3, <1>6, <1>8
  <2>2. QED  BY ONLY <2>1, MixedTable
<1>11. /\ back \in Seq(Pages) /\ Once(back)
       /\ \A m \in 1 .. Len(back) :
            \E i \in Rows : i \notin Range(hypo) /\ \E k \in 1 .. Len(table[i]) : table[i][k] = back[m]
  BY <1>1, ReclaimedPages
<1> HIDE DEF U, rest, R, back
<1>12. \A m \in 1 .. Len(back) : back[m] \in PagesOf(table)
  BY <1>1, <1>11, EntryIsPage
<1>13. \A k \in 1 .. Len(free) : free[k] \notin PagesOf(table)
  BY <1>1 DEF Unused
<1>14. rest \in Seq(Pages) /\ Once(rest) /\ \A k \in 1 .. Len(rest) : \E m \in 1 .. Len(free) : rest[k] = free[m]
  BY <1>3 DEF Handout
<1>15. \A k \in 1 .. Len(rest), m \in 1 .. Len(back) : rest[k] # back[m]
  BY <1>12, <1>13, <1>14
<1>16. /\ free2 \in Seq(Pages) /\ Once(free2)
       /\ \A k \in 1 .. Len(free2) : \/ \E m \in 1 .. Len(rest) : free2[k] = rest[m]
                                     \/ \E m \in 1 .. Len(back) : free2[k] = back[m]
  <2>1. free2 = rest \o back
    BY DEF rest, back, U
  <2>2. QED  BY <1>11, <1>14, <1>15, <2>1, OnceConcat
<1>17. \A m \in 1 .. Len(back) : back[m] \notin PagesOf(table2)
  <2> SUFFICES ASSUME NEW m \in 1 .. Len(back), back[m] \in PagesOf(table2)  PROVE  FALSE
    OBVIOUS
  <2>1. PICK i \in Rows : i \notin Range(hypo) /\ \E k \in 1 .. Len(table[i]) : table[i][k] = back[m]
    BY <1>11
  <2>2. PICK k \in 1 .. Len(table[i]) : table[i][k] = back[m]
    BY <2>1
  <2>3. ~ \E n \in 1 .. Len(free) : free[n] = back[m]
    BY <1>12, <1>13
  <2>4. PICK h \in Rows, j \in Rows : <<h, j>> \in R /\ \E n \in 1 .. Len(table[j]) : table[j][n] = back[m]
    BY <1>10, <2>3 DEF KnownPages
  <2>5. PICK n \in 1 .. Len(table[j]) : table[j][n] = back[m]
    BY <2>4
  <2>6. i = j
    BY <1>1, <2>2, <2>5 DEF Separate
  <2>7. QED  BY <1>9, <2>1, <2>4, <2>6
<1>18. \A m \in 1 .. Len(rest) : rest[m] \notin PagesOf(table2)
  BY <1>10 DEF Clean, Unused
<1>19. Clean(table2, free2)
  BY <1>10, <1>16, <1>17, <1>18 DEF Clean, Unused
<1>20. Within(table2, free2, table, free)
  <2>1. \A k \in 1 .. Len(free2) : free2[k] \in PagesOf(table) \/ \E m \in 1 .. Len(free) : free2[k] = free[m]
    <3> TAKE k \in 1 .. Len(free2)
    <3>1. CASE \E m \in 1 .. Len(rest) : free2[k] = rest[m]
      BY <1>14, <3>1
    <3>2. CASE \E m \in 1 .. Len(back) : free2[k] = back[m]
      BY <1>12, <3>2
    <3>3. QED  BY <1>16, <3>1, <3>2
  <2>2. \A p \in PagesOf(table2) : p \in PagesOf(table) \/ \E k \in 1 .. Len(free) : p = free[k]
    BY <1>10 DEF Within
  <2>3. QED  BY <2>1, <2>2 DEF Within
<1>21. SameElsewhere(store2, store, table, free)
  BY <1>5 DEF SameElsewhere
<1>22. QED  BY <1>5, <1>6, <1>7, <1>19, <1>20, <1>21 DEF InOrder

\* Pages taken before the stack ran out are lost, and nothing else changes.
LEMMA RowsOutOfPages ==
  ASSUME NEW table, NEW free, Clean(table, free), Bounded(table), NEW hypo \in Hypos,
         NEW store \in Stores,
         NEW copy, copy = Acquired(Copies(table, hypo), free),
         NEW free2, free2 = Rest(Copies(table, hypo), free),
         NEW store2, store2 = CopiedPool(store, table, hypo, copy)
  PROVE  /\ Clean(table, free2) /\ store2 \in Stores
         /\ Within(table, free2, table, free) /\ SameElsewhere(store2, store, table, free)
<1> DEFINE S == Copies(table, hypo)
           U == Served(S, free)
<1>1. /\ table \in Tables /\ free \in Seq(Pages) /\ Separate(table) /\ Once(free) /\ Unused(table, free)
  BY DEF Clean
<1>2. S \in SUBSET Positions
  BY <1>1, CopiesNeeded
<1>3. Handout(U, copy, free2, free) /\ U \subseteq S
  BY <1>1, <1>2, AcquiredOnce, ServedFirst
<1>4. Copying(table, hypo, copy, free2, free)
  <2>1. DOMAIN copy = U
    BY <1>3 DEF Handout
  <2>2. QED  BY <1>3, <2>1 DEF Copying
<1>5. store2 \in Stores /\ \A p \in Pages : (\A k \in 1 .. Len(free) : free[k] # p) => store2[p] = store[p]
  BY <1>1, <1>4, PagesCopied
<1>6. free2 \in Seq(Pages) /\ Once(free2) /\ \A k \in 1 .. Len(free2) : \E m \in 1 .. Len(free) : free2[k] = free[m]
  BY <1>3 DEF Handout
<1>7. Clean(table, free2)
  BY <1>1, <1>6 DEF Clean, Unused
<1>8. Within(table, free2, table, free)
  BY <1>6 DEF Within
<1>9. SameElsewhere(store2, store, table, free)
  BY <1>5 DEF SameElsewhere
<1>10. QED  BY <1>5, <1>7, <1>8, <1>9

--------------------------------------------------------------------------------
(* Growing and writing                                                     *)

\* Rows get their missing pages in order, all of them if the stack has enough.
LEMMA RowsExtended ==
  ASSUME NEW table \in Tables, Bounded(table), NEW length \in 0 .. MaxLength,
         NEW free \in Seq(Pages), NEW i \in Rows,
         NEW got, got = Cardinality({c \in Served(Missing(table, length), free) : c[1] = i})
  PROVE  /\ got \in Nat /\ Len(table[i]) \in Nat /\ Len(table[i]) + got <= MaxLength
         /\ \A k \in (Len(table[i]) + 1) .. (Len(table[i]) + got) :
              <<i, k>> \in Served(Missing(table, length), free)
         /\ Cardinality(Missing(table, length)) <= Len(free) =>
              NumLogicalPages(length) <= Len(table[i]) + got
<1> DEFINE M == Missing(table, length)
           U == Served(M, free)
           N == NumLogicalPages(length)
           a == Len(table[i])
           K == {k \in 1 .. MaxLength : <<i, k>> \in U}
<1>1. a \in 0 .. MaxLength /\ N \in 0 .. MaxLength
  <2>1. table[i] \in Seq(Pages) /\ a <= MaxLength
    BY DEF Tables, Bounded
  <2>2. a \in Nat
    BY <2>1, LenProperties
  <2>3. N \in 0 .. length
    BY PagesForLength
  <2> HIDE DEF a, N
  <2>4. QED  BY <2>1, <2>2, <2>3
<1>2. M \in SUBSET Positions
  BY DEF Missing, Positions
<1>3. /\ U \subseteq M
      /\ \A p \in U, q \in M : Before(q, p) => q \in U
      /\ Cardinality(M) <= Len(free) => U = M
  BY <1>2, ServedFirst
<1>4. \A k \in 1 .. MaxLength : <<i, k>> \in M <=> a < k /\ k <= N
  BY DEF Missing
<1>5. K \in SUBSET ((a + 1) .. N) /\ \A k \in K : \A j \in (a + 1) .. k : j \in K
  <2>1. ASSUME NEW k \in K  PROVE  k \in (a + 1) .. N
    <3>1. k \in 1 .. MaxLength /\ <<i, k>> \in M
      BY <1>3
    <3> HIDE DEF a, N, M
    <3>2. QED  BY <1>1, <1>4, <3>1
  <2>2. ASSUME NEW k \in K, NEW j \in (a + 1) .. k  PROVE  j \in K
    <3>1. k \in (a + 1) .. N /\ <<i, k>> \in U
      BY <2>1
    <3>2. CASE j = k
      BY <3>1, <3>2
    <3>3. CASE j # k
      <4> HIDE DEF a, N, M, U
      <4>1. j \in 1 .. MaxLength /\ a < j /\ j <= N /\ j < k
        BY <1>1, <3>1, <3>3
      <4>2. <<i, j>> \in M
        BY <1>4, <4>1
      <4>3. Before(<<i, j>>, <<i, k>>)
        BY <4>1 DEF Before
      <4>4. <<i, j>> \in U
        BY <1>3, <3>1, <4>2, <4>3
      <4>5. QED  BY <4>1, <4>4
    <3>4. QED  BY <3>2, <3>3
  <2> HIDE DEF K
  <2>3. QED  BY <2>1, <2>2
<1>6. {c \in U : c[1] = i} = {i} \X K
  <2>1. \A c \in U : c \in Rows \X (1 .. MaxLength)
    BY <1>2, <1>3 DEF Positions
  <2>2. ASSUME NEW c \in U, c[1] = i  PROVE  c \in {i} \X K
    <3>1. c = <<c[1], c[2]>> /\ c[2] \in 1 .. MaxLength
      BY <2>1
    <3>2. c[2] \in K
      BY <2>2, <3>1
    <3> HIDE DEF K
    <3>3. QED  BY <2>2, <3>1, <3>2
  <2>3. ASSUME NEW c \in {i} \X K  PROVE  c \in U /\ c[1] = i
    <3>1. c = <<i, c[2]>> /\ c[2] \in K
      OBVIOUS
    <3>2. <<i, c[2]>> \in U
      BY <3>1
    <3> HIDE DEF K, U
    <3>3. QED  BY <3>1, <3>2
  <2> HIDE DEF K, U
  <2>4. QED  BY <2>2, <2>3
<1>7. Cardinality(K) \in Nat /\ K = (a + 1) .. (a + Cardinality(K))
  <2> HIDE DEF K, a, N
  <2>1. a \in Nat /\ N \in Nat
    BY <1>1
  <2>2. QED  BY <1>5, <2>1, NoGaps
<1>8. got = Cardinality(K)
  <2> HIDE DEF K
  <2>1. IsFiniteSet(K)
    <3>1. a + 1 \in Int /\ a + Cardinality(K) \in Int
      BY <1>1, <1>7
    <3> HIDE DEF a
    <3>2. QED  BY <1>7, <3>1, FS_Interval
  <2>2. IsFiniteSet({i}) /\ Cardinality({i}) = 1
    BY FS_Singleton
  <2>3. Cardinality({i} \X K) = 1 * Cardinality(K)
    BY <2>1, <2>2, FS_Product
  <2>4. got = Cardinality({i} \X K)
    BY <1>6
  <2>5. QED  BY <1>7, <2>3, <2>4
<1>9. \A k \in (a + 1) .. (a + got) : <<i, k>> \in U
  <2>1. \A k \in K : <<i, k>> \in U
    OBVIOUS
  <2> HIDE DEF K
  <2>2. QED  BY <1>7, <1>8, <2>1
<1>10. a + got <= MaxLength
  <2>1. CASE got = 0
    BY <1>1, <2>1
  <2>2. CASE got # 0
    <3>1. a + got \in (a + 1) .. (a + got)
      BY <1>1, <1>7, <1>8, <2>2
    <3>2. a + got \in K
      BY <1>7, <1>8, <3>1
    <3>3. QED  BY <3>2
  <2>3. QED  BY <2>1, <2>2
<1>11. ASSUME Cardinality(M) <= Len(free)  PROVE  N <= a + got
  <2>1. CASE N <= a
    BY <1>1, <1>7, <1>8, <2>1
  <2>2. CASE ~(N <= a)
    <3>1. N \in 1 .. MaxLength /\ a < N /\ N <= N
      BY <1>1, <2>2
    <3>2. <<i, N>> \in U
      BY <1>3, <1>4, <1>11, <3>1
    <3>3. N \in K
      BY <3>1, <3>2
    <3> HIDE DEF K, N, a
    <3>4. QED  BY <1>1, <1>7, <1>8, <3>3
  <2>3. QED  BY <2>1, <2>2
<1>12. QED  BY <1>1, <1>7, <1>8, <1>9, <1>10, <1>11

\* A table that has got pages from the stack.
Extends(grown, free2, table, free) ==
  /\ Clean(grown, free2) /\ Bounded(grown) /\ Within(grown, free2, table, free)
  /\ \A i \in Rows : Len(table[i]) \in Nat /\ Len(table[i]) <= Len(grown[i])
  /\ \A i \in Rows : \A k \in 1 .. Len(table[i]) : grown[i][k] = table[i][k]

EnoughFree(table, length) == \A i \in Rows : NumLogicalPages(length) <= Len(table[i])

\* Growing a table keeps what it has, gives out no page twice, and makes room for
\* the new length unless the stack is exhausted.
LEMMA RowsGrown ==
  ASSUME NEW table, NEW free, Clean(table, free), Bounded(table), NEW length \in 0 .. MaxLength,
         NEW new, new = Acquired(Missing(table, length), free),
         NEW free2, free2 = Rest(Missing(table, length), free),
         NEW grown, grown = Grown(table, new)
  PROVE  /\ Extends(grown, free2, table, free)
         /\ Cardinality(Missing(table, length)) <= Len(free) => EnoughFree(grown, length)
<1> DEFINE M == Missing(table, length)
           U == Served(M, free)
           got(i) == Cardinality({c \in U : c[1] = i})
           size(i) == Len(table[i]) + got(i)
           row(i) == [k \in 1 .. size(i) |-> IF k <= Len(table[i]) THEN table[i][k] ELSE new[<<i, k>>]]
           R == {<<i, i>> : i \in Rows}
<1>1. table \in Tables /\ free \in Seq(Pages) /\ Once(free)
  BY DEF Clean
<1>2. Handout(U, new, free2, free)
  <2>1. M \in SUBSET Positions
    BY DEF Missing, Positions
  <2>2. QED  BY <1>1, <2>1, AcquiredOnce
<1>3. \A i \in Rows : /\ got(i) \in Nat /\ Len(table[i]) \in Nat /\ size(i) <= MaxLength
                      /\ \A k \in (Len(table[i]) + 1) .. size(i) : <<i, k>> \in U
                      /\ Cardinality(M) <= Len(free) => NumLogicalPages(length) <= size(i)
  BY <1>1, RowsExtended
<1>4. DOMAIN new = U
  BY <1>2 DEF Handout
<1>5. grown = [i \in Rows |-> row(i)]
  BY <1>4 DEF Grown
<1> HIDE DEF M, U, got
<1>6. ASSUME NEW i \in Rows
      PROVE  row(i) \in Seq(Pages) /\ Len(row(i)) = size(i)
  <2> DEFINE a == Len(table[i])
             s == size(i)
             entry(k) == IF k <= a THEN table[i][k] ELSE new[<<i, k>>]
  <2>1. a \in Nat /\ s \in Nat /\ \A k \in (a + 1) .. s : <<i, k>> \in U
    BY <1>3
  <2>2. \A k \in 1 .. s : entry(k) \in Pages
    <3> TAKE k \in 1 .. s
    <3>1. CASE k <= a
      <4>1. k \in 1 .. Len(table[i])
        BY <2>1, <3>1
      <4>2. QED  BY <1>1, <3>1, <4>1, EntryIsPage
    <3>2. CASE ~(k <= a)
      <4> HIDE DEF s
      <4>1. k \in (a + 1) .. s
        BY <2>1, <3>2
      <4>2. new[<<i, k>>] \in Pages
        BY <1>2, <2>1, <4>1 DEF Handout
      <4>3. QED  BY <3>2, <4>2
    <3>3. QED  BY <3>1, <3>2
  <2>3. row(i) = [k \in 1 .. s |-> entry(k)]
    OBVIOUS
  <2> HIDE DEF row, entry, s
  <2>4. row(i) \in [1 .. s -> Pages]
    BY <2>2, <2>3
  <2>5. row(i) \in Seq(Pages)
    BY <2>1, <2>4, SeqDef
  <2>6. Len(row(i)) \in Nat /\ 1 .. Len(row(i)) = 1 .. s
    BY <2>4, <2>5, LenProperties
  <2>7. Len(row(i)) = s
    BY <2>1, <2>6, SameLength
  <2>8. QED  BY <2>5, <2>7 DEF s
<1>7. /\ grown \in Tables
      /\ \A i \in Rows : grown[i] = row(i) /\ Len(grown[i]) = size(i)
  <2>1. \A i \in Rows : grown[i] = row(i)
    BY <1>5
  <2> HIDE DEF row, size
  <2>2. QED  BY <1>5, <1>6, <2>1 DEF Tables
<1>8. Bounded(grown)
  BY <1>3, <1>7 DEF Bounded
<1>9. \A i \in Rows : Len(table[i]) <= size(i) /\ size(i) \in Nat /\ Len(table[i]) <= Len(grown[i])
  <2> TAKE i \in Rows
  <2>1. Len(table[i]) \in Nat /\ got(i) \in Nat
    BY <1>3
  <2>2. Len(table[i]) <= size(i) /\ size(i) \in Nat
    BY <2>1
  <2>3. QED  BY <1>7, <2>2
<1>10. ASSUME NEW i \in Rows, NEW k \in 1 .. Len(grown[i])
       PROVE  /\ k <= Len(table[i]) => k \in 1 .. Len(table[i]) /\ grown[i][k] = table[i][k]
              /\ ~(k <= Len(table[i])) => <<i, k>> \in U /\ grown[i][k] = new[<<i, k>>]
  <2>1. k \in 1 .. size(i)
    BY <1>7
  <2>2. grown[i][k] = IF k <= Len(table[i]) THEN table[i][k] ELSE new[<<i, k>>]
    <3>1. grown[i] = row(i)
      BY <1>7
    <3>2. row(i)[k] = IF k <= Len(table[i]) THEN table[i][k] ELSE new[<<i, k>>]
      BY <2>1
    <3>3. QED  BY <3>1, <3>2
  <2> HIDE DEF size
  <2>3. k <= Len(table[i]) => k \in 1 .. Len(table[i])
    BY <1>3
  <2>4. ~(k <= Len(table[i])) => <<i, k>> \in U
    <3>1. ~(k <= Len(table[i])) => k \in (Len(table[i]) + 1) .. size(i)
      BY <1>3, <2>1
    <3>2. QED  BY <1>3, <3>1
  <2>5. QED  BY <2>2, <2>3, <2>4
<1>11. \A i \in Rows : \A k \in 1 .. Len(table[i]) : grown[i][k] = table[i][k]
  <2> TAKE i \in Rows
  <2> TAKE k \in 1 .. Len(table[i])
  <2>1. k \in 1 .. Len(grown[i]) /\ k <= Len(table[i])
    <3> HIDE DEF size, row
    <3>1. Len(table[i]) \in Nat /\ size(i) \in Nat /\ Len(grown[i]) = size(i) /\ Len(table[i]) <= size(i)
      BY <1>3, <1>7, <1>9
    <3>2. QED  BY <3>1
  <2>2. QED  BY <1>10, <2>1
<1>12. Mixes(grown, table, R, U, new)
  <2> SUFFICES ASSUME NEW i \in Rows, NEW k \in 1 .. Len(grown[i])
               PROVE  \/ \E j \in Rows : <<i, j>> \in R /\ k \in 1 .. Len(table[j]) /\ grown[i][k] = table[j][k]
                      \/ <<i, k>> \in U /\ grown[i][k] = new[<<i, k>>]
    BY <1>7 DEF Mixes
  <2>1. <<i, i>> \in R
    OBVIOUS
  <2> HIDE DEF R
  <2>2. QED  BY <1>10, <2>1
<1>13. SourcesOnce(R)
  BY DEF SourcesOnce
<1>14. Clean(grown, free2) /\ Within(grown, free2, table, free)
  <2> HIDE DEF R
  <2>1. QED  BY <1>2, <1>12, <1>13, MixedTable
<1>15. Cardinality(M) <= Len(free) => \A i \in Rows : NumLogicalPages(length) <= Len(grown[i])
  BY <1>3, <1>7
<1> HIDE DEF row, size, R
<1>16. Extends(grown, free2, table, free)
  BY <1>3, <1>8, <1>9, <1>11, <1>14 DEF Extends
<1>17. QED  BY <1>15, <1>16 DEF M, EnoughFree

\* The new tokens stand after the prefix, in pages of the table.
Written(store2, store, table, prefix, n, new) ==
  /\ store2 \in Stores
  /\ \A p \in Pages \ PagesOf(table) : store2[p] = store[p]
  /\ \A i \in Rows, t \in 1 .. prefix + n :
       store2[table[i][LogicalPage(t)]][Offset(t)] =
         IF t <= prefix THEN store[table[i][LogicalPage(t)]][Offset(t)] ELSE new[i][t - prefix]

\* New tokens are where gather looks for them, older tokens and other pages are
\* as they were.
LEMMA TokensWritten ==
  ASSUME NEW table \in Tables, Separate(table), NEW prefix \in Nat, NEW n \in Nat \ {0},
         EnoughFree(table, prefix + n),
         NEW new \in [Rows -> [1 .. n -> Tokens]], NEW store \in Stores,
         NEW store2, store2 = Scattered(store, table, prefix, new)
  PROVE  Written(store2, store, table, prefix, n, new)
<1> DEFINE at(i, t) == table[i][LogicalPage(t)]
           W == Rows \X (1 .. n)
           hit(w, p, o) == at(w[1], prefix + w[2]) = p /\ Offset(prefix + w[2]) = o
           cell(p, o) == IF \E i \in Rows, t \in 1 .. n : at(i, prefix + t) = p /\ Offset(prefix + t) = o
                         THEN LET w == CHOOSE w \in W : hit(w, p, o) IN new[w[1]][w[2]]
                         ELSE store[p][o]
<1>1. Len(new[1]) = n
  <2>1. 1 \in Rows /\ new[1] \in [1 .. n -> Tokens]
    BY DEF Rows
  <2>2. new[1] \in Seq(Tokens)
    BY <2>1, SeqDef
  <2>3. Len(new[1]) \in Nat /\ 1 .. Len(new[1]) = 1 .. n
    BY <2>1, <2>2, LenProperties
  <2>4. QED  BY <2>3, SameLength
<1>2. store2 = [p \in Pages |-> [o \in Offsets |-> cell(p, o)]]
  <2> DEFINE whole(m) ==
        [p \in Pages |-> [o \in Offsets |->
           IF \E i \in Rows, t \in 1 .. m : at(i, prefix + t) = p /\ Offset(prefix + t) = o
           THEN LET w == CHOOSE w \in Rows \X (1 .. m) : hit(w, p, o) IN new[w[1]][w[2]]
           ELSE store[p][o]]]
  <2>1. store2 = whole(Len(new[1]))
    BY DEF Scattered
  <2>2. whole(n) = [p \in Pages |-> [o \in Offsets |-> cell(p, o)]]
    OBVIOUS
  <2> HIDE DEF whole
  <2>3. QED  BY <1>1, <2>1, <2>2
<1>3. ASSUME NEW i \in Rows, NEW t \in 1 .. prefix + n
      PROVE  /\ t \in Nat \ {0} /\ LogicalPage(t) \in 1 .. Len(table[i])
             /\ at(i, t) \in Pages /\ at(i, t) \in PagesOf(table) /\ Offset(t) \in Offsets
  <2>1. prefix + n \in Nat /\ t \in Nat \ {0}
    OBVIOUS
  <2>2. LogicalPage(t) \in 1 .. NumLogicalPages(prefix + n) /\ NumLogicalPages(prefix + n) \in Nat
    <3> DEFINE m == prefix + n
    <3>1. m \in Nat /\ t \in 1 .. m
      BY <2>1
    <3> HIDE DEF m
    <3>2. LogicalPage(t) \in 1 .. NumLogicalPages(m) /\ NumLogicalPages(m) \in 0 .. m
      BY <3>1, PagesForLength
    <3>3. NumLogicalPages(m) \in Nat
      BY <3>1, <3>2
    <3>4. QED  BY <3>2, <3>3 DEF m
  <2>3. Len(table[i]) \in Nat
    BY LenProperties DEF Tables
  <2>4. LogicalPage(t) \in 1 .. Len(table[i])
    <3> DEFINE l == LogicalPage(t)
               m == NumLogicalPages(prefix + n)
    <3>1. l \in 1 .. m /\ m \in Nat /\ m <= Len(table[i])
      BY <2>2 DEF EnoughFree
    <3> HIDE DEF l, m
    <3>2. l \in 1 .. Len(table[i])
      BY <2>3, <3>1
    <3>3. QED  BY <3>2 DEF l
  <2>5. QED  BY <2>1, <2>4, EntryIsPage, PlaceOfToken
<1>4. ASSUME NEW i \in Rows, NEW t \in 1 .. prefix + n, NEW j \in Rows, NEW u \in 1 .. prefix + n,
             at(i, t) = at(j, u), Offset(t) = Offset(u)
      PROVE  i = j /\ t = u
  <2>1. LogicalPage(t) \in 1 .. Len(table[i]) /\ LogicalPage(u) \in 1 .. Len(table[j])
    BY <1>3
  <2>2. i = j /\ LogicalPage(t) = LogicalPage(u)
    BY <1>4, <2>1 DEF Separate
  <2>3. t \in Nat \ {0} /\ u \in Nat \ {0}
    BY <1>3
  <2>4. QED  BY <1>4, <2>2, <2>3, OnePlacePerToken
<1>5. \A u \in 1 .. n : prefix + u \in 1 .. prefix + n
  OBVIOUS
<1> HIDE DEF at
<1>6. ASSUME NEW i \in Rows, NEW t \in 1 .. prefix + n
      PROVE  cell(at(i, t), Offset(t)) = IF t <= prefix THEN store[at(i, t)][Offset(t)] ELSE new[i][t - prefix]
  <2> DEFINE p == at(i, t)
             o == Offset(t)
  <2>1. \A j \in Rows, u \in 1 .. n : at(j, prefix + u) = p /\ Offset(prefix + u) = o => j = i /\ prefix + u = t
    BY <1>4, <1>5
  <2>2. CASE t <= prefix
    <3>1. ~ \E j \in Rows, u \in 1 .. n : at(j, prefix + u) = p /\ Offset(prefix + u) = o
      <4>1. \A u \in 1 .. n : prefix + u # t
        BY <2>2
      <4>2. QED  BY <2>1, <4>1
    <3>2. QED  BY <2>2, <3>1
  <2>3. CASE ~(t <= prefix)
    <3>1. t - prefix \in 1 .. n /\ prefix + (t - prefix) = t
      BY <2>3
    <3>2. \E j \in Rows, u \in 1 .. n : at(j, prefix + u) = p /\ Offset(prefix + u) = o
      BY <3>1
    <3>3. \A w \in W : hit(w, p, o) => w = <<i, t - prefix>>
      <4> SUFFICES ASSUME NEW w \in W, hit(w, p, o)  PROVE  w = <<i, t - prefix>>
        OBVIOUS
      <4>1. w[1] \in Rows /\ w[2] \in 1 .. n /\ w = <<w[1], w[2]>>
        OBVIOUS
      <4>2. w[1] = i /\ prefix + w[2] = t
        BY <2>1, <4>1
      <4>3. w[2] = t - prefix
        BY <4>1, <4>2
      <4> HIDE DEF W, hit
      <4>4. QED  BY <4>1, <4>2, <4>3
    <3>4. <<i, t - prefix>> \in W /\ hit(<<i, t - prefix>>, p, o)
      BY <3>1
    <3>5. (CHOOSE w \in W : hit(w, p, o)) = <<i, t - prefix>>
      <4> HIDE DEF W, hit, p, o
      <4>1. QED  BY <3>3, <3>4
    <3>6. cell(p, o) = new[i][t - prefix]
      <4> DEFINE v == CHOOSE w \in W : hit(w, p, o)
      <4>1. cell(p, o) = new[v[1]][v[2]]
        BY <3>2
      <4>2. v = <<i, t - prefix>>
        BY <3>5
      <4> HIDE DEF v, cell, p, o
      <4>3. QED  BY <4>1, <4>2
    <3> HIDE DEF cell
    <3>7. QED  BY <2>3, <3>6
  <2>4. QED  BY <2>2, <2>3
<1>7. ASSUME NEW p \in Pages, NEW o \in Offsets
      PROVE  /\ cell(p, o) \in Tokens \cup {Blank}
             /\ p \notin PagesOf(table) => cell(p, o) = store[p][o]
  <2>1. CASE \E i \in Rows, u \in 1 .. n : at(i, prefix + u) = p /\ Offset(prefix + u) = o
    <3>1. PICK i \in Rows, u \in 1 .. n : at(i, prefix + u) = p /\ Offset(prefix + u) = o
      BY <2>1
    <3> DEFINE t == prefix + u
    <3>2. t \in 1 .. prefix + n /\ ~(t <= prefix) /\ t - prefix = u
      OBVIOUS
    <3> HIDE DEF cell, t
    <3>3. p \in PagesOf(table)
      BY <1>3, <3>1, <3>2 DEF t
    <3>4. cell(p, o) = new[i][u]
      BY <1>6, <3>1, <3>2 DEF t
    <3>5. QED  BY <3>3, <3>4
  <2>2. CASE ~ \E i \in Rows, u \in 1 .. n : at(i, prefix + u) = p /\ Offset(prefix + u) = o
    BY <2>2 DEF Stores
  <2>3. QED  BY <2>1, <2>2
<1> HIDE DEF cell
<1>8. store2 \in Stores
  BY <1>2, <1>7 DEF Stores
<1>9. \A p \in Pages \ PagesOf(table) : store2[p] = store[p]
  <2> TAKE p \in Pages \ PagesOf(table)
  <2>1. store2[p] = [o \in Offsets |-> cell(p, o)]
    BY <1>2
  <2>2. store[p] \in [Offsets -> Tokens \cup {Blank}]
    BY DEF Stores
  <2>3. store[p] = [o \in Offsets |-> store[p][o]]
    BY <2>2
  <2>4. QED  BY <1>7, <2>1, <2>3
<1>10. \A i \in Rows, t \in 1 .. prefix + n : store2[at(i, t)][Offset(t)] = cell(at(i, t), Offset(t))
  BY <1>2, <1>3 DEF at
<1>11. \A i \in Rows, t \in 1 .. prefix + n :
         store2[table[i][LogicalPage(t)]][Offset(t)] =
           IF t <= prefix THEN store[table[i][LogicalPage(t)]][Offset(t)] ELSE new[i][t - prefix]
  BY <1>6, <1>10 DEF at
<1>12. QED  BY <1>8, <1>9, <1>11 DEF Written

--------------------------------------------------------------------------------
(* A whole step                                                            *)

\* What the rows of a slot hold after a step: the rows asked for up to the prefix,
\* then the new tokens.
Stepped(table2, store2, table, store, hypo, prefix, n, new) ==
  \A i \in Rows : \A t \in 1 .. (prefix + n) :
    store2[table2[i][LogicalPage(t)]][Offset(t)] =
      IF t <= prefix THEN store[table[hypo[i]][LogicalPage(t)]][Offset(t)] ELSE new[i][t - prefix]

\* Gains and losses of pages add up.
LEMMA WithinTransitive ==
  ASSUME NEW t1, NEW t2, NEW t3, NEW f1, NEW f2, NEW f3,
         Within(t2, f2, t1, f1), Within(t3, f3, t2, f2)
  PROVE  Within(t3, f3, t1, f1)
<1>1. \A p \in PagesOf(t2) : p \in PagesOf(t1) \/ \E k \in 1 .. Len(f1) : p = f1[k]
  BY DEF Within
<1>2. \A k \in 1 .. Len(f2) : f2[k] \in PagesOf(t1) \/ \E m \in 1 .. Len(f1) : f2[k] = f1[m]
  BY DEF Within
<1>3. \A p \in PagesOf(t3) : p \in PagesOf(t1) \/ \E k \in 1 .. Len(f1) : p = f1[k]
  <2> TAKE p \in PagesOf(t3)
  <2>1. p \in PagesOf(t2) \/ \E k \in 1 .. Len(f2) : p = f2[k]
    BY DEF Within
  <2>2. CASE p \in PagesOf(t2)
    BY <1>1, <2>2
  <2>3. CASE \E k \in 1 .. Len(f2) : p = f2[k]
    BY <1>2, <2>3
  <2>4. QED  BY <2>1, <2>2, <2>3
<1>4. \A k \in 1 .. Len(f3) : f3[k] \in PagesOf(t1) \/ \E m \in 1 .. Len(f1) : f3[k] = f1[m]
  <2> TAKE k \in 1 .. Len(f3)
  <2>1. f3[k] \in PagesOf(t2) \/ \E m \in 1 .. Len(f2) : f3[k] = f2[m]
    BY DEF Within
  <2>2. CASE f3[k] \in PagesOf(t2)
    BY <1>1, <2>2
  <2>3. CASE \E m \in 1 .. Len(f2) : f3[k] = f2[m]
    BY <1>2, <2>3
  <2>4. QED  BY <2>1, <2>2, <2>3
<1>5. QED  BY <1>3, <1>4 DEF Within

\* Reordering, growing and writing together.
LEMMA StepKeepsOrder ==
  ASSUME NEW table, NEW free, Clean(table, free), Bounded(table), NEW hypo \in Hypos,
         NEW store \in Stores, Cardinality(Copies(table, hypo)) <= Len(free),
         NEW copy, copy = Acquired(Copies(table, hypo), free),
         NEW table2, table2 = Reordered(table, hypo, copy),
         NEW free2, free2 = Rest(Copies(table, hypo), free) \o Reclaimed(table, hypo),
         NEW store2, store2 = CopiedPool(store, table, hypo, copy),
         NEW length \in 0 .. MaxLength, Holds(table, store, length), NEW prefix \in 0 .. length,
         NEW n \in Nat \ {0}, prefix + n <= MaxLength, NEW new \in [Rows -> [1 .. n -> Tokens]],
         NEW free3, free3 = Rest(Missing(table2, prefix + n), free2),
         NEW grown, grown = Grown(table2, Acquired(Missing(table2, prefix + n), free2)),
         NEW store3, store3 = Scattered(store2, grown, prefix, new)
  PROVE  /\ Clean(grown, free3) /\ Bounded(grown) /\ Within(grown, free3, table, free)
         /\ store2 \in Stores /\ SameElsewhere(store2, store, table, free)
         /\ Cardinality(Missing(table2, prefix + n)) <= Len(free2) =>
              /\ store3 \in Stores /\ SameElsewhere(store3, store, table, free)
              /\ Holds(grown, store3, prefix + n)
              /\ Stepped(grown, store3, table, store, hypo, prefix, n, new)
<1> DEFINE enough == Cardinality(Missing(table2, prefix + n)) <= Len(free2)
<1>1. /\ Clean(table2, free2) /\ Bounded(table2) /\ store2 \in Stores
      /\ Within(table2, free2, table, free) /\ SameElsewhere(store2, store, table, free)
      /\ \A i \in Rows : Len(table2[i]) = Len(table[hypo[i]])
      /\ \A i \in Rows : \A k \in 1 .. Len(table[hypo[i]]) : store2[table2[i][k]] = store[table[hypo[i]][k]]
  <2>1. InOrder(table2, free2, store2, table, free, store, hypo)
    BY RowsInOrder
  <2>2. QED  BY <2>1 DEF InOrder
<1>2. prefix + n \in 0 .. MaxLength /\ prefix \in Nat /\ length \in Nat
  OBVIOUS
<1>3. /\ Clean(grown, free3) /\ Bounded(grown) /\ Within(grown, free3, table2, free2)
      /\ \A i \in Rows : Len(table2[i]) \in Nat /\ Len(table2[i]) <= Len(grown[i])
      /\ \A i \in Rows : \A k \in 1 .. Len(table2[i]) : grown[i][k] = table2[i][k]
      /\ enough => EnoughFree(grown, prefix + n)
  <2> DEFINE m == prefix + n
             M == Missing(table2, m)
             got == Acquired(M, free2)
  <2>1. m \in 0 .. MaxLength /\ free3 = Rest(M, free2) /\ grown = Grown(table2, got)
    BY <1>2
  <2> HIDE DEF m
  <2>2. /\ Extends(grown, free3, table2, free2)
        /\ Cardinality(M) <= Len(free2) => EnoughFree(grown, m)
    BY <1>1, <2>1, RowsGrown, ZenonT(40)
  <2>3. QED  BY <2>2 DEF m, Extends
<1>4. Within(grown, free3, table, free)
  BY <1>1, <1>3, WithinTransitive
<1>5. ASSUME enough
      PROVE  /\ store3 \in Stores
             /\ \A p \in Pages \ PagesOf(grown) : store3[p] = store2[p]
             /\ \A i \in Rows, t \in 1 .. prefix + n :
                  store3[grown[i][LogicalPage(t)]][Offset(t)] =
                    IF t <= prefix THEN store2[grown[i][LogicalPage(t)]][Offset(t)] ELSE new[i][t - prefix]
  <2>1. grown \in Tables /\ Separate(grown) /\ EnoughFree(grown, prefix + n)
    BY <1>3, <1>5 DEF Clean
  <2>2. Written(store3, store2, grown, prefix, n, new)
    BY <1>1, <1>2, <2>1, TokensWritten
  <2>3. QED  BY <2>2 DEF Written
<1>6. ASSUME NEW i \in Rows, NEW t \in 1 .. prefix
      PROVE  /\ store2[grown[i][LogicalPage(t)]] = store[table[hypo[i]][LogicalPage(t)]]
             /\ store[table[hypo[i]][LogicalPage(t)]][Offset(t)] \in Tokens
  <2> DEFINE l == LogicalPage(t)
             m == NumLogicalPages(length)
  <2>1. hypo[i] \in Rows /\ t \in 1 .. length
    BY <1>2 DEF Hypos
  <2>2. l \in 1 .. m /\ m \in Nat
    <3>1. l \in 1 .. m /\ m \in 0 .. length
      BY <1>2, <2>1, PagesForLength
    <3> HIDE DEF l, m
    <3>2. QED  BY <1>2, <3>1
  <2>3. m <= Len(table[hypo[i]]) /\ store[table[hypo[i]][LogicalPage(t)]][Offset(t)] \in Tokens
    BY <2>1 DEF Holds
  <2>4. l \in 1 .. Len(table[hypo[i]]) /\ l \in 1 .. Len(table2[i])
    <3>1. Len(table2[i]) = Len(table[hypo[i]]) /\ Len(table2[i]) \in Nat
      BY <1>1, <1>3
    <3> HIDE DEF l, m
    <3>2. QED  BY <2>2, <2>3, <3>1
  <2>5. grown[i][l] = table2[i][l] /\ store2[table2[i][l]] = store[table[hypo[i]][l]]
    BY <1>1, <1>3, <2>4
  <2>6. QED  BY <2>3, <2>5
<1>7. ASSUME enough
      PROVE  Stepped(grown, store3, table, store, hypo, prefix, n, new)
  <2> SUFFICES ASSUME NEW i \in Rows, NEW t \in 1 .. (prefix + n)
               PROVE  store3[grown[i][LogicalPage(t)]][Offset(t)] =
                        IF t <= prefix THEN store[table[hypo[i]][LogicalPage(t)]][Offset(t)] ELSE new[i][t - prefix]
    BY DEF Stepped
  <2>1. t <= prefix => t \in 1 .. prefix
    BY <1>2
  <2>2. store3[grown[i][LogicalPage(t)]][Offset(t)] =
          IF t <= prefix THEN store2[grown[i][LogicalPage(t)]][Offset(t)] ELSE new[i][t - prefix]
    BY <1>5, <1>7
  <2>3. QED  BY <1>6, <2>1, <2>2
<1>8. ASSUME enough
      PROVE  Holds(grown, store3, prefix + n)
  <2>1. ASSUME NEW i \in Rows, NEW t \in 1 .. (prefix + n)
        PROVE  store3[grown[i][LogicalPage(t)]][Offset(t)] \in Tokens
    <3>1. CASE t <= prefix
      <4>1. t \in 1 .. prefix
        BY <1>2, <3>1
      <4>2. QED  BY <1>6, <1>7, <1>8, <3>1, <4>1 DEF Stepped
    <3>2. CASE ~(t <= prefix)
      <4>1. t - prefix \in 1 .. n
        BY <1>2, <3>2
      <4>2. new[i][t - prefix] \in Tokens
        BY <4>1
      <4>3. store3[grown[i][LogicalPage(t)]][Offset(t)] = new[i][t - prefix]
        BY <1>7, <1>8, <3>2 DEF Stepped
      <4>4. QED  BY <4>2, <4>3
    <3>3. QED  BY <3>1, <3>2
  <2>2. QED  BY <1>3, <1>8, <2>1 DEF Holds, EnoughFree
<1>9. ASSUME enough
      PROVE  SameElsewhere(store3, store, table, free)
  <2> SUFFICES ASSUME NEW p \in Pages \ PagesOf(table), \A k \in 1 .. Len(free) : free[k] # p
               PROVE  store3[p] = store[p]
    BY DEF SameElsewhere
  <2>1. p \notin PagesOf(grown)
    BY <1>4 DEF Within
  <2>2. store3[p] = store2[p]
    BY <1>5, <1>9, <2>1
  <2>3. store2[p] = store[p]
    BY <1>1 DEF SameElsewhere
  <2>4. QED  BY <2>2, <2>3
<1>10. QED  BY <1>1, <1>3, <1>4, <1>5, <1>7, <1>8, <1>9

--------------------------------------------------------------------------------
(* Steps keep the invariant                                                *)

\* What a slot may become: freed, lost or with the tokens of its sequence.
Outcome(ph, table2, free2, store2, length) ==
  /\ store2 \in Stores /\ free2 \in Seq(Pages) /\ Once(free2) /\ length \in 0 .. MaxLength
  /\ \/ ph = "freed" /\ table2 = << >>
     \/ ph = "lost" /\ Clean(table2, free2) /\ Bounded(table2)
     \/ ph = "open" /\ Clean(table2, free2) /\ Bounded(table2) /\ Holds(table2, store2, length)

\* The pages of other slots are none of those that one slot and the stack have.
LEMMA OtherPages ==
  ASSUME Inv, NEW s \in Slots, phase[s] \in {"open", "lost"}, NEW u \in Slots \ {s},
         NEW p \in PagesOf(block_tables[u])
  PROVE  p \in Pages /\ p \notin PagesOf(block_tables[s]) /\ \A k \in 1 .. Len(free_pages) : free_pages[k] # p
<1>1. PagesOf(block_tables[s]) \cap PagesOf(block_tables[u]) = {} /\ p \in Pages
  BY DEF Inv, Apart, PagesOf
<1>2. phase[u] \in {"open", "lost"}
  <2>1. block_tables[u] # << >>
    BY DEF PagesOf
  <2>2. phase[u] \in {"new", "open", "lost", "freed"} /\ SlotOK(u)
    BY DEF Inv, Types
  <2>3. QED  BY <2>1, <2>2 DEF SlotOK
<1>3. Unused(block_tables[u], free_pages)
  BY <1>2 DEF Inv, SlotOK, Clean
<1>4. QED  BY <1>1, <1>3 DEF Unused

\* So the tokens of other slots stay what they are.
LEMMA OtherTokens ==
  ASSUME Inv, NEW s \in Slots, phase[s] \in {"open", "lost"}, NEW u \in Slots \ {s}, phase[u] = "open",
         NEW store2, SameElsewhere(store2, pool, block_tables[s], free_pages)
  PROVE  \A i \in Rows : \A t \in 1 .. prefix_length[u] :
           store2[block_tables[u][i][LogicalPage(t)]] = pool[block_tables[u][i][LogicalPage(t)]]
<1> SUFFICES ASSUME NEW i \in Rows, NEW t \in 1 .. prefix_length[u]
             PROVE  store2[block_tables[u][i][LogicalPage(t)]] = pool[block_tables[u][i][LogicalPage(t)]]
  OBVIOUS
<1> DEFINE table == block_tables[u]
           l == LogicalPage(t)
           m == NumLogicalPages(prefix_length[u])
<1>1. prefix_length[u] \in Nat
  BY DEF Inv, Types
<1>2. table \in Tables /\ m <= Len(table[i])
  BY DEF Inv, SlotOK, Clean, Holds
<1>3. l \in 1 .. m /\ m \in 0 .. prefix_length[u]
  BY <1>1, PagesForLength
<1>4. Len(table[i]) \in Nat
  BY <1>2, LenProperties DEF Tables
<1>5. l \in 1 .. Len(table[i])
  <2> HIDE DEF l, m, table
  <2>1. QED  BY <1>1, <1>2, <1>3, <1>4
<1>6. table[i][l] \in PagesOf(table)
  BY <1>2, <1>5, EntryIsPage
<1>7. QED  BY <1>6, OtherPages DEF SameElsewhere

\* A slot changes, and the others do not notice.
LEMMA SlotChanges ==
  ASSUME Inv, NEW s \in Slots, phase[s] \in {"open", "lost"},
         NEW ph, NEW table2, NEW free2, NEW store2, NEW length,
         Outcome(ph, table2, free2, store2, length),
         Within(table2, free2, block_tables[s], free_pages),
         SameElsewhere(store2, pool, block_tables[s], free_pages),
         phase' = [phase EXCEPT ![s] = ph],
         prefix_length' = [prefix_length EXCEPT ![s] = length],
         block_tables' = [block_tables EXCEPT ![s] = table2],
         free_pages' = free2, pool' = store2
  PROVE  Inv'
<1>1. /\ phase' \in [Slots -> {"new", "open", "lost", "freed"}]
      /\ phase'[s] = ph /\ \A u \in Slots \ {s} : phase'[u] = phase[u]
  BY DEF Inv, Types, Outcome
<1>2. /\ prefix_length' \in [Slots -> 0 .. MaxLength]
      /\ prefix_length'[s] = length /\ \A u \in Slots \ {s} : prefix_length'[u] = prefix_length[u]
  BY DEF Inv, Types, Outcome
<1>3. table2 \in Tables \cup {<< >>}
  BY DEF Outcome, Clean
<1>4. /\ block_tables' \in [Slots -> Tables \cup {<< >>}]
      /\ block_tables'[s] = table2 /\ \A u \in Slots \ {s} : block_tables'[u] = block_tables[u]
  BY <1>3 DEF Inv, Types
<1>5. Types'
  <2>1. free_pages' \in Seq(Pages) /\ pool' \in Stores
    BY DEF Outcome
  <2>2. QED  BY <1>1, <1>2, <1>4, <2>1 DEF Types, Tables, Stores
<1>6. Once(free_pages')
  BY DEF Outcome
<1>7. ASSUME NEW u \in Slots \ {s}
      PROVE  PagesOf(block_tables[u]) \cap PagesOf(table2) = {} /\ Unused(block_tables[u], free2)
  <2>1. \A p \in PagesOf(block_tables[u]) :
          p \notin PagesOf(block_tables[s]) /\ \A k \in 1 .. Len(free_pages) : free_pages[k] # p
    BY OtherPages
  <2>2. \A p \in PagesOf(table2) : p \notin PagesOf(block_tables[u])
    BY <2>1 DEF Within
  <2>3. \A k \in 1 .. Len(free2) : free2[k] \notin PagesOf(block_tables[u])
    BY <2>1 DEF Within
  <2>4. QED  BY <2>2, <2>3 DEF Unused
<1>8. Apart'
  <2> SUFFICES ASSUME NEW u \in Slots, NEW v \in Slots, u # v
               PROVE  PagesOf(block_tables'[u]) \cap PagesOf(block_tables'[v]) = {}
    BY DEF Apart, PagesOf
  <2>1. CASE u = s
    BY <1>4, <1>7, <2>1
  <2>2. CASE v = s
    BY <1>4, <1>7, <2>2
  <2>3. CASE u # s /\ v # s
    BY <1>4, <2>3 DEF Inv, Apart
  <2>4. QED  BY <2>1, <2>2, <2>3
<1>9. SlotOK(s)'
  <2>1. CASE ph = "freed" /\ table2 = << >>
    BY <1>1, <1>4, <2>1 DEF SlotOK
  <2>2. CASE ph = "lost" /\ Clean(table2, free2) /\ Bounded(table2)
    <3>1. Clean(block_tables'[s], free_pages') /\ Bounded(block_tables'[s])
      BY <1>4, <2>2
    <3>2. (Clean(block_tables[s], free_pages) /\ Bounded(block_tables[s]))'
      BY <3>1
    <3>3. QED  BY <1>1, <2>2, <3>2 DEF SlotOK
  <2>3. CASE ph = "open" /\ Clean(table2, free2) /\ Bounded(table2) /\ Holds(table2, store2, length)
    <3>4. Clean(block_tables'[s], free_pages') /\ Bounded(block_tables'[s])
      BY <1>4, <2>3
    <3>1. (Clean(block_tables[s], free_pages) /\ Bounded(block_tables[s]))'
      BY <3>4
    <3>2. Holds(block_tables[s], pool, prefix_length[s])'
      BY <1>2, <1>4, <2>3 DEF Holds
    <3>3. QED  BY <1>1, <2>3, <3>1, <3>2 DEF SlotOK
  <2>4. QED  BY <2>1, <2>2, <2>3 DEF Outcome
<1>10. ASSUME NEW u \in Slots \ {s}
       PROVE  SlotOK(u)'
  <2>1. phase'[u] = phase[u] /\ prefix_length'[u] = prefix_length[u] /\ block_tables'[u] = block_tables[u]
    BY <1>1, <1>2, <1>4
  <2>2. SlotOK(u)
    BY DEF Inv
  <2>3. phase[u] \in {"open", "lost"} => (Clean(block_tables[u], free_pages) /\ Bounded(block_tables[u]))'
    <3> SUFFICES ASSUME phase[u] \in {"open", "lost"}
                 PROVE  (Clean(block_tables[u], free_pages) /\ Bounded(block_tables[u]))'
      OBVIOUS
    <3>1. Clean(block_tables[u], free_pages) /\ Bounded(block_tables[u])
      BY <2>2 DEF SlotOK
    <3>2. Clean(block_tables[u], free2)
      BY <1>7, <3>1 DEF Clean, Outcome
    <3>3. Clean(block_tables'[u], free_pages') /\ Bounded(block_tables'[u])
      BY <2>1, <3>1, <3>2
    <3>4. QED  BY <3>3
  <2>4. phase[u] = "open" => Holds(block_tables[u], pool, prefix_length[u])'
    <3> SUFFICES ASSUME phase[u] = "open"
                 PROVE  Holds(block_tables'[u], pool', prefix_length'[u])
      OBVIOUS
    <3>1. Holds(block_tables[u], pool, prefix_length[u])
      BY <2>2 DEF SlotOK
    <3>2. \A i \in Rows : \A t \in 1 .. prefix_length[u] :
            store2[block_tables[u][i][LogicalPage(t)]] = pool[block_tables[u][i][LogicalPage(t)]]
      BY OtherTokens
    <3>3. Holds(block_tables[u], store2, prefix_length[u])
      BY <3>1, <3>2 DEF Holds
    <3>4. QED  BY <2>1, <3>3
  <2>5. QED  BY <2>1, <2>2, <2>3, <2>4 DEF SlotOK
<1>11. QED  BY <1>5, <1>6, <1>8, <1>9, <1>10 DEF Inv

\* register_slot
LEMMA RegisterSlotKeeps ==
  ASSUME Inv, NEW s \in Slots, RegisterSlot(s)
  PROVE  Inv'
<1> DEFINE empty == [i \in Rows |-> << >>]
<1>1. /\ phase[s] = "new" /\ phase' = [phase EXCEPT ![s] = "open"]
      /\ block_tables' = [block_tables EXCEPT ![s] = empty]
      /\ prefix_length' = prefix_length /\ free_pages' = free_pages /\ pool' = pool
  BY DEF RegisterSlot
<1>2. prefix_length[s] = 0 /\ Types
  BY <1>1 DEF Inv, SlotOK
<1>3. empty \in Tables /\ PagesOf(empty) = {} /\ \A i \in Rows : Len(empty[i]) = 0
  <2>1. empty \in Tables
    BY EmptySeq DEF Tables
  <2>2. \A i \in Rows : Len(empty[i]) = 0 /\ 1 .. Len(empty[i]) = {}
    OBVIOUS
  <2>3. PagesOf(empty) = {}
    <3> SUFFICES ASSUME NEW i \in Rows, NEW k \in 1 .. Len(empty[i])  PROVE  FALSE
      BY DEF PagesOf
    <3>1. QED  BY <2>2
  <2>4. QED  BY <2>1, <2>2, <2>3
<1> HIDE DEF empty
<1>4. Clean(empty, free_pages) /\ Bounded(empty)
  <2>1. \A i \in Rows : 1 .. Len(empty[i]) = {}
    BY <1>3
  <2>2. Separate(empty) /\ Unused(empty, free_pages) /\ Bounded(empty)
    BY <1>3, <2>1 DEF Separate, Unused, Bounded
  <2>3. QED  BY <1>2, <1>3, <2>2 DEF Clean, Inv, Types
<1>5. Holds(empty, pool, 0)
  <2>1. NumLogicalPages(0) = 0
    BY PagesForLength
  <2>2. QED  BY <1>3, <2>1 DEF Holds
<1>6. /\ phase' \in [Slots -> {"new", "open", "lost", "freed"}]
      /\ block_tables' \in [Slots -> Tables \cup {<< >>}]
      /\ phase'[s] = "open" /\ block_tables'[s] = empty
      /\ \A u \in Slots \ {s} : phase'[u] = phase[u] /\ block_tables'[u] = block_tables[u]
  BY <1>1, <1>2, <1>3 DEF Types
<1>7. Types'
  BY <1>1, <1>2, <1>6 DEF Types, Tables, Stores
<1>8. Once(free_pages')
  BY <1>1 DEF Inv
<1>9. Apart'
  <2> SUFFICES ASSUME NEW u \in Slots, NEW v \in Slots, u # v
               PROVE  PagesOf(block_tables'[u]) \cap PagesOf(block_tables'[v]) = {}
    BY DEF Apart, PagesOf
  <2>1. CASE u = s \/ v = s
    BY <1>3, <1>6, <2>1
  <2>2. CASE u # s /\ v # s
    BY <1>6, <2>2 DEF Inv, Apart
  <2>3. QED  BY <2>1, <2>2
<1>10. ASSUME NEW u \in Slots
       PROVE  SlotOK(u)'
  <2>1. CASE u = s
    <3>1. Clean(block_tables'[u], free_pages') /\ Bounded(block_tables'[u])
      BY <1>1, <1>4, <1>6, <2>1
    <3>2. Holds(block_tables'[u], pool', prefix_length'[u])
      BY <1>1, <1>2, <1>5, <1>6, <2>1
    <3>3. (Clean(block_tables[u], free_pages) /\ Bounded(block_tables[u]))'
      BY <3>1
    <3>4. Holds(block_tables[u], pool, prefix_length[u])'
      BY <3>2
    <3>5. QED  BY <1>6, <2>1, <3>3, <3>4 DEF SlotOK
  <2>2. CASE u # s
    <3>1. SlotOK(u) /\ phase'[u] = phase[u] /\ block_tables'[u] = block_tables[u]
      BY <1>6, <2>2 DEF Inv
    <3>2. phase[u] \in {"open", "lost"} => (Clean(block_tables[u], free_pages) /\ Bounded(block_tables[u]))'
      <4>1. phase[u] \in {"open", "lost"} => Clean(block_tables'[u], free_pages') /\ Bounded(block_tables'[u])
        BY <1>1, <3>1 DEF SlotOK
      <4>2. QED  BY <4>1
    <3>3. phase[u] = "open" => Holds(block_tables[u], pool, prefix_length[u])'
      <4>1. phase[u] = "open" => Holds(block_tables'[u], pool', prefix_length'[u])
        BY <1>1, <3>1 DEF SlotOK
      <4>2. QED  BY <4>1
    <3>4. QED  BY <1>1, <3>1, <3>2, <3>3 DEF SlotOK
  <2>3. QED  BY <2>1, <2>2
<1>11. QED  BY <1>7, <1>8, <1>9, <1>10 DEF Inv

\* free_slot
LEMMA FreeSlotKeeps ==
  ASSUME Inv, NEW s \in Slots, FreeSlot(s)
  PROVE  Inv'
<1> DEFINE table == block_tables[s]
           back == FlattenSeq(table)
           free2 == free_pages \o back
<1>1. /\ phase[s] \in {"open", "lost"} /\ phase' = [phase EXCEPT ![s] = "freed"]
      /\ free_pages' = free2 /\ block_tables' = [block_tables EXCEPT ![s] = << >>]
      /\ prefix_length' = [prefix_length EXCEPT ![s] = 0] /\ pool' = pool
  BY DEF FreeSlot
<1>2. Clean(table, free_pages) /\ Types
  BY <1>1 DEF Inv, SlotOK
<1>3. table \in Tables /\ Separate(table) /\ free_pages \in Seq(Pages) /\ Once(free_pages) /\ Unused(table, free_pages)
  BY <1>2 DEF Clean
<1>4. back \in Seq(Pages) /\ Once(back) /\ \A k \in 1 .. Len(back) : back[k] \in PagesOf(table)
  BY <1>3, FlattenPages
<1> HIDE DEF table, back
<1>5. \A k \in 1 .. Len(free_pages), m \in 1 .. Len(back) : free_pages[k] # back[m]
  BY <1>3, <1>4 DEF Unused
<1>6. /\ free2 \in Seq(Pages) /\ Once(free2)
      /\ \A k \in 1 .. Len(free2) : \/ \E m \in 1 .. Len(free_pages) : free2[k] = free_pages[m]
                                    \/ \E m \in 1 .. Len(back) : free2[k] = back[m]
  BY <1>3, <1>4, <1>5, OnceConcat
<1> HIDE DEF free2
<1>7. Outcome("freed", << >>, free2, pool, 0)
  BY <1>2, <1>6 DEF Outcome, Types
<1>8. Within(<< >>, free2, table, free_pages)
  <2>1. PagesOf(<< >>) = {}
    BY DEF PagesOf
  <2>2. \A k \in 1 .. Len(free2) : free2[k] \in PagesOf(table) \/ \E m \in 1 .. Len(free_pages) : free2[k] = free_pages[m]
    BY <1>4, <1>6
  <2>3. QED  BY <2>1, <2>2 DEF Within
<1>9. SameElsewhere(pool, pool, table, free_pages)
  BY DEF SameElsewhere
<1>10. QED  BY <1>1, <1>7, <1>8, <1>9, SlotChanges DEF table

\* The copies of a reordering need more pages than there are.
LEMMA ReorderFailsKeeps ==
  ASSUME Inv, NEW s \in Slots, NEW hypo \in Hypos, ReorderFails(s, hypo)
  PROVE  Inv' /\ SameElsewhere(pool', pool, block_tables[s], free_pages)
<1> DEFINE table == block_tables[s]
           copy == Acquired(Copies(table, hypo), free_pages)
           free2 == Rest(Copies(table, hypo), free_pages)
           store2 == CopiedPool(pool, table, hypo, copy)
<1>1. /\ phase[s] = "open" /\ phase' = [phase EXCEPT ![s] = "lost"]
      /\ free_pages' = free2 /\ pool' = store2
      /\ prefix_length' = prefix_length /\ block_tables' = block_tables
  BY DEF ReorderFails
<1>2. Clean(table, free_pages) /\ Bounded(table) /\ Types
  BY <1>1 DEF Inv, SlotOK
<1>3. pool \in Stores
  BY <1>2 DEF Types
<1>4. /\ Clean(table, free2) /\ store2 \in Stores
      /\ Within(table, free2, table, free_pages) /\ SameElsewhere(store2, pool, table, free_pages)
  BY <1>2, <1>3, RowsOutOfPages
<1> HIDE DEF copy, free2, store2
<1>5. Outcome("lost", table, free2, store2, prefix_length[s])
  BY <1>2, <1>4 DEF Outcome, Types, Clean
<1>6. /\ prefix_length' = [prefix_length EXCEPT ![s] = prefix_length[s]]
      /\ block_tables' = [block_tables EXCEPT ![s] = table]
  BY <1>1, <1>2 DEF Types
<1>7. Inv'
  BY <1>1, <1>4, <1>5, <1>6, SlotChanges
<1>8. QED  BY <1>1, <1>4, <1>7

\* The bound on the tokens of a step.
LEMMA StepSize ==
  ASSUME NEW length \in 0 .. MaxLength, NEW prefix \in 0 .. length,
         NEW n \in 1 .. Min({MaxStep, MaxLength - prefix})
  PROVE  n \in Nat \ {0} /\ prefix + n <= MaxLength
<1> DEFINE S == {MaxStep, MaxLength - prefix}
<1>1. S \subseteq Int /\ MaxLength - prefix \in Int /\ MaxLength - prefix \in S
  OBVIOUS
<1>2. \E x \in S : \A y \in S : x <= y
  BY MaxStep <= MaxLength - prefix \/ MaxLength - prefix <= MaxStep
<1>3. Min(S) \in S /\ \A y \in S : Min(S) <= y
  <2> HIDE DEF S
  <2>1. QED  BY <1>2 DEF Min
<1>4. Min(S) \in Int /\ Min(S) <= MaxLength - prefix /\ n \in 1 .. Min(S)
  BY <1>1, <1>3
<1> HIDE DEF S
<1>5. QED  BY <1>4

\* What a step that writes its tokens does to a slot, and to no other.
StepDone(s, hypo) ==
  /\ UNCHANGED phase
  /\ \E prefix \in 0 .. prefix_length[s], n \in Nat \ {0} : \E new \in [Rows -> [1 .. n -> Tokens]] :
       /\ prefix + n <= MaxLength
       /\ prefix_length' = [prefix_length EXCEPT ![s] = prefix + n]
       /\ Stepped(block_tables'[s], pool', block_tables[s], pool, hypo, prefix, n, new)

StepLost(s) ==
  /\ phase' = [phase EXCEPT ![s] = "lost"]
  /\ UNCHANGED prefix_length

\* _paged_inference_step once the rows are in order
LEMMA PagedStepKeeps ==
  ASSUME Inv, NEW s \in Slots, NEW hypo \in Hypos, PagedStep(s, hypo)
  PROVE  /\ Inv'
         /\ SameElsewhere(pool', pool, block_tables[s], free_pages)
         /\ \A u \in Slots \ {s} : block_tables'[u] = block_tables[u]
         /\ StepDone(s, hypo) \/ StepLost(s)
<1> DEFINE T == block_tables[s]
           copy == Acquired(Copies(T, hypo), free_pages)
           table == Reordered(T, hypo, copy)
           store == CopiedPool(pool, T, hypo, copy)
           free == Rest(Copies(T, hypo), free_pages) \o Reclaimed(T, hypo)
<1>1. phase[s] = "open" /\ Cardinality(Copies(T, hypo)) <= Len(free_pages)
  BY DEF PagedStep
<1>2. PICK prefix \in 0 .. prefix_length[s] :
        \E n \in 1 .. Min({MaxStep, MaxLength - prefix}) : \E new \in [Rows -> [1 .. n -> Tokens]] :
          ScatterStep(s, table, free, store, prefix, new)
  BY DEF PagedStep
<1>3. PICK n \in 1 .. Min({MaxStep, MaxLength - prefix}) : \E new \in [Rows -> [1 .. n -> Tokens]] :
        ScatterStep(s, table, free, store, prefix, new)
  BY <1>2
<1>4. PICK new \in [Rows -> [1 .. n -> Tokens]] : ScatterStep(s, table, free, store, prefix, new)
  BY <1>3
<1>5. Types /\ Clean(T, free_pages) /\ Bounded(T) /\ Holds(T, pool, prefix_length[s])
  BY <1>1 DEF Inv, SlotOK
<1>6. prefix_length[s] \in 0 .. MaxLength /\ pool \in Stores
  BY <1>5 DEF Types
<1>7. n \in Nat \ {0} /\ prefix + n <= MaxLength
  BY <1>6, StepSize
<1>8. Len(new[1]) = n
  <2>1. 1 \in Rows /\ new[1] \in [1 .. n -> Tokens] /\ n \in Nat
    BY <1>7 DEF Rows
  <2>2. new[1] \in Seq(Tokens)
    BY <2>1, SeqDef
  <2>3. Len(new[1]) \in Nat /\ 1 .. Len(new[1]) = 1 .. n
    BY <2>1, <2>2, LenProperties
  <2>4. QED  BY <2>1, <2>3, SameLength
<1> DEFINE missing == Missing(table, prefix + n)
           free3 == Rest(missing, free)
           grown == Grown(table, Acquired(missing, free))
           store3 == Scattered(store, grown, prefix, new)
<1>9. /\ Clean(grown, free3) /\ Bounded(grown) /\ Within(grown, free3, T, free_pages)
      /\ store \in Stores /\ SameElsewhere(store, pool, T, free_pages)
      /\ Cardinality(missing) <= Len(free) =>
           /\ store3 \in Stores /\ SameElsewhere(store3, pool, T, free_pages)
           /\ Holds(grown, store3, prefix + n)
           /\ Stepped(grown, store3, T, pool, hypo, prefix, n, new)
  BY <1>1, <1>5, <1>6, <1>7, StepKeepsOrder
<1>10. /\ free_pages' = free3
       /\ block_tables' = [block_tables EXCEPT ![s] = grown]
       /\ IF Cardinality(missing) <= Len(free)
          THEN /\ pool' = store3
               /\ prefix_length' = [prefix_length EXCEPT ![s] = prefix + n]
               /\ UNCHANGED phase
          ELSE /\ pool' = store
               /\ phase' = [phase EXCEPT ![s] = "lost"]
               /\ UNCHANGED prefix_length
  BY <1>4, <1>8 DEF ScatterStep
<1> HIDE DEF copy, table, store, free, missing, free3, grown, store3
<1>11. block_tables'[s] = grown /\ \A u \in Slots \ {s} : block_tables'[u] = block_tables[u]
  BY <1>5, <1>10 DEF Types
<1>12. free3 \in Seq(Pages) /\ Once(free3)
  BY <1>9 DEF Clean
<1>13. CASE Cardinality(missing) <= Len(free)
  <2>1. Outcome("open", grown, free3, store3, prefix + n)
    <3>1. prefix + n \in 0 .. MaxLength
      BY <1>6, <1>7
    <3>2. QED  BY <1>9, <1>12, <1>13, <3>1 DEF Outcome
  <2>2. phase' = [phase EXCEPT ![s] = "open"]
    BY <1>1, <1>5, <1>10, <1>13 DEF Types
  <2>3. Inv'
    BY <1>1, <1>9, <1>10, <1>13, <2>1, <2>2, SlotChanges
  <2>4. StepDone(s, hypo)
    BY <1>7, <1>9, <1>10, <1>11, <1>13 DEF StepDone
  <2>5. QED  BY <1>9, <1>10, <1>11, <1>13, <2>3, <2>4
<1>14. CASE ~(Cardinality(missing) <= Len(free))
  <2>1. Outcome("lost", grown, free3, store, prefix_length[s])
    BY <1>6, <1>9, <1>12 DEF Outcome
  <2>2. prefix_length' = [prefix_length EXCEPT ![s] = prefix_length[s]]
    BY <1>5, <1>10, <1>14 DEF Types
  <2>3. Inv'
    BY <1>1, <1>9, <1>10, <1>14, <2>1, <2>2, SlotChanges
  <2>4. StepLost(s)
    BY <1>10, <1>14 DEF StepLost
  <2>5. QED  BY <1>9, <1>10, <1>11, <1>14, <2>3, <2>4
<1>15. QED  BY <1>13, <1>14

--------------------------------------------------------------------------------
(* No page in two places                                                   *)

\* The pool starts with every page free.
LEMMA InitInv ==
  PoolInit => Inv
<1> SUFFICES ASSUME PoolInit  PROVE  Inv
  OBVIOUS
<1>1. /\ phase = [s \in Slots |-> "new"] /\ prefix_length = [s \in Slots |-> 0]
      /\ free_pages = [p \in Pages |-> p] /\ block_tables = [s \in Slots |-> << >>]
      /\ pool = [p \in Pages |-> [o \in Offsets |-> Blank]]
  BY DEF PoolInit
<1>2. free_pages \in Seq(Pages) /\ \A k \in 1 .. Len(free_pages) : free_pages[k] = k
  <2>1. free_pages \in [1 .. PoolPages -> Pages] /\ PoolPages \in Nat /\ DOMAIN free_pages = Pages
    BY <1>1 DEF Pages
  <2>2. free_pages \in Seq(Pages)
    BY <2>1, SeqDef
  <2>3. DOMAIN free_pages = 1 .. Len(free_pages)
    BY <2>2, LenProperties
  <2>4. QED  BY <1>1, <2>1, <2>2, <2>3
<1>3. Types
  <2>1. << >> \in Tables \cup {<< >>} /\ [o \in Offsets |-> Blank] \in [Offsets -> Tokens \cup {Blank}]
    OBVIOUS
  <2>2. QED  BY <1>1, <1>2, <2>1 DEF Types, Stores
<1>4. Once(free_pages)
  BY <1>2 DEF Once
<1>5. Apart
  BY <1>1 DEF Apart, PagesOf
<1>6. \A s \in Slots : SlotOK(s)
  BY <1>1 DEF SlotOK
<1>7. QED  BY <1>3, <1>4, <1>5, <1>6 DEF Inv

\* Every operation keeps the invariant.
LEMMA NextInv ==
  Inv /\ [PoolNext]_poolVars => Inv'
<1> SUFFICES ASSUME Inv, [PoolNext]_poolVars  PROVE  Inv'
  OBVIOUS
<1>1. CASE UNCHANGED poolVars
  <2>1. /\ phase' = phase /\ prefix_length' = prefix_length /\ free_pages' = free_pages
        /\ block_tables' = block_tables /\ pool' = pool
    BY <1>1 DEF poolVars
  <2>2. Types'
    BY <2>1 DEF Inv, Types, Tables, Stores
  <2>3. Once(free_pages') /\ Apart'
    BY <2>1 DEF Inv, Apart, PagesOf
  <2>4. ASSUME NEW s \in Slots  PROVE  SlotOK(s)'
    <3>1. SlotOK(s)
      BY DEF Inv
    <3>2. phase[s] \in {"open", "lost"} => (Clean(block_tables[s], free_pages) /\ Bounded(block_tables[s]))'
      <4>1. phase[s] \in {"open", "lost"} => Clean(block_tables'[s], free_pages') /\ Bounded(block_tables'[s])
        BY <2>1, <3>1 DEF SlotOK
      <4>2. QED  BY <4>1
    <3>3. phase[s] = "open" => Holds(block_tables[s], pool, prefix_length[s])'
      <4>1. phase[s] = "open" => Holds(block_tables'[s], pool', prefix_length'[s])
        BY <2>1, <3>1 DEF SlotOK
      <4>2. QED  BY <4>1
    <3>4. QED  BY <2>1, <3>1, <3>2, <3>3 DEF SlotOK
  <2>5. QED  BY <2>2, <2>3, <2>4 DEF Inv
<1>2. ASSUME NEW s \in Slots, RegisterSlot(s)  PROVE  Inv'
  BY <1>2, RegisterSlotKeeps
<1>3. ASSUME NEW s \in Slots, FreeSlot(s)  PROVE  Inv'
  BY <1>3, FreeSlotKeeps
<1>4. ASSUME NEW s \in Slots, NEW hypo \in [Rows -> Rows], ReorderFails(s, hypo)  PROVE  Inv'
  BY <1>4, ReorderFailsKeeps DEF Hypos
<1>5. ASSUME NEW s \in Slots, NEW hypo \in [Rows -> Rows], PagedStep(s, hypo)  PROVE  Inv'
  BY <1>5, PagedStepKeeps DEF Hypos
<1>6. QED  BY <1>1, <1>2, <1>3, <1>4, <1>5 DEF PoolNext

\* The invariant says what NoSharing says.
LEMMA InvNoSharing ==
  Inv => NoSharing
<1> SUFFICES ASSUME Inv  PROVE  NoSharing
  OBVIOUS
<1>1. ASSUME NEW c \in Places
      PROVE  /\ c[1] \in Slots /\ c[2] \in Rows /\ c = <<c[1], c[2], c[3]>>
             /\ block_tables[c[1]] \in Tables /\ Clean(block_tables[c[1]], free_pages)
             /\ c[3] \in 1 .. Len(block_tables[c[1]][c[2]])
             /\ PageAt(c) \in PagesOf(block_tables[c[1]])
  <2>1. /\ c[1] \in Slots /\ c[2] \in Rows /\ c = <<c[1], c[2], c[3]>>
        /\ c[2] \in DOMAIN block_tables[c[1]] /\ c[3] \in DOMAIN block_tables[c[1]][c[2]]
    BY DEF Places
  <2>2. phase[c[1]] \in {"open", "lost"}
    <3>1. block_tables[c[1]] # << >>
      BY <2>1
    <3>2. phase[c[1]] \in {"new", "open", "lost", "freed"} /\ SlotOK(c[1])
      BY <2>1 DEF Inv, Types
    <3>3. QED  BY <3>1, <3>2 DEF SlotOK
  <2>3. Clean(block_tables[c[1]], free_pages) /\ block_tables[c[1]] \in Tables
    BY <2>1, <2>2 DEF Inv, SlotOK, Clean
  <2>4. c[3] \in 1 .. Len(block_tables[c[1]][c[2]])
    <3>1. block_tables[c[1]][c[2]] \in Seq(Pages)
      BY <2>1, <2>3 DEF Tables
    <3>2. QED  BY <2>1, <3>1, LenProperties
  <2>5. PageAt(c) \in PagesOf(block_tables[c[1]])
    BY <2>1, <2>3, <2>4, EntryIsPage DEF PageAt
  <2>6. QED  BY <2>1, <2>3, <2>4, <2>5
<1>2. ASSUME NEW c \in Places, NEW d \in Places, PageAt(c) = PageAt(d)
      PROVE  c = d
  <2>1. c[1] = d[1]
    BY <1>1, <1>2 DEF Inv, Apart
  <2>2. Separate(block_tables[c[1]])
    BY <1>1 DEF Clean
  <2>3. block_tables[c[1]][c[2]][c[3]] = block_tables[c[1]][d[2]][d[3]]
    BY <1>2, <2>1 DEF PageAt
  <2>4. /\ c[2] \in Rows /\ d[2] \in Rows /\ c[3] \in 1 .. Len(block_tables[c[1]][c[2]])
        /\ d[3] \in 1 .. Len(block_tables[c[1]][d[2]])
    BY <1>1, <2>1
  <2>5. c[2] = d[2] /\ c[3] = d[3]
    <3> DEFINE T == block_tables[c[1]]
               i == c[2]
               j == d[2]
               k == c[3]
               m == d[3]
    <3>1. i \in Rows /\ j \in Rows /\ k \in 1 .. Len(T[i]) /\ m \in 1 .. Len(T[j]) /\ T[i][k] = T[j][m]
      BY <2>3, <2>4
    <3>2. Separate(T)
      BY <2>2
    <3> HIDE DEF T, i, j, k, m
    <3>3. i = j /\ k = m
      BY <3>1, <3>2 DEF Separate
    <3>4. QED  BY <3>3 DEF i, j, k, m
  <2>6. c = <<c[1], c[2], c[3]>> /\ d = <<d[1], d[2], d[3]>>
    BY <1>1
  <2>7. QED  BY <2>1, <2>5, <2>6
<1>3. free_pages \in Seq(Pages) /\ Once(free_pages)
  BY DEF Inv, Types
<1>4. DOMAIN free_pages = 1 .. Len(free_pages)
  BY <1>3, LenProperties
<1>5. \A c \in Places : PageAt(c) \notin Range(free_pages)
  <2> TAKE c \in Places
  <2>1. PageAt(c) \in PagesOf(block_tables[c[1]]) /\ Unused(block_tables[c[1]], free_pages)
    BY <1>1 DEF Clean
  <2>2. QED  BY <1>4, <2>1 DEF Unused, Range
<1>6. IsInjective(free_pages)
  BY <1>3, <1>4 DEF IsInjective, Once
<1>7. QED  BY <1>2, <1>5, <1>6 DEF NoSharing

\* Every reachable state satisfies the invariant.
LEMMA InvAlways ==
  PoolSpec => []Inv
<1>1. QED  BY InitInv, NextInv, PTL DEF PoolSpec

\* PoolTypeOK: a block table has a row for each batch element, and pages of the pool
\* (register_slot, _acquire_page).
THEOREM PoolTypeCorrect ==
  PoolSpec => []PoolTypeOK
<1>1. Inv => PoolTypeOK
  <2> SUFFICES ASSUME Inv  PROVE PoolTypeOK
    OBVIOUS
  <2>1. ASSUME NEW s \in Slots
        PROVE  block_tables[s] = << >> \/ block_tables[s] \in [Rows -> Seq(Pages)]
    BY DEF Inv, Types, Tables
  <2>2. QED  BY <2>1 DEF PoolTypeOK, Inv, Types, Stores
<1>2. QED  BY <1>1, InvAlways, PTL

\* No page is in two places (_acquire_page, reorder, scatter, free_slot): two rows
\* never write to the same page, no page is given out while it is in use.
THEOREM NoPageShared ==
  PoolSpec => []NoSharing
<1>1. QED  BY InvAlways, InvNoSharing, PTL

--------------------------------------------------------------------------------
(* The pool implements a key-value store                                   *)

\* What gather returns for a slot.
RowOf(table, store, length, i) == [t \in 1 .. length |-> store[table[i][LogicalPage(t)]][Offset(t)]]

Kv == [s \in Slots |-> IF phase[s] = "open" THEN Gather(block_tables[s], pool, prefix_length[s]) ELSE << >>]

\* Rows of tokens, all of the same length.
LEMMA GatherRows ==
  ASSUME NEW table, NEW store, NEW length \in Nat, Holds(table, store, length)
  PROVE  /\ Gather(table, store, length) = [i \in Rows |-> RowOf(table, store, length, i)]
         /\ \A i \in Rows : /\ RowOf(table, store, length, i) \in [1 .. length -> Tokens]
                            /\ RowOf(table, store, length, i) \in Seq(Tokens)
                            /\ Len(RowOf(table, store, length, i)) = length
<1>1. Gather(table, store, length) = [i \in Rows |-> RowOf(table, store, length, i)]
  BY DEF Gather, RowOf
<1>2. ASSUME NEW i \in Rows
      PROVE  /\ RowOf(table, store, length, i) \in [1 .. length -> Tokens]
             /\ RowOf(table, store, length, i) \in Seq(Tokens)
             /\ Len(RowOf(table, store, length, i)) = length
  <2> DEFINE row == RowOf(table, store, length, i)
  <2>1. \A t \in 1 .. length : store[table[i][LogicalPage(t)]][Offset(t)] \in Tokens
    BY DEF Holds
  <2>2. row \in [1 .. length -> Tokens]
    BY <2>1 DEF RowOf
  <2> HIDE DEF row
  <2>3. row \in Seq(Tokens)
    BY <2>2, SeqDef
  <2>4. Len(row) \in Nat /\ 1 .. Len(row) = 1 .. length
    BY <2>2, <2>3, LenProperties
  <2>5. Len(row) = length
    BY <2>4, SameLength
  <2>6. QED  BY <2>2, <2>3, <2>5 DEF row
<1>3. QED  BY <1>1, <1>2

\* A slot that a step does not concern gathers the same tokens.
LEMMA KvElsewhere ==
  ASSUME Inv, NEW s \in Slots, phase[s] \in {"open", "lost"},
         SameElsewhere(pool', pool, block_tables[s], free_pages), NEW u \in Slots \ {s},
         phase'[u] = phase[u], prefix_length'[u] = prefix_length[u], block_tables'[u] = block_tables[u]
  PROVE  Kv'[u] = Kv[u]
<1>1. Kv'[u] = IF phase'[u] = "open" THEN Gather(block_tables'[u], pool', prefix_length'[u]) ELSE << >>
  BY DEF Kv, Gather
<1>2. Kv[u] = IF phase[u] = "open" THEN Gather(block_tables[u], pool, prefix_length[u]) ELSE << >>
  BY DEF Kv
<1>3. ASSUME phase[u] = "open"
      PROVE  Gather(block_tables[u], pool', prefix_length[u]) = Gather(block_tables[u], pool, prefix_length[u])
  <2>1. \A i \in Rows : \A t \in 1 .. prefix_length[u] :
          pool'[block_tables[u][i][LogicalPage(t)]] = pool[block_tables[u][i][LogicalPage(t)]]
    BY <1>3, OtherTokens
  <2>2. QED  BY <2>1 DEF Gather
<1>4. QED  BY <1>1, <1>2, <1>3

\* A step that writes its tokens is a step of the store.
LEMMA StepImplements ==
  ASSUME Inv, Inv', NEW s \in Slots, NEW hypo \in Hypos, phase[s] = "open", StepDone(s, hypo),
         Kv' = [Kv EXCEPT ![s] = Kv'[s]]
  PROVE  KV!Step(s)
<1>1. PICK prefix \in 0 .. prefix_length[s], n \in Nat \ {0} : \E new \in [Rows -> [1 .. n -> Tokens]] :
        /\ prefix + n <= MaxLength
        /\ prefix_length' = [prefix_length EXCEPT ![s] = prefix + n]
        /\ Stepped(block_tables'[s], pool', block_tables[s], pool, hypo, prefix, n, new)
  BY DEF StepDone
<1>2. PICK new \in [Rows -> [1 .. n -> Tokens]] :
        /\ prefix + n <= MaxLength
        /\ prefix_length' = [prefix_length EXCEPT ![s] = prefix + n]
        /\ Stepped(block_tables'[s], pool', block_tables[s], pool, hypo, prefix, n, new)
  BY <1>1
<1> DEFINE m == prefix_length[s]
           rows == [i \in Rows |-> RowOf(block_tables[s], pool, m, i)]
           rows2 == [i \in Rows |-> RowOf(block_tables'[s], pool', prefix + n, i)]
<1>3. /\ phase' = phase /\ prefix_length'[s] = prefix + n /\ m \in Nat /\ prefix + n \in Nat
      /\ prefix \in Nat /\ prefix <= m /\ Types
  BY <1>2 DEF StepDone, Inv, Types
<1>4. Holds(block_tables[s], pool, m)
  BY DEF Inv, SlotOK
<1>5. Holds(block_tables'[s], pool', prefix + n)
  <2>1. SlotOK(s)' /\ phase'[s] = "open"
    BY <1>3 DEF Inv
  <2>2. Holds(block_tables[s], pool, prefix_length[s])'
    BY <2>1 DEF SlotOK
  <2>3. Holds(block_tables'[s], pool', prefix_length'[s])
    BY <2>2
  <2>4. QED  BY <1>3, <2>3
<1>6. Kv[s] = rows /\ Kv'[s] = rows2
  <2>1. Kv[s] = Gather(block_tables[s], pool, m)
    BY DEF Kv
  <2>2. Kv'[s] = Gather(block_tables'[s], pool', prefix_length'[s])
    BY <1>3 DEF Kv, Gather
  <2>3. QED  BY <1>3, <1>4, <1>5, <2>1, <2>2, GatherRows
<1>7. \A i \in Rows : rows[i] \in Seq(Tokens) /\ Len(rows[i]) = m
  BY <1>3, <1>4, GatherRows
<1>8. \A i \in Rows : rows2[i] \in [1 .. (prefix + n) -> Tokens] /\ rows2[i] \in Seq(Tokens) /\ Len(rows2[i]) = prefix + n
  BY <1>3, <1>5, GatherRows
<1>9. \A i \in Rows : hypo[i] \in Rows
  BY DEF Hypos
<1>10. ASSUME NEW i \in Rows
       PROVE  SubSeq(rows2[i], 1, prefix) = SubSeq(rows[hypo[i]], 1, prefix)
  <2> DEFINE a == rows2[i]
             b == rows[hypo[i]]
  <2>1. \A t \in 1 .. prefix : t \in 1 .. (prefix + n) /\ t \in 1 .. m /\ t <= prefix
    BY <1>3
  <2>2. \A t \in 1 .. prefix : a[t] = b[t]
    <3> TAKE t \in 1 .. prefix
    <3>1. t \in 1 .. (prefix + n) /\ t \in 1 .. m /\ t <= prefix
      BY <2>1
    <3>2. a[t] = pool'[block_tables'[s][i][LogicalPage(t)]][Offset(t)]
      BY <3>1 DEF RowOf
    <3>3. b[t] = pool[block_tables[s][hypo[i]][LogicalPage(t)]][Offset(t)]
      BY <1>9, <3>1 DEF RowOf
    <3>4. QED  BY <1>2, <3>1, <3>2, <3>3 DEF Stepped
  <2>3. \A t \in 1 .. prefix : a[t] \in Tokens /\ b[t] \in Tokens
    <3>1. a \in [1 .. (prefix + n) -> Tokens]
      BY <1>8
    <3> HIDE DEF a, b
    <3>2. QED  BY <2>1, <2>2, <3>1
  <2> HIDE DEF a, b
  <2>4. /\ SubSeq(a, 1, prefix) \in Seq(Tokens) /\ SubSeq(b, 1, prefix) \in Seq(Tokens)
        /\ Len(SubSeq(a, 1, prefix)) = prefix /\ Len(SubSeq(b, 1, prefix)) = prefix
        /\ \A t \in 1 .. prefix : SubSeq(a, 1, prefix)[t] = a[t] /\ SubSeq(b, 1, prefix)[t] = b[t]
    <3>1. 1 \in Int /\ prefix \in Int
      BY <1>3
    <3>2. /\ SubSeq(a, 1, prefix) \in Seq(Tokens)
          /\ Len(SubSeq(a, 1, prefix)) = IF 1 <= prefix THEN prefix - 1 + 1 ELSE 0
          /\ \A t \in 1 .. prefix - 1 + 1 : SubSeq(a, 1, prefix)[t] = a[1 + t - 1]
      BY <2>3, <3>1, SubSeqProperties
    <3>3. /\ SubSeq(b, 1, prefix) \in Seq(Tokens)
          /\ Len(SubSeq(b, 1, prefix)) = IF 1 <= prefix THEN prefix - 1 + 1 ELSE 0
          /\ \A t \in 1 .. prefix - 1 + 1 : SubSeq(b, 1, prefix)[t] = b[1 + t - 1]
      BY <2>3, <3>1, SubSeqProperties
    <3>4. prefix - 1 + 1 = prefix /\ \A t \in 1 .. prefix : 1 + t - 1 = t
      BY <1>3
    <3>5. QED  BY <1>3, <3>2, <3>3, <3>4
  <2>5. SubSeq(a, 1, prefix) = SubSeq(b, 1, prefix)
    BY <2>2, <2>4, SeqEqual
  <2>6. QED  BY <2>5 DEF a, b
<1>11. prefix + n \in (prefix + 1) .. MaxLength /\ prefix \in 0 .. m
  BY <1>2, <1>3
<1>12. 1 \in Rows
  BY DEF Rows
<1> HIDE DEF rows, rows2, m
<1>13. \A i \in Rows : /\ rows2[i] \in UNION {[1 .. k -> Tokens] : k \in (prefix + 1) .. MaxLength}
                       /\ Len(rows2[i]) = Len(rows2[1])
                       /\ SubSeq(rows2[i], 1, prefix) = SubSeq(rows[hypo[i]], 1, prefix)
  BY <1>8, <1>10, <1>11, <1>12
<1>14. KV!SteppedFrom(rows, rows2, hypo, prefix)
  BY <1>13 DEF KV!SteppedFrom, KV!Rows, Rows
<1>15. Len(rows[1]) = m /\ hypo \in KV!Hypos
  BY <1>7, <1>12 DEF Hypos, KV!Hypos, KV!Rows, Rows
<1>16. \E h \in KV!Hypos, p \in 0 .. Len(Kv[s][1]) : KV!SteppedFrom(Kv[s], Kv'[s], h, p)
  BY <1>6, <1>11, <1>14, <1>15
<1>17. QED  BY <1>3, <1>16 DEF KV!Step, Kv

\* A step that only one slot notices changes only what that slot gathers.
LEMMA KvOnly ==
  ASSUME Inv, NEW s \in Slots, phase[s] \in {"open", "lost"},
         SameElsewhere(pool', pool, block_tables[s], free_pages),
         \A u \in Slots \ {s} : /\ phase'[u] = phase[u] /\ prefix_length'[u] = prefix_length[u]
                                /\ block_tables'[u] = block_tables[u]
  PROVE  Kv' = [Kv EXCEPT ![s] = Kv'[s]]
<1>1. \A u \in Slots \ {s} : Kv'[u] = Kv[u]
  BY KvElsewhere
<1>2. Kv = [u \in Slots |-> Kv[u]] /\ Kv' = [u \in Slots |-> Kv'[u]]
  BY DEF Kv
<1> HIDE DEF Kv
<1>3. QED  BY <1>1, <1>2

\* A slot that runs out of pages is lost in the store too.
LEMMA LossImplements ==
  ASSUME Inv, NEW s \in Slots, phase[s] = "open", phase' = [phase EXCEPT ![s] = "lost"],
         Kv' = [Kv EXCEPT ![s] = Kv'[s]]
  PROVE  KV!Lose(s)
<1>1. phase'[s] = "lost"
  BY DEF Inv, Types
<1>2. Kv'[s] = << >>
  BY <1>1 DEF Kv
<1>3. Kv' = [Kv EXCEPT ![s] = << >>]
  BY <1>2
<1>4. QED  BY <1>3 DEF KV!Lose, Kv

\* Every step of the pool is a step of the store, or changes nothing in it.
LEMMA NextImplements ==
  Inv /\ Inv' /\ [PoolNext]_poolVars => [KV!Next]_(KV!vars)
<1> SUFFICES ASSUME Inv, Inv', [PoolNext]_poolVars  PROVE  [KV!Next]_(KV!vars)
  OBVIOUS
<1>1. Types
  BY DEF Inv
<1>2. CASE UNCHANGED poolVars
  <2>1. phase' = phase /\ Kv' = Kv
    BY <1>2 DEF poolVars, Kv, Gather
  <2>2. QED  BY <2>1 DEF KV!vars, Kv
<1>3. ASSUME NEW s \in Slots, RegisterSlot(s)  PROVE  KV!Register(s)
  <2> DEFINE empty == [i \in Rows |-> << >>]
  <2>1. /\ phase[s] = "new" /\ phase' = [phase EXCEPT ![s] = "open"]
        /\ block_tables' = [block_tables EXCEPT ![s] = empty]
        /\ prefix_length' = prefix_length /\ pool' = pool
    BY <1>3 DEF RegisterSlot
  <2>2. phase'[s] = "open" /\ prefix_length'[s] = 0 /\ block_tables'[s] = empty
    BY <1>1, <2>1 DEF Inv, SlotOK, Types
  <2>3. Kv'[s] = empty
    <3>1. Kv'[s] = Gather(block_tables'[s], pool', prefix_length'[s])
      BY <2>2 DEF Kv, Gather
    <3>2. \A i \in Rows : [t \in 1 .. 0 |-> pool'[empty[i][LogicalPage(t)]][Offset(t)]] = << >>
      OBVIOUS
    <3>3. QED  BY <2>2, <3>1, <3>2 DEF Gather
  <2>4. \A u \in Slots \ {s} : Kv'[u] = Kv[u]
    <3> TAKE u \in Slots \ {s}
    <3>1. phase'[u] = phase[u] /\ block_tables'[u] = block_tables[u] /\ prefix_length'[u] = prefix_length[u]
      BY <1>1, <2>1 DEF Types
    <3>2. Kv'[u] = IF phase'[u] = "open" THEN Gather(block_tables'[u], pool', prefix_length'[u]) ELSE << >>
      BY DEF Kv, Gather
    <3>3. QED  BY <2>1, <3>1, <3>2 DEF Kv
  <2>5. Kv = [u \in Slots |-> Kv[u]] /\ Kv' = [u \in Slots |-> Kv'[u]]
    BY DEF Kv
  <2>6. Kv' = [Kv EXCEPT ![s] = empty]
    <3> HIDE DEF Kv, empty
    <3>1. QED  BY <2>3, <2>4, <2>5
  <2>7. QED  BY <2>1, <2>6 DEF KV!Register, KV!Rows, Rows, Kv
<1>4. ASSUME NEW s \in Slots, FreeSlot(s)  PROVE  KV!Free(s)
  <2>1. /\ phase[s] \in {"open", "lost"} /\ phase' = [phase EXCEPT ![s] = "freed"]
        /\ block_tables' = [block_tables EXCEPT ![s] = << >>]
        /\ prefix_length' = [prefix_length EXCEPT ![s] = 0] /\ pool' = pool
    BY <1>4 DEF FreeSlot
  <2>2. \A u \in Slots \ {s} : /\ phase'[u] = phase[u] /\ prefix_length'[u] = prefix_length[u]
                               /\ block_tables'[u] = block_tables[u]
    BY <1>1, <2>1 DEF Types
  <2>3. SameElsewhere(pool', pool, block_tables[s], free_pages)
    BY <2>1 DEF SameElsewhere
  <2>4. Kv' = [Kv EXCEPT ![s] = Kv'[s]]
    BY <2>1, <2>2, <2>3, KvOnly
  <2>5. phase'[s] = "freed"
    BY <1>1, <2>1 DEF Types
  <2>6. Kv'[s] = << >>
    BY <2>5 DEF Kv
  <2>7. Kv' = [Kv EXCEPT ![s] = << >>]
    BY <2>4, <2>6
  <2>8. QED  BY <2>1, <2>7 DEF KV!Free, Kv
<1>5. ASSUME NEW s \in Slots, NEW hypo \in [Rows -> Rows], ReorderFails(s, hypo)  PROVE  KV!Lose(s)
  <2>1. /\ phase[s] = "open" /\ phase' = [phase EXCEPT ![s] = "lost"]
        /\ block_tables' = block_tables /\ prefix_length' = prefix_length
    BY <1>5 DEF ReorderFails
  <2>2. \A u \in Slots \ {s} : /\ phase'[u] = phase[u] /\ prefix_length'[u] = prefix_length[u]
                               /\ block_tables'[u] = block_tables[u]
    BY <1>1, <2>1 DEF Types
  <2>3. SameElsewhere(pool', pool, block_tables[s], free_pages)
    BY <1>5, ReorderFailsKeeps DEF Hypos
  <2>4. Kv' = [Kv EXCEPT ![s] = Kv'[s]]
    BY <2>1, <2>2, <2>3, KvOnly
  <2>5. QED  BY <2>1, <2>4, LossImplements
<1>6. ASSUME NEW s \in Slots, NEW hypo \in [Rows -> Rows], PagedStep(s, hypo)
      PROVE  KV!Step(s) \/ KV!Lose(s)
  <2>1. /\ SameElsewhere(pool', pool, block_tables[s], free_pages)
        /\ \A u \in Slots \ {s} : block_tables'[u] = block_tables[u]
        /\ StepDone(s, hypo) \/ StepLost(s)
    BY <1>6, PagedStepKeeps DEF Hypos
  <2>2. phase[s] = "open"
    BY <1>6 DEF PagedStep
  <2>3. CASE StepDone(s, hypo)
    <3>1. phase' = phase /\ \A u \in Slots \ {s} : prefix_length'[u] = prefix_length[u]
      BY <1>1, <2>3 DEF StepDone, Types
    <3>2. Kv' = [Kv EXCEPT ![s] = Kv'[s]]
      BY <2>1, <2>2, <3>1, KvOnly
    <3>3. QED  BY <2>2, <2>3, <3>2, StepImplements DEF Hypos
  <2>4. CASE StepLost(s)
    <3>1. /\ phase' = [phase EXCEPT ![s] = "lost"]
          /\ \A u \in Slots \ {s} : phase'[u] = phase[u] /\ prefix_length'[u] = prefix_length[u]
      BY <1>1, <2>4 DEF StepLost, Types
    <3>2. Kv' = [Kv EXCEPT ![s] = Kv'[s]]
      BY <2>1, <2>2, <3>1, KvOnly
    <3>3. QED  BY <2>2, <3>1, <3>2, LossImplements
  <2>5. QED  BY <2>1, <2>3, <2>4
<1>7. QED  BY <1>2, <1>3, <1>4, <1>5, <1>6 DEF PoolNext, KV!Next

\* gather returns, for each open slot, what an unpaged cache would hold: the rows
\* that hypo_ids selects up to the prefix of the step, then the tokens of the step.
THEOREM PoolImplementsStore ==
  PoolSpec => ImplementsKVStore
<1>1. PoolInit => KV!Init
  BY DEF PoolInit, KV!Init
<1>2. QED  BY <1>1, InvAlways, NextImplements, PTL DEF PoolSpec, ImplementsKVStore, KV!Spec

--------------------------------------------------------------------------------
(* The inductive invariant of admission *)

HIDE PagedKVPoolAssumption
USE PagedAdmissionAssumption

Messages == [tag : {"paged_register", "paged_free"}, session : Sessions]

\* Every message comes from a session that was admitted; paged_free from one that has
\* ended, and of the messages of such a session it is the last.
PipeOK(s) ==
  \A i \in 1 .. Len(pipe) : pipe[i].session = s =>
    /\ pc[s] \in {"open", "closed"}
    /\ pipe[i].tag = "paged_free" => pc[s] = "closed"
    /\ pc[s] = "closed" /\ pipe[i].tag = "paged_register" =>
         \E j \in i + 1 .. Len(pipe) : pipe[j] = Message("paged_free", s)

Sent(tag, s) == \E i \in 1 .. Len(pipe) : pipe[i] = Message(tag, s)

\* The slots of an open session are known to the runtime or about to be; those of a
\* session that has ended are about to be forgotten.
SessionOK(s) ==
  /\ s \in registered \cup submitted \cup {running} \/ result[s] # "none" =>
       pc[s] \in {"open", "closed"}
  /\ pages[s] > 0 => s \in registered
  /\ pc[s] = "open" => s \in registered \/ Sent("paged_register", s)
  /\ pc[s] = "closed" /\ s \in registered => Sent("paged_free", s)
  /\ result[s] = "keyerror" => pc[s] = "closed"
  /\ s \in submitted \cup {running} => result[s] \in {"none", "ok"}
  /\ s = running => s \notin submitted

\* The counts are true, and only a reorder that ran dry has lost pages.
PagesInv ==
  /\ TotalPages <= NumPages /\ PublishedCountExact
  /\ lost > 0 => \E s \in Sessions : result[s] = "dry"

AdmissionInv == TypeOK /\ PagesInv /\ \A s \in Sessions : PipeOK(s) /\ SessionOK(s)

--------------------------------------------------------------------------------
(* Pages *)

PagesOwned(f) == UNION {{s} \X (1 .. f[s]) : s \in Sessions}

\* The pages of finitely many sessions can be counted.
LEMMA PagesFinite ==
  ASSUME NEW f \in [Sessions -> Nat]
  PROVE  IsFiniteSet(PagesOwned(f)) /\ Cardinality(PagesOwned(f)) \in Nat
<1> DEFINE own(s) == {s} \X (1 .. f[s])
           parts == {own(s) : s \in Sessions}
           g == [s \in Sessions |-> own(s)]
<1>1. g \in Surjection(Sessions, parts)
  BY DEF Surjection
<1>2. IsFiniteSet(parts)
  <2> HIDE DEF parts, g
  <2>1. QED  BY <1>1, FS_Surjection
<1>3. \A t \in parts : IsFiniteSet(t)
  <2> TAKE t \in parts
  <2>1. PICK s \in Sessions : t = {s} \X (1 .. f[s])
    OBVIOUS
  <2>2. IsFiniteSet({s}) /\ f[s] \in Nat
    BY FS_Singleton
  <2>3. IsFiniteSet(1 .. f[s])
    BY <2>2, FS_Interval
  <2>4. QED  BY <2>1, <2>2, <2>3, FS_Product
<1>4. PagesOwned(f) = UNION parts
  BY DEF PagesOwned
<1>5. IsFiniteSet(PagesOwned(f))
  <2> HIDE DEF parts
  <2>1. QED  BY <1>2, <1>3, <1>4, FS_UNION
<1>6. QED  BY <1>5, FS_CardinalityType

\* What a session gets is added to their number.
LEMMA PagesAdd ==
  ASSUME NEW f \in [Sessions -> Nat], NEW s \in Sessions, NEW n \in Nat,
         NEW g, g = [f EXCEPT ![s] = @ + n]
  PROVE  Cardinality(PagesOwned(g)) = Cardinality(PagesOwned(f)) + n
<1> DEFINE new == {s} \X ((f[s] + 1) .. (f[s] + n))
<1>1. g \in [Sessions -> Nat] /\ \A t \in Sessions : g[t] = IF t = s THEN f[s] + n ELSE f[t]
  OBVIOUS
<1>2. PagesOwned(g) = PagesOwned(f) \cup new
  <2>1. ASSUME NEW x \in PagesOwned(g) PROVE x \in PagesOwned(f) \cup new
    <3>1. PICK t \in Sessions : x \in {t} \X (1 .. g[t])
      BY DEF PagesOwned
    <3>2. PICK k \in 1 .. g[t] : x = <<t, k>>
      BY <3>1
    <3>3. CASE t = s
      <4>1. k \in 1 .. f[s] \/ k \in (f[s] + 1) .. (f[s] + n)
        BY <1>1, <3>2, <3>3
      <4>2. QED  BY <3>2, <3>3, <4>1 DEF PagesOwned
    <3>4. CASE t # s
      BY <1>1, <3>1, <3>4 DEF PagesOwned
    <3>5. QED  BY <3>3, <3>4
  <2>2. ASSUME NEW x \in PagesOwned(f) PROVE x \in PagesOwned(g)
    <3>1. PICK t \in Sessions : x \in {t} \X (1 .. f[t])
      BY DEF PagesOwned
    <3>2. PICK k \in 1 .. f[t] : x = <<t, k>>
      BY <3>1
    <3>3. k \in 1 .. g[t]
      BY <1>1, <3>2
    <3>4. QED  BY <3>2, <3>3 DEF PagesOwned
  <2>3. ASSUME NEW x \in new PROVE x \in PagesOwned(g)
    <3>1. PICK k \in (f[s] + 1) .. (f[s] + n) : x = <<s, k>>
      OBVIOUS
    <3>2. k \in 1 .. g[s]
      BY <1>1, <3>1
    <3>3. QED  BY <3>1, <3>2 DEF PagesOwned
  <2>4. QED  BY <2>1, <2>2, <2>3
<1>3. PagesOwned(f) \cap new = {}
  <2> SUFFICES ASSUME NEW x \in PagesOwned(f), x \in new PROVE FALSE
    OBVIOUS
  <2>1. PICK k \in (f[s] + 1) .. (f[s] + n) : x = <<s, k>>
    OBVIOUS
  <2>2. PICK t \in Sessions : x \in {t} \X (1 .. f[t])
    BY DEF PagesOwned
  <2>3. t = s /\ k \in 1 .. f[s]
    BY <2>1, <2>2
  <2>4. QED  BY <2>1, <2>3
<1>4. IsFiniteSet(new) /\ Cardinality(new) = n
  <2> DEFINE range == (f[s] + 1) .. (f[s] + n)
  <2>1. IsFiniteSet({s}) /\ Cardinality({s}) = 1
    BY FS_Singleton
  <2>2. f[s] \in Nat /\ f[s] + 1 \in Int /\ f[s] + n \in Int
    OBVIOUS
  <2>3. /\ IsFiniteSet(range)
        /\ Cardinality(range) = IF f[s] + 1 > f[s] + n THEN 0 ELSE (f[s] + n) - (f[s] + 1) + 1
    BY <2>2, FS_Interval
  <2>4. Cardinality(range) = n
    BY <2>2, <2>3
  <2>5. new = {s} \X range
    OBVIOUS
  <2> HIDE DEF range, new
  <2>6. IsFiniteSet({s} \X range) /\ Cardinality({s} \X range) = Cardinality({s}) * Cardinality(range)
    BY <2>1, <2>3, FS_Product
  <2>7. Cardinality({s} \X range) = n
    BY <2>1, <2>4, <2>6
  <2>8. QED  BY <2>5, <2>6, <2>7
<1> HIDE DEF new
<1>5. IsFiniteSet(PagesOwned(f)) /\ Cardinality(PagesOwned(f)) \in Nat
  BY PagesFinite
<1>6. Cardinality(PagesOwned(f) \cup new)
        = Cardinality(PagesOwned(f)) + Cardinality(new) - Cardinality(PagesOwned(f) \cap new)
  BY <1>4, <1>5, FS_Union
<1>7. Cardinality(PagesOwned(f) \cap new) = 0
  BY <1>3, FS_EmptySet
<1>8. Cardinality(PagesOwned(f) \cup new) = Cardinality(PagesOwned(f)) + n
  BY <1>4, <1>5, <1>6, <1>7
<1>9. QED  BY <1>2, <1>8

\* With fewer pages of a session there are no more of them.
LEMMA PagesFewer ==
  ASSUME NEW f \in [Sessions -> Nat], NEW g \in [Sessions -> Nat],
         \A s \in Sessions : g[s] <= f[s]
  PROVE  Cardinality(PagesOwned(g)) <= Cardinality(PagesOwned(f))
<1>1. ASSUME NEW x \in PagesOwned(g) PROVE x \in PagesOwned(f)
  <2>1. PICK t \in Sessions : x \in {t} \X (1 .. g[t])
    BY DEF PagesOwned
  <2>2. PICK k \in 1 .. g[t] : x = <<t, k>>
    BY <2>1
  <2>3. k \in 1 .. f[t]
    <3>1. g[t] \in Nat /\ f[t] \in Nat /\ g[t] <= f[t]
      OBVIOUS
    <3>2. QED  BY <2>2, <3>1
  <2>4. QED  BY <2>2, <2>3 DEF PagesOwned
<1>2. PagesOwned(g) \subseteq PagesOwned(f)
  BY <1>1
<1>3. QED  BY <1>2, PagesFinite, FS_Subset

\* No session has more than all of them.
LEMMA PagesOfOne ==
  ASSUME NEW f \in [Sessions -> Nat], NEW s \in Sessions
  PROVE  f[s] <= Cardinality(PagesOwned(f))
<1> DEFINE rest == [f EXCEPT ![s] = 0]
<1>1. rest \in [Sessions -> Nat]
  OBVIOUS
<1>2. f = [rest EXCEPT ![s] = @ + f[s]]
  <2>1. rest[s] = 0 /\ f[s] \in Nat
    OBVIOUS
  <2>2. rest[s] + f[s] = f[s]
    BY <2>1
  <2>3. f = [rest EXCEPT ![s] = f[s]]
    OBVIOUS
  <2>4. QED  BY <2>2, <2>3
<1> HIDE DEF rest
<1>3. Cardinality(PagesOwned(f)) = Cardinality(PagesOwned(rest)) + f[s]
  BY <1>1, <1>2, PagesAdd
<1>4. QED  BY <1>1, <1>3, PagesFinite

\* How TotalPages and Granted are built from it.
LEMMA TotalFacts ==
  /\ TotalPages = Cardinality(PagesOwned(pages)) + lost
  /\ TotalPages' = Cardinality(PagesOwned(pages')) + lost'
BY DEF TotalPages, PagesOwned

--------------------------------------------------------------------------------
(* Messages *)

\* What the pipe holds after a message is sent.
LEMMA SendFacts ==
  ASSUME NEW q \in Seq(Messages), NEW m \in Messages
  PROVE  /\ Append(q, m) \in Seq(Messages) /\ Len(q) \in Nat
         /\ Len(Append(q, m)) = Len(q) + 1
         /\ \A i \in 1 .. Len(q) : Append(q, m)[i] = q[i]
         /\ Append(q, m)[Len(q) + 1] = m
  BY AppendProperties, LenProperties

\* What it holds after one is received.
LEMMA ReceiveFacts ==
  ASSUME NEW q \in Seq(Messages), q # << >>
  PROVE  /\ Head(q) \in Messages /\ Head(q) = q[1] /\ Len(q) \in Nat /\ Len(q) >= 1
         /\ Tail(q) \in Seq(Messages)
         /\ Len(Tail(q)) = Len(q) - 1
         /\ \A i \in 1 .. Len(q) - 1 : Tail(q)[i] = q[i + 1]
  BY HeadTailProperties, EmptySeq, LenProperties, ElementOfSeq

\* Messages of other sessions leave a session as it is.
LEMMA SendKeepsOther ==
  ASSUME AdmissionInv, NEW s \in Sessions, NEW m \in Messages, m.session # s,
         pipe' = Append(pipe, m), pc'[s] = pc[s],
         UNCHANGED <<registered, submitted, running, pages, result>>
  PROVE  PipeOK(s)' /\ SessionOK(s)'
<1>1. pipe \in Seq(Messages) /\ PipeOK(s) /\ SessionOK(s)
  BY DEF AdmissionInv, TypeOK, Messages
<1>2. /\ Len(pipe) \in Nat /\ Len(pipe') = Len(pipe) + 1
      /\ \A i \in 1 .. Len(pipe) : pipe'[i] = pipe[i]
      /\ pipe'[Len(pipe) + 1] = m
  BY <1>1, SendFacts
<1>3. PipeOK(s)'
  <2> SUFFICES ASSUME NEW i \in 1 .. Len(pipe'), pipe'[i].session = s
               PROVE  /\ pc[s] \in {"open", "closed"}
                      /\ pipe'[i].tag = "paged_free" => pc[s] = "closed"
                      /\ pc[s] = "closed" /\ pipe'[i].tag = "paged_register" =>
                           \E j \in i + 1 .. Len(pipe') : pipe'[j] = Message("paged_free", s)
    BY DEF PipeOK
  <2>1. i \in 1 .. Len(pipe) /\ pipe'[i] = pipe[i]
    BY <1>2
  <2>2. ASSUME NEW j \in i + 1 .. Len(pipe), pipe[j] = Message("paged_free", s)
        PROVE  \E k \in i + 1 .. Len(pipe') : pipe'[k] = Message("paged_free", s)
    <3>1. j \in i + 1 .. Len(pipe') /\ pipe'[j] = pipe[j]
      BY <1>2, <2>1
    <3>2. QED  BY <2>2, <3>1
  <2>3. QED  BY <1>1, <2>1, <2>2 DEF PipeOK
<1>4. \A tag : Sent(tag, s) => Sent(tag, s)'
  BY <1>2 DEF Sent
<1>5. QED  BY <1>1, <1>3, <1>4 DEF SessionOK

\* A session receives nothing of its own: the pipe is as before for it.
LEMMA ReceiveKeepsOther ==
  ASSUME AdmissionInv, NEW s \in Sessions, pipe # << >>, pipe[1].session # s,
         pipe' = Tail(pipe), pc'[s] \in {"open", "closed"} \/ pc[s] \in {"open", "closed"} => pc'[s] = pc[s],
         s \in registered' <=> s \in registered, pages'[s] = pages[s],
         UNCHANGED <<submitted, running, result>>
  PROVE  PipeOK(s)' /\ SessionOK(s)'
<1>1. pipe \in Seq(Messages) /\ PipeOK(s) /\ SessionOK(s)
  BY DEF AdmissionInv, TypeOK, Messages
<1>2. /\ Len(pipe) \in Nat /\ Len(pipe) >= 1 /\ Len(pipe') = Len(pipe) - 1
      /\ \A i \in 1 .. Len(pipe) - 1 : pipe'[i] = pipe[i + 1]
  BY <1>1, ReceiveFacts
<1>3. PipeOK(s)'
  <2> SUFFICES ASSUME NEW i \in 1 .. Len(pipe'), pipe'[i].session = s
               PROVE  /\ pc'[s] \in {"open", "closed"}
                      /\ pipe'[i].tag = "paged_free" => pc'[s] = "closed"
                      /\ pc'[s] = "closed" /\ pipe'[i].tag = "paged_register" =>
                           \E j \in i + 1 .. Len(pipe') : pipe'[j] = Message("paged_free", s)
    BY DEF PipeOK
  <2>1. i + 1 \in 1 .. Len(pipe) /\ pipe'[i] = pipe[i + 1]
    BY <1>2
  <2>2. ASSUME NEW j \in i + 2 .. Len(pipe), pipe[j] = Message("paged_free", s)
        PROVE  \E k \in i + 1 .. Len(pipe') : pipe'[k] = Message("paged_free", s)
    <3>1. j - 1 \in i + 1 .. Len(pipe') /\ pipe'[j - 1] = pipe[j]
      BY <1>2, <2>1
    <3>2. QED  BY <2>2, <3>1
  <2>3. pc'[s] = pc[s] /\ pc[s] \in {"open", "closed"}
    BY <1>1, <2>1 DEF PipeOK
  <2>4. (i + 1) + 1 = i + 2
    BY <1>2
  <2>5. QED  BY <1>1, <2>1, <2>2, <2>3, <2>4 DEF PipeOK
<1>4. \A tag : Sent(tag, s) => Sent(tag, s)'
  <2> SUFFICES ASSUME NEW tag, NEW i \in 1 .. Len(pipe), pipe[i] = Message(tag, s)
               PROVE  Sent(tag, s)'
    BY DEF Sent
  <2>1. i # 1
    BY DEF Message
  <2>2. i - 1 \in 1 .. Len(pipe') /\ pipe'[i - 1] = pipe[i]
    BY <1>2, <2>1
  <2>3. QED  BY <2>2 DEF Sent
<1>5. QED  BY <1>1, <1>3, <1>4 DEF SessionOK

--------------------------------------------------------------------------------
(* The handler of a session *)

PcStates == {"new", "testing", "parking", "blocked", "clearing", "registering",
             "open", "closed", "refused"}

\* No session has sent anything, nor has a page.
LEMMA AdmissionInitInv == Init => AdmissionInv
<1> SUFFICES ASSUME Init PROVE AdmissionInv
  OBVIOUS
<1>1. /\ pc = [s \in Sessions |-> "new"] /\ pages = [s \in Sessions |-> 0]
      /\ pipe = << >> /\ registered = {} /\ submitted = {} /\ running = Nobody
      /\ result = [s \in Sessions |-> "none"] /\ used_pages = 0 /\ freed_event = FALSE /\ lost = 0
  BY DEF Init
<1>2. TotalPages = 0
  <2>1. PagesOwned(pages) = {}
    BY <1>1 DEF PagesOwned
  <2>2. QED  BY <1>1, <2>1, FS_EmptySet, TotalFacts
<1>3. TypeOK
  <2>1. pipe \in Seq(Messages)
    BY <1>1, EmptySeq
  <2>2. 0 \in 0 .. NumPages
    OBVIOUS
  <2>3. pages \in [Sessions -> 0 .. NumPages] /\ used_pages \in 0 .. NumPages /\ lost \in 0 .. NumPages
    BY <1>1, <2>2
  <2>4. QED  BY <1>1, <2>1, <2>3 DEF TypeOK, Messages
<1>4. ASSUME NEW s \in Sessions PROVE PipeOK(s) /\ SessionOK(s)
  <2>1. Len(pipe) = 0
    BY <1>1
  <2>2. QED  BY <1>1, <2>1 DEF PipeOK, SessionOK
<1>5. QED  BY <1>1, <1>2, <1>3, <1>4 DEF AdmissionInv, PagesInv, PublishedCountExact

\* Waiting for room concerns no other part of the state.
LEMMA WaitKeepsInv ==
  ASSUME AdmissionInv, UNCHANGED <<pipe, submitted, runtimeVars>>,
         freed_event' \in BOOLEAN, pc' \in [Sessions -> PcStates],
         \A s \in Sessions : pc[s] \in {"open", "closed"} \/ pc'[s] \in {"open", "closed"} =>
           pc'[s] = pc[s]
  PROVE  AdmissionInv'
<1>1. /\ TypeOK /\ PagesInv
      /\ UNCHANGED <<pipe, submitted, registered, pages, lost, running, result, used_pages>>
  BY DEF AdmissionInv, runtimeVars
<1>2. TypeOK'
  BY <1>1 DEF TypeOK, PcStates
<1>3. PagesInv'
  BY <1>1, TotalFacts DEF PagesInv, PublishedCountExact
<1>4. ASSUME NEW s \in Sessions PROVE PipeOK(s)' /\ SessionOK(s)'
  <2>1. PipeOK(s) /\ SessionOK(s)
    BY DEF AdmissionInv
  <2>2. PipeOK(s)'
    BY <1>1, <2>1 DEF PipeOK
  <2>3. SessionOK(s)'
    BY <1>1, <2>1 DEF SessionOK, Sent
  <2>4. QED  BY <2>2, <2>3
<1>5. QED  BY <1>2, <1>3, <1>4 DEF AdmissionInv

\* has_room(), and the wait for the event.
LEMMA WaitingKeepsInv ==
  ASSUME AdmissionInv, NEW s \in Sessions, TestRoom(s) \/ Wait(s)
  PROVE  AdmissionInv'
<1>1. pc \in [Sessions -> PcStates] /\ freed_event \in BOOLEAN
  BY DEF AdmissionInv, TypeOK, PcStates
<1>2. PICK step \in PcStates \ {"open", "closed"} : pc' = [pc EXCEPT ![s] = step]
  <2>1. CASE TestRoom(s)
    BY <2>1 DEF TestRoom, PcStates
  <2>2. CASE ParkOnEvent(s)
    BY <2>2 DEF ParkOnEvent, Goto, PcStates
  <2>3. CASE WaitTimesOut(s) \/ ClearEvent(s)
    BY <2>3 DEF WaitTimesOut, ClearEvent, Goto, PcStates
  <2>4. QED  BY <2>1, <2>2, <2>3 DEF Wait
<1>3. pc[s] \notin {"open", "closed"} /\ freed_event' \in BOOLEAN
  BY <1>1 DEF TestRoom, Wait, ParkOnEvent, WaitTimesOut, ClearEvent, Goto
<1>4. UNCHANGED <<pipe, submitted, runtimeVars>>
  BY DEF TestRoom, Wait, ParkOnEvent, WaitTimesOut, ClearEvent
<1>5. pc' \in [Sessions -> PcStates] /\ \A t \in Sessions : pc'[t] = IF t = s THEN step ELSE pc[t]
  BY <1>1, <1>2
<1>6. \A t \in Sessions : pc[t] \in {"open", "closed"} \/ pc'[t] \in {"open", "closed"} =>
        pc'[t] = pc[t]
  BY <1>2, <1>3, <1>5
<1>7. QED  BY <1>3, <1>4, <1>5, <1>6, WaitKeepsInv

\* A message of one session is sent.
LEMMA SendKeepsInv ==
  ASSUME AdmissionInv, NEW s \in Sessions, NEW tag \in {"paged_register", "paged_free"},
         NEW from, NEW to \in PcStates, Goto(s, from, to),
         pipe' = Append(pipe, Message(tag, s)),
         UNCHANGED <<freed_event, submitted, runtimeVars>>,
         PipeOK(s)' /\ SessionOK(s)'
  PROVE  AdmissionInv'
<1>1. /\ TypeOK /\ PagesInv /\ pipe \in Seq(Messages)
      /\ UNCHANGED <<freed_event, submitted, registered, pages, lost, running, result, used_pages>>
  BY DEF AdmissionInv, runtimeVars, TypeOK, Messages
<1>2. pc' \in [Sessions -> PcStates] /\ \A t \in Sessions : pc'[t] = IF t = s THEN to ELSE pc[t]
  BY <1>1 DEF Goto, TypeOK, PcStates
<1>3. Message(tag, s) \in Messages /\ Message(tag, s).session = s
  BY DEF Message, Messages
<1>4. TypeOK'
  <2>1. pipe' \in Seq(Messages)
    BY <1>1, <1>3, SendFacts
  <2>2. QED  BY <1>1, <1>2, <2>1 DEF TypeOK, PcStates, Messages
<1>5. PagesInv'
  BY <1>1, TotalFacts DEF PagesInv, PublishedCountExact
<1>6. ASSUME NEW t \in Sessions, t # s PROVE PipeOK(t)' /\ SessionOK(t)'
  BY <1>1, <1>2, <1>3, <1>6, SendKeepsOther
<1>7. QED  BY <1>4, <1>5, <1>6 DEF AdmissionInv

\* The first message of a session: its slots are about to be known.
LEMMA RegisterKeepsInv ==
  ASSUME AdmissionInv, NEW s \in Sessions, Register(s)
  PROVE  AdmissionInv'
<1>1. /\ TypeOK /\ PipeOK(s) /\ SessionOK(s) /\ pipe \in Seq(Messages)
      /\ UNCHANGED <<submitted, registered, pages, running, result>>
  BY DEF AdmissionInv, TypeOK, Messages, Register, runtimeVars
<1>2. pc[s] = "registering" /\ pc'[s] = "open"
  BY <1>1 DEF Register, Goto, TypeOK
<1>3. Message("paged_register", s) \in Messages
  BY DEF Message, Messages
<1>4. /\ pipe' = Append(pipe, Message("paged_register", s))
      /\ Len(pipe) \in Nat /\ Len(pipe') = Len(pipe) + 1
      /\ \A i \in 1 .. Len(pipe) : pipe'[i] = pipe[i]
      /\ pipe'[Len(pipe) + 1] = Message("paged_register", s)
  BY <1>1, <1>3, SendFacts DEF Register
<1>5. PipeOK(s)'
  <2> SUFFICES ASSUME NEW i \in 1 .. Len(pipe'), pipe'[i].session = s
               PROVE  pipe'[i].tag # "paged_free"
    BY <1>2 DEF PipeOK
  <2>1. i = Len(pipe) + 1
    BY <1>1, <1>2, <1>4 DEF PipeOK
  <2>2. QED  BY <1>4, <2>1 DEF Message
<1>6. SessionOK(s)'
  <2>1. Len(pipe) + 1 \in 1 .. Len(pipe')
    BY <1>4
  <2>2. Sent("paged_register", s)'
    BY <1>4, <2>1 DEF Sent
  <2>3. QED  BY <1>1, <1>2, <2>2 DEF SessionOK
<1>7. QED  BY <1>5, <1>6, SendKeepsInv DEF Register, PcStates

\* The last one: no order of messages makes the runtime forget to forget them.
LEMMA CloseKeepsInv ==
  ASSUME AdmissionInv, NEW s \in Sessions, Close(s)
  PROVE  AdmissionInv'
<1>1. /\ TypeOK /\ PipeOK(s) /\ SessionOK(s) /\ pipe \in Seq(Messages)
      /\ UNCHANGED <<submitted, registered, pages, running, result>>
  BY DEF AdmissionInv, TypeOK, Messages, Close, runtimeVars
<1>2. pc[s] = "open" /\ pc'[s] = "closed"
  BY <1>1 DEF Close, Goto, TypeOK
<1>3. Message("paged_free", s) \in Messages
  BY DEF Message, Messages
<1>4. /\ pipe' = Append(pipe, Message("paged_free", s))
      /\ Len(pipe) \in Nat /\ Len(pipe') = Len(pipe) + 1
      /\ \A i \in 1 .. Len(pipe) : pipe'[i] = pipe[i]
      /\ pipe'[Len(pipe) + 1] = Message("paged_free", s)
  BY <1>1, <1>3, SendFacts DEF Close
<1>5. PipeOK(s)'
  <2> SUFFICES ASSUME NEW i \in 1 .. Len(pipe'), pipe'[i].tag = "paged_register"
               PROVE  \E j \in i + 1 .. Len(pipe') : pipe'[j] = Message("paged_free", s)
    BY <1>2 DEF PipeOK
  <2>1. i # Len(pipe) + 1
    BY <1>4 DEF Message
  <2>2. Len(pipe) + 1 \in i + 1 .. Len(pipe')
    BY <1>4, <2>1
  <2>3. QED  BY <1>4, <2>2
<1>6. SessionOK(s)'
  <2>1. Len(pipe) + 1 \in 1 .. Len(pipe')
    BY <1>4
  <2>2. Sent("paged_free", s)'
    BY <1>4, <2>1 DEF Sent
  <2>3. QED  BY <1>1, <1>2, <2>2 DEF SessionOK
<1>7. QED  BY <1>5, <1>6, SendKeepsInv DEF Close, PcStates

--------------------------------------------------------------------------------
(* The runtime *)

\* Nothing is sent or received, and no page given out, when the handler queues a step
\* or the runtime takes one up.
LEMMA QueueKeepsInv ==
  ASSUME AdmissionInv, NEW s \in Sessions,
         pc[s] \in {"open", "closed"}, result[s] \in {"none", "ok"},
         UNCHANGED <<handlerVars, freed_event, registered, pages, lost, result, used_pages>>,
         \/ submitted' = submitted \cup {s} /\ running' = running /\ running # s
         \/ submitted' = submitted \ {s} /\ running' = s
  PROVE  AdmissionInv'
<1>1. /\ TypeOK /\ PagesInv
      /\ UNCHANGED <<pc, pipe, freed_event, registered, pages, lost, result, used_pages>>
  BY DEF AdmissionInv, handlerVars
<1>2. TypeOK'
  BY <1>1 DEF TypeOK
<1>3. PagesInv'
  BY <1>1, TotalFacts DEF PagesInv, PublishedCountExact
<1>4. ASSUME NEW t \in Sessions PROVE PipeOK(t)' /\ SessionOK(t)'
  <2>1. PipeOK(t) /\ SessionOK(t)
    BY DEF AdmissionInv
  <2>2. PipeOK(t)'
    BY <1>1, <2>1 DEF PipeOK
  <2>3. SessionOK(t)'
    BY <1>1, <2>1 DEF SessionOK, Sent
  <2>4. QED  BY <2>2, <2>3
<1>5. QED  BY <1>2, <1>3, <1>4 DEF AdmissionInv

\* The slots of a session become known.
LEMMA DrainRegisterKeepsInv ==
  ASSUME AdmissionInv, DrainRegister
  PROVE  AdmissionInv'
<1>1. /\ TypeOK /\ PagesInv /\ pipe \in Seq(Messages) /\ pipe # << >> /\ pipe' = Tail(pipe)
      /\ UNCHANGED <<pc, freed_event, submitted, pages, lost, running, result, used_pages>>
      /\ running # Nobody
  BY DEF AdmissionInv, TypeOK, Messages, DrainRegister
<1>2. /\ pipe[1] \in Messages /\ Len(pipe) \in Nat /\ Len(pipe) >= 1
      /\ pipe' \in Seq(Messages) /\ Len(pipe') = Len(pipe) - 1
      /\ \A i \in 1 .. Len(pipe) - 1 : pipe'[i] = pipe[i + 1]
      /\ Head(pipe) = pipe[1]
  BY <1>1, ReceiveFacts
<1>3. PICK s \in Sessions :
      /\ pipe[1] = Message("paged_register", s) /\ pipe[1].session = s
      /\ registered' = registered \cup {s} /\ pipe[1].tag = "paged_register"
  BY <1>2 DEF DrainRegister, Messages, Message
<1>4. TypeOK'
  BY <1>1, <1>2, <1>3 DEF TypeOK, Messages
<1>5. PagesInv'
  BY <1>1, TotalFacts DEF PagesInv, PublishedCountExact
<1>6. ASSUME NEW t \in Sessions, t # s PROVE PipeOK(t)' /\ SessionOK(t)'
  <2>1. t \in registered' <=> t \in registered
    BY <1>3, <1>6
  <2>2. pipe[1].session # t /\ pc'[t] = pc[t] /\ pages'[t] = pages[t]
    BY <1>1, <1>3, <1>6
  <2>3. QED  BY <1>1, <2>1, <2>2, ReceiveKeepsOther, Zenon
<1>7. PipeOK(s)' /\ SessionOK(s)'
  <2>1. PipeOK(s) /\ SessionOK(s)
    BY <1>3 DEF AdmissionInv
  <2>2. 1 \in 1 .. Len(pipe)
    BY <1>2
  <2>3. /\ pc[s] \in {"open", "closed"}
        /\ pc[s] = "closed" => \E j \in 1 + 1 .. Len(pipe) : pipe[j] = Message("paged_free", s)
    BY <1>3, <2>1, <2>2 DEF PipeOK
  <2>4. ASSUME NEW i \in Nat, NEW j \in i + 1 .. Len(pipe), i >= 1,
               pipe[j] = Message("paged_free", s)
        PROVE  \E k \in i .. Len(pipe') : pipe'[k] = Message("paged_free", s)
    <3>1. j - 1 \in i .. Len(pipe') /\ pipe'[j - 1] = pipe[j]
      BY <1>2, <2>4
    <3>2. QED  BY <2>4, <3>1
  <2>5. PipeOK(s)'
    <3> SUFFICES ASSUME NEW i \in 1 .. Len(pipe'), pipe'[i].session = s
                 PROVE  /\ pipe'[i].tag = "paged_free" => pc[s] = "closed"
                        /\ pc[s] = "closed" /\ pipe'[i].tag = "paged_register" =>
                             \E j \in i + 1 .. Len(pipe') : pipe'[j] = Message("paged_free", s)
      BY <1>1, <2>3 DEF PipeOK
    <3>1. i + 1 \in 1 .. Len(pipe) /\ pipe'[i] = pipe[i + 1] /\ i + 1 \in Nat /\ i + 1 >= 1
      BY <1>2
    <3>2. QED  BY <2>1, <2>4, <3>1 DEF PipeOK
  <2>6. SessionOK(s)'
    <3>1. ASSUME pc[s] = "closed"
          PROVE  \E k \in 1 .. Len(pipe') : pipe'[k] = Message("paged_free", s)
      <4>1. PICK j \in 1 + 1 .. Len(pipe) : pipe[j] = Message("paged_free", s)
        BY <2>3, <3>1
      <4>2. j - 1 \in 1 .. Len(pipe') /\ pipe'[j - 1] = pipe[j]
        BY <1>2
      <4>3. QED  BY <4>1, <4>2
    <3>2. pc[s] = "closed" => Sent("paged_free", s)'
      BY <3>1 DEF Sent
    <3>3. QED  BY <1>1, <1>3, <2>1, <2>3, <3>2 DEF SessionOK
  <2>7. QED  BY <2>5, <2>6
<1>8. QED  BY <1>4, <1>5, <1>6, <1>7 DEF AdmissionInv

\* They are forgotten, with their pages: the session has ended.
LEMMA DrainFreeKeepsInv ==
  ASSUME AdmissionInv, DrainFree
  PROVE  AdmissionInv'
<1>1. /\ TypeOK /\ PagesInv /\ pipe \in Seq(Messages) /\ pipe # << >> /\ pipe' = Tail(pipe)
      /\ UNCHANGED <<lost, submitted, running, result, used_pages>>
      /\ running # Nobody /\ freed_event' = TRUE
      /\ pc' = [t \in Sessions |-> IF pc[t] = "blocked" THEN "clearing" ELSE pc[t]]
  BY DEF AdmissionInv, TypeOK, Messages, DrainFree
<1>2. /\ pipe[1] \in Messages /\ Len(pipe) \in Nat /\ Len(pipe) >= 1
      /\ pipe' \in Seq(Messages) /\ Len(pipe') = Len(pipe) - 1
      /\ \A i \in 1 .. Len(pipe) - 1 : pipe'[i] = pipe[i + 1]
      /\ Head(pipe) = pipe[1]
  BY <1>1, ReceiveFacts
<1>3. PICK s \in Sessions :
      /\ pipe[1] = Message("paged_free", s) /\ pipe[1].session = s
      /\ registered' = registered \ {s} /\ pipe[1].tag = "paged_free"
      /\ pages' = [pages EXCEPT ![s] = 0]
  BY <1>2 DEF DrainFree, Messages, Message
<1>4. TypeOK'
  <2>1. 0 \in 0 .. NumPages
    OBVIOUS
  <2>2. pc' \in [Sessions -> PcStates]
    BY <1>1 DEF TypeOK, PcStates
  <2>3. QED  BY <1>1, <1>2, <1>3, <2>1, <2>2 DEF TypeOK, Messages, PcStates
<1>5. PagesInv'
  <2>1. pages \in [Sessions -> Nat] /\ pages' \in [Sessions -> Nat]
    BY <1>1, <1>4 DEF TypeOK
  <2>2. \A t \in Sessions : pages'[t] <= pages[t]
    BY <1>3, <2>1
  <2>3. Cardinality(PagesOwned(pages')) <= Cardinality(PagesOwned(pages))
    BY <2>1, <2>2, PagesFewer
  <2>4. Cardinality(PagesOwned(pages)) \in Nat /\ Cardinality(PagesOwned(pages')) \in Nat
    BY <2>1, PagesFinite
  <2>5. lost \in Nat
    BY <1>1 DEF TypeOK
  <2>6. TotalPages' <= NumPages
    BY <1>1, <2>5, <2>3, <2>4, TotalFacts DEF PagesInv
  <2>7. QED  BY <1>1, <2>6 DEF PagesInv, PublishedCountExact
<1>6. \A t \in Sessions :
        pc'[t] \in {"open", "closed"} \/ pc[t] \in {"open", "closed"} => pc'[t] = pc[t]
  BY <1>1
<1>7. ASSUME NEW t \in Sessions, t # s PROVE PipeOK(t)' /\ SessionOK(t)'
  <2>1. (t \in registered' <=> t \in registered) /\ pages'[t] = pages[t]
    BY <1>1, <1>3, <1>7 DEF TypeOK
  <2>2. pipe[1].session # t /\ (pc'[t] \in {"open", "closed"} \/ pc[t] \in {"open", "closed"} => pc'[t] = pc[t])
    BY <1>3, <1>6, <1>7
  <2>3. QED  BY <1>1, <2>1, <2>2, ReceiveKeepsOther, Zenon
<1>8. PipeOK(s)' /\ SessionOK(s)'
  <2>1. PipeOK(s) /\ SessionOK(s)
    BY <1>3 DEF AdmissionInv
  <2>2. 1 \in 1 .. Len(pipe)
    BY <1>2
  <2>3. pc[s] = "closed" /\ pc'[s] = "closed"
    BY <1>3, <1>6, <2>1, <2>2 DEF PipeOK
  <2>4. PipeOK(s)'
    <3> SUFFICES ASSUME NEW i \in 1 .. Len(pipe'), pipe'[i].session = s,
                        pipe'[i].tag = "paged_register"
                 PROVE  \E j \in i + 1 .. Len(pipe') : pipe'[j] = Message("paged_free", s)
      BY <2>3 DEF PipeOK
    <3>1. i + 1 \in 1 .. Len(pipe) /\ pipe'[i] = pipe[i + 1]
      BY <1>2
    <3>2. PICK j \in (i + 1) + 1 .. Len(pipe) : pipe[j] = Message("paged_free", s)
      BY <2>1, <2>3, <3>1 DEF PipeOK
    <3>3. j - 1 \in i + 1 .. Len(pipe') /\ pipe'[j - 1] = pipe[j]
      BY <1>2
    <3>4. QED  BY <3>2, <3>3
  <2>5. pages'[s] = 0
    BY <1>1, <1>3 DEF TypeOK
  <2>6. QED  BY <1>1, <1>3, <2>1, <2>3, <2>4, <2>5 DEF SessionOK
<1>9. QED  BY <1>4, <1>5, <1>7, <1>8 DEF AdmissionInv

\* The ways in which a step can end
LEMMA UsePoolCases ==
  ASSUME AdmissionInv, NEW s \in Sessions, Use(s)
  PROVE  \E got, taken \in Nat, outcome \in {"ok", "full", "dry", "keyerror"} :
           /\ EndStep(s, got, taken, outcome)
           /\ TotalPages + got + taken <= NumPages
           /\ got > 0 => s \in registered
           /\ outcome = "keyerror" => s \notin registered
           /\ taken > 0 => outcome = "dry"
<1>1. PICK need \in 0 .. (MaxPages - pages[s]) : UsePool(s, need)
  BY DEF Use
<1>2. TotalPages \in Nat /\ need \in Nat /\ TotalPages <= NumPages /\ lost \in Nat
  <2>1. pages \in [Sessions -> Nat] /\ lost \in Nat
    BY DEF AdmissionInv, TypeOK
  <2>2. Cardinality(PagesOwned(pages)) \in Nat
    BY <2>1, PagesFinite
  <2>3. QED  BY <2>1, <2>2, TotalFacts DEF AdmissionInv, PagesInv
<1>3. CASE Scatter(s, need)
  <2>1. PICK got : got = Granted(s, need)
    OBVIOUS
  <2>2. PICK outcome \in {"ok", "full", "keyerror"} :
          /\ EndStep(s, got, 0, outcome)
          /\ outcome = "keyerror" => s \notin registered
    BY <1>3, <2>1, Zenon DEF Scatter
  <2>3. got \in Nat /\ TotalPages + got + 0 <= NumPages /\ (got > 0 => s \in registered)
    BY <1>2, <2>1 DEF Granted, Free
  <2>4. 0 \in Nat /\ ~(0 > 0)
    OBVIOUS
  <2>5. QED  BY <2>2, <2>3, <2>4
<1>4. CASE ReorderRunsDry(s, need)
  <2>1. PICK taken : taken = Free - need
    OBVIOUS
  <2>2. EndStep(s, need, taken, "dry") /\ s \in registered /\ need <= Free
    BY <1>4, <2>1 DEF ReorderRunsDry
  <2>3. taken \in Nat /\ TotalPages + need + taken <= NumPages
    BY <1>2, <2>1, <2>2 DEF Free
  <2>4. QED  BY <1>2, <2>2, <2>3
<1>5. QED  BY <1>1, <1>3, <1>4 DEF UsePool

\* A step gets pages of those that are free, and their number is published.
LEMMA UsePoolKeepsInv ==
  ASSUME AdmissionInv, NEW s \in Sessions, Use(s)
  PROVE  AdmissionInv'
<1>1. PICK got \in Nat, taken \in Nat, outcome \in {"ok", "full", "dry", "keyerror"} :
        /\ EndStep(s, got, taken, outcome)
        /\ TotalPages + got + taken <= NumPages
        /\ got > 0 => s \in registered
        /\ outcome = "keyerror" => s \notin registered
        /\ taken > 0 => outcome = "dry"
  BY UsePoolCases
<1>2. /\ TypeOK /\ PagesInv /\ running = s /\ pipe = << >>
      /\ pages' = [pages EXCEPT ![s] = @ + got] /\ lost' = lost + taken
      /\ used_pages' = TotalPages + got + taken /\ running' = Nobody
      /\ UNCHANGED <<pc, pipe, freed_event, submitted, registered>>
      /\ result' = [result EXCEPT ![s] = outcome]
  BY <1>1 DEF AdmissionInv, EndStep, handlerVars
<1>3. pages \in [Sessions -> Nat] /\ TotalPages \in Nat /\ lost \in Nat
  <2>1. pages \in [Sessions -> Nat] /\ lost \in Nat
    BY <1>2 DEF TypeOK
  <2>2. Cardinality(PagesOwned(pages)) \in Nat
    BY <2>1, PagesFinite
  <2>3. QED  BY <2>1, <2>2, TotalFacts
<1>5. TotalPages' = TotalPages + got + taken
  <2>1. PICK f, n : f = pages /\ n = got
    OBVIOUS
  <2>2. f \in [Sessions -> Nat] /\ n \in Nat /\ pages' = [f EXCEPT ![s] = @ + n]
    BY <1>2, <1>3, <2>1
  <2>3. Cardinality(PagesOwned(pages')) = Cardinality(PagesOwned(f)) + n
    BY <2>2, PagesAdd
  <2>4. Cardinality(PagesOwned(pages)) \in Nat
    BY <1>3, PagesFinite
  <2>5. QED  BY <1>2, <1>3, <2>1, <2>3, <2>4, TotalFacts
<1>6. PagesInv'
  <2>1. lost' > 0 => \E t \in Sessions : result'[t] = "dry"
    <3>1. CASE taken > 0
      BY <1>1, <1>2, <3>1 DEF TypeOK
    <3>2. CASE taken = 0 /\ lost = 0
      BY <1>2, <3>2
    <3>3. CASE taken = 0 /\ lost > 0
      <4>1. PICK t \in Sessions : result[t] = "dry"
        BY <1>2, <3>3 DEF PagesInv
      <4>2. CASE t # s
        BY <1>2, <4>1, <4>2 DEF TypeOK
      <4>3. t # s
        BY <1>2, <4>1 DEF AdmissionInv, SessionOK
      <4>4. QED  BY <4>2, <4>3
    <3>4. QED  BY <1>3, <3>1, <3>2, <3>3
  <2>2. TotalPages' <= NumPages
    BY <1>1, <1>5
  <2>3. PublishedCountExact'
    BY <1>2, <1>5 DEF PublishedCountExact
  <2>4. QED  BY <2>1, <2>2, <2>3 DEF PagesInv
<1>7. pages' \in [Sessions -> 0 .. NumPages] /\ lost' \in 0 .. NumPages
  <2>1. pages' \in [Sessions -> Nat] /\ lost' \in Nat
    BY <1>2, <1>3
  <2>2. \A t \in Sessions : pages'[t] <= Cardinality(PagesOwned(pages'))
    BY <2>1, PagesOfOne
  <2>3. Cardinality(PagesOwned(pages')) \in Nat
    BY <2>1, PagesFinite
  <2>4. TotalPages' \in Nat /\ TotalPages' <= NumPages
    BY <1>1, <1>3, <1>5
  <2>5. \A t \in Sessions : pages'[t] \in 0 .. NumPages
    BY <2>1, <2>2, <2>3, <2>4, TotalFacts
  <2>6. lost' \in 0 .. NumPages
    BY <2>1, <2>3, <2>4, TotalFacts
  <2>7. QED  BY <2>1, <2>5, <2>6
<1>8. TypeOK'
  <2>1. used_pages' \in 0 .. NumPages
    BY <1>1, <1>2, <1>3
  <2>2. QED  BY <1>2, <1>7, <2>1 DEF TypeOK
<1>9. ASSUME NEW t \in Sessions PROVE PipeOK(t)' /\ SessionOK(t)'
  <2>1. PipeOK(t) /\ SessionOK(t)
    BY DEF AdmissionInv
  <2>2. Len(pipe) = 0
    BY <1>2
  <2>3. PipeOK(t)'
    BY <1>2, <2>2 DEF PipeOK
  <2>4. \A tag : ~Sent(tag, t) /\ ~Sent(tag, t)'
    BY <1>2, <2>2 DEF Sent
  <2>5. CASE t # s
    <3>1. pages'[t] = pages[t] /\ result'[t] = result[t] /\ running' # t
      BY <1>2, <2>5 DEF TypeOK
    <3>2. QED  BY <1>2, <2>1, <2>3, <2>4, <3>1 DEF SessionOK
  <2>6. CASE t = s
    <3>1. pc[s] \in {"open", "closed"} /\ (pc[s] = "open" => s \in registered)
      BY <1>2, <2>1, <2>4, <2>6 DEF SessionOK
    <3>2. pages'[s] = pages[s] + got /\ (result'[s] = "keyerror" => s \notin registered)
      BY <1>1, <1>2 DEF TypeOK
    <3>3. running' # s /\ s \notin submitted'
      BY <1>2, <2>1, <2>6 DEF SessionOK, TypeOK
    <3>4. pages'[s] > 0 => s \in registered
      BY <1>1, <1>3, <2>1, <2>6, <3>2 DEF SessionOK
    <3>5. QED  BY <1>2, <2>1, <2>3, <2>4, <2>6, <3>1, <3>2, <3>3, <3>4 DEF SessionOK
  <2>7. QED  BY <2>5, <2>6
<1>10. QED  BY <1>6, <1>8, <1>9 DEF AdmissionInv

--------------------------------------------------------------------------------
(* Theorems *)

\* Every action keeps the invariant.
LEMMA AdmissionNextInv == AdmissionInv /\ [Next]_vars => AdmissionInv'
<1> SUFFICES ASSUME AdmissionInv, [Next]_vars PROVE AdmissionInv'
  OBVIOUS
<1>1. CASE DrainRegister
  BY <1>1, DrainRegisterKeepsInv
<1>2. CASE DrainFree
  BY <1>2, DrainFreeKeepsInv
<1>3. ASSUME NEW s \in Sessions, StartStep(s) PROVE AdmissionInv'
  <2>1. s \in submitted /\ SessionOK(s)
    BY <1>3 DEF AdmissionInv, StartStep
  <2>2. pc[s] \in {"open", "closed"} /\ result[s] \in {"none", "ok"}
    BY <2>1 DEF SessionOK
  <2>3. QED  BY <1>3, <2>2, QueueKeepsInv DEF StartStep
<1>4. ASSUME NEW s \in Sessions, SubmitStep(s) PROVE AdmissionInv'
  BY <1>4, QueueKeepsInv DEF SubmitStep, runtimeVars
<1>5. ASSUME NEW s \in Sessions, Use(s) \/ TestRoom(s) \/ Wait(s) \/ Register(s) \/ Close(s)
      PROVE  AdmissionInv'
  BY <1>5, UsePoolKeepsInv, WaitingKeepsInv, RegisterKeepsInv, CloseKeepsInv
<1>6. CASE UNCHANGED vars
  <2>1. UNCHANGED <<pipe, submitted, runtimeVars, pc, freed_event>>
    BY <1>6 DEF vars, handlerVars
  <2>2. pc \in [Sessions -> PcStates] /\ freed_event \in BOOLEAN
    BY DEF AdmissionInv, TypeOK, PcStates
  <2>3. QED  BY <2>1, <2>2, WaitKeepsInv
<1>7. QED  BY <1>1, <1>2, <1>3, <1>4, <1>5, <1>6 DEF Next, Runtime

\* The inductive invariant holds in every state.
THEOREM AdmissionInvHolds == Spec => []AdmissionInv
BY AdmissionInitInv, AdmissionNextInv, PTL DEF Spec

\* Page counts stay within the pool, and every variable keeps its type.
THEOREM AdmissionTypeCorrect == Spec => []TypeOK
<1>1. AdmissionInv => TypeOK
  BY DEF AdmissionInv
<1>2. QED  BY <1>1, AdmissionInvHolds, PTL

\* The count that admits sessions is the true one whenever no step is executed.
THEOREM CountExact == Spec => []PublishedCountExact
<1>1. AdmissionInv => PublishedCountExact
  BY DEF AdmissionInv, PagesInv
<1>2. QED  BY <1>1, AdmissionInvHolds, PTL

\* A step of an open session always finds its slots.
THEOREM OpenSessionsServed == Spec => []OpenSessionUsable
<1>1. AdmissionInv => OpenSessionUsable
  BY DEF AdmissionInv, SessionOK, OpenSessionUsable
<1>2. QED  BY <1>1, AdmissionInvHolds, PTL

\* Slots of a session that has ended, and the pages in their block tables, wait for a
\* message that is on its way; pages in no table were lost by a reorder that ran dry
\* (memory_cache.py, lines 313-317, 350-364, 513-519).
THEOREM PagesComeBack == Spec => []NoOrphanPages
<1>1. AdmissionInv => NoOrphanPages
  BY DEF AdmissionInv, PagesInv, SessionOK, NoOrphanPages, Sent
<1>2. QED  BY <1>1, AdmissionInvHolds, PTL
================================================================================
