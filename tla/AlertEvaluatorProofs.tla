------------------------ MODULE AlertEvaluatorProofs ------------------------
(***************************************************************************)
(* Proofs about AlertEvaluator for every set of groups and rows, every     *)
(* window, page and re-check size and every number of faults and toggles.  *)
(***************************************************************************)
EXTENDS AlertEvaluator, FiniteSetTheorems, FunctionTheorems, SequenceTheorems,
        NaturalsInduction, WellFoundedInduction, TLAPS

-----------------------------------------------------------------------------
(* The inductive invariant.                                                *)

\* Rows of active rules that nobody was told of, that nobody gave up and that no
\* delivery lost.
Owed == {r \in Rows \ (told \cup writtenOff \cup swallowed \cup unrendered) : r[1] \in active}

\* The window after a cursor at c still matches the row.
Ahead(r, c) ==
  \/ Height(r) > c
  \/ r \in LateRows /\ Height(r) > c - TRAILING_RECHECK_BLOCKS

\* How far the lane may say it has read once this window is delivered.
Covered == windowCoveredTo(window, IF tickSource = None THEN window.from ELSE tickSource)

\* The locals of a tick: a window is open exactly while groups are visited, starts
\* at or above the cursor and ends at or below the head.
TickInv ==
  /\ at \in {"source", "lane"} => tickHead \in 1..head
  /\ tickSource # None => tickSource \in 1..source
  /\ at # "visit" => window = None
  /\ at = "visit" => /\ window \in [from : 1..MaxHead, to : 1..MaxHead]
                     /\ cursor # None /\ cursor <= window.from /\ window.to <= head
                     /\ window.to - window.from \in 1..MAX_WINDOW_BLOCKS
  /\ queue \in Seq(keys)

\* Nothing the lane remembers is ahead of the head, and nothing is stored that is
\* not held.
MemoryInv ==
  /\ cursor = None => stored = None
  /\ \A g \in DOMAIN seen : seen[g] <= head

\* A late row still hidden is within the re-check's reach of the feeds.
SourceInv == \A r \in LateRows \ revealed : source = 1 \/ source < Height(r) + TRAILING_RECHECK_BLOCKS

\* The lane's cursor, its window and its note of each group leave every owed row
\* to a window still to come.
CursorOwes == cursor # None => \A r \in Owed : Ahead(r, cursor)
WindowOwes ==
  at = "visit" => \A r \in Owed : /\ Ahead(r, window.from)
                                  /\ r[1] \notin keys => Height(r) > head
SeenOwes == \A r \in Owed : r[1] \in DOMAIN seen => Ahead(r, seen[r[1]])
VisitOwes ==
  at = "visit" => \A r \in Owed : r[1] \in visited => r \in matches \/ Ahead(r, Covered)

\* A row's id stands for the row, and the inbox has every digest the dedup memory
\* has, whose ends were told.
TellInv ==
  /\ \A r \in Rows : RowId(r) \in remembered \cup inbox => r \in told
  /\ \A g \in Groups, a, b \in 1..MaxHead :
       <<g, "digest", a, b>> \in remembered \cup inbox =>
         <<g, "digest", a, b>> \in inbox /\ {<<g, a>>, <<g, b>>} \subseteq told

\* While nothing has failed the dedup memory knows every row that was told, and the
\* whole inbox unless an insert's answer was lost.
KnownInv ==
  /\ ~uncertain => inbox \subseteq remembered
  /\ faults = 0 => \A r \in told : RowId(r) \in remembered

\* Until a restart it knows the first row of each of its digests, so that none is
\* taken for another; one that is lies around the rows lost with it.
DigestInv ==
  /\ ~restarted =>
       /\ swallowed = {}
       /\ \A g \in Groups, a, b \in 1..MaxHead :
            <<g, "digest", a, b>> \in remembered => <<g, "row", a, a>> \in remembered
  /\ \A r \in swallowed : \E a, b \in 1..MaxHead :
       a < Height(r) /\ Height(r) < b /\ <<r[1], "digest", a, b>> \in inbox

IdInv == TellInv /\ KnownInv /\ DigestInv

IInv == /\ TypeOK /\ CursorBehind /\ faults \in Nat
        /\ TickInv /\ MemoryInv /\ SourceInv
        /\ CursorOwes /\ WindowOwes /\ SeenOwes /\ VisitOwes /\ IdInv

-----------------------------------------------------------------------------
(* The constants, extremes of sets of numbers, and ranks.                  *)

LEMMA ConstFacts ==
  /\ MaxHead \in Nat \ {0} /\ LateRows \subseteq Rows /\ None \notin Nat
  /\ MAX_WINDOW_BLOCKS \in Nat \ {0} /\ SOURCE_FETCH_CAP \in Nat \ {0}
  /\ INBOX_ROWS_PER_RULE \in Nat \ {0} /\ ACTIVITY_PAGE_WIDE \in Nat \ {0}
  /\ TRAILING_RECHECK_BLOCKS \in Nat /\ MaxTroubles \in Nat /\ Flushes \subseteq 1..MaxHead
  /\ IsFiniteSet(Groups) /\ KeyOrder \in [Groups -> Nat]
BY AlertAssumption

LEMMA RowFacts ==
  ASSUME NEW r \in Rows
  PROVE  /\ r[1] \in Groups /\ Height(r) \in 1..MaxHead /\ r = <<r[1], Height(r)>>
         /\ RowId(r) \in Ids
BY AlertAssumption DEF Height, RowId, Ids

\* A row's id names one row.
LEMMA RowIdInjective ==
  ASSUME NEW r \in Rows, NEW q \in Rows, RowId(r) = RowId(q)
  PROVE  r = q
<1>1. r[1] = q[1] /\ Height(r) = Height(q)
  BY DEF RowId
<1> QED
  BY <1>1, RowFacts

LEMMA Extremes ==
  ASSUME NEW a \in Int, NEW b \in Int
  PROVE  /\ Max({a, b}) = IF a >= b THEN a ELSE b
         /\ Min({a, b}) = IF a <= b THEN a ELSE b
<1>1. PICK hi \in {a, b} : \A y \in {a, b} : hi >= y
  OBVIOUS
<1>2. Max({a, b}) \in {a, b} /\ \A y \in {a, b} : Max({a, b}) >= y
  BY <1>1 DEF Max
<1>3. PICK lo \in {a, b} : \A y \in {a, b} : lo <= y
  OBVIOUS
<1>4. Min({a, b}) \in {a, b} /\ \A y \in {a, b} : Min({a, b}) <= y
  BY <1>3 DEF Min
<1> QED
  BY <1>2, <1>4

\* A set of naturals has a least element, which is what Min denotes.
LEMMA NatMin ==
  ASSUME NEW S \in SUBSET Nat, S # {}
  PROVE  Min(S) \in S /\ \A x \in S : Min(S) <= x
<1> DEFINE Less == {p \in Nat \X Nat : p[1] < p[2]}
<1>1. IsWellFoundedOn(Less, Nat)
  BY NatLessThanWellFounded DEF OpToRel
<1>2. PICK m \in S : \A x \in S : <<x, m>> \notin Less
  <2> HIDE DEF Less
  <2> QED
    BY <1>1, WFMin
<1>3. ASSUME NEW x \in S PROVE m <= x
  <2>1. m \in Nat /\ x \in Nat /\ <<x, m>> \in Nat \X Nat /\ <<x, m>> \notin Less
    BY <1>2
  <2>2. ~(x < m)
    BY <2>1
  <2> QED
    BY <2>1, <2>2
<1> QED
  BY <1>3 DEF Min

\* The highest of a set of blocks exists.
LEMMA BlockMax ==
  ASSUME NEW S \in SUBSET (1..MaxHead), S # {}
  PROVE  Max(S) \in S /\ \A x \in S : x <= Max(S)
<1> DEFINE T == {MaxHead - x : x \in S}
<1>1. MaxHead \in Nat /\ \A x \in S : x \in Nat /\ x <= MaxHead
  BY ConstFacts
<1>2. T \in SUBSET Nat /\ T # {}
  <2>1. \A x \in S : MaxHead - x \in Nat /\ MaxHead - x \in T
    BY <1>1
  <2>2. \A y \in T : y \in Nat
    BY <2>1
  <2> HIDE DEF T
  <2> QED
    BY <2>1, <2>2
<1>3. Min(T) \in T /\ \A y \in T : Min(T) <= y
  <2> HIDE DEF T
  <2> QED
    BY <1>2, NatMin
<1>4. PICK m \in S : Min(T) = MaxHead - m
  BY <1>3
<1>5. \A x \in S : MaxHead - m <= MaxHead - x
  BY <1>3, <1>4
<1>6. \A x \in S : m >= x
  BY <1>1, <1>5
<1>7. Max(S) \in S /\ \A x \in S : Max(S) >= x
  BY <1>6 DEF Max
<1> QED
  BY <1>1, <1>7

LEMMA ActiveCard ==
  ASSUME TypeOK, active # {}
  PROVE  /\ IsFiniteSet(active)
         /\ Cardinality(active) \in Nat \ {0} /\ Cardinality(Groups) \in Nat
         /\ Cardinality(active) <= Cardinality(Groups)
<1>1. active \in SUBSET Groups
  BY DEF TypeOK
<1>2. IsFiniteSet(active) /\ Cardinality(active) <= Cardinality(Groups)
  BY <1>1, ConstFacts, FS_Subset
<1> QED
  BY <1>2, ConstFacts, FS_CardinalityType, FS_EmptySet

\* Every place below the number of active groups is some group's, for ranks are
\* distinct.
LEMMA GroupAtActive ==
  ASSUME TypeOK, active # {}, NEW i \in 0..(Cardinality(active) - 1)
  PROVE  GroupAt(i) \in active
<1> DEFINE Before(g) == {k \in active : KeyOrder[k] < KeyOrder[g]}
           n == Cardinality(active)
           Slots == 0..(n - 1)
           Rank == [g \in active |-> Cardinality(Before(g))]
<1>1. \A g \in active : g \in Groups /\ KeyOrder[g] \in Nat
  BY ConstFacts DEF TypeOK
<1>2. \A g \in active : IsFiniteSet(Before(g)) /\ Cardinality(Before(g)) \in Nat
                        /\ Cardinality(Before(g)) < n
  <2> SUFFICES ASSUME NEW g \in active
               PROVE  IsFiniteSet(Before(g)) /\ Cardinality(Before(g)) \in Nat
                      /\ Cardinality(Before(g)) < n
    OBVIOUS
  <2>1. Before(g) \in SUBSET active
    OBVIOUS
  <2>2. g \notin Before(g)
    BY <1>1
  <2>3. Before(g) # active
    BY <2>2
  <2> HIDE DEF Before
  <2>4. IsFiniteSet(Before(g)) /\ Cardinality(Before(g)) <= n /\ Cardinality(Before(g)) # n
    BY <2>1, <2>3, ActiveCard, FS_Subset
  <2> QED
    BY <2>4, ActiveCard, FS_CardinalityType
<1>3. ASSUME NEW a \in active, NEW b \in active, KeyOrder[a] < KeyOrder[b]
      PROVE  Cardinality(Before(a)) < Cardinality(Before(b))
  <2>1. Before(a) \in SUBSET Before(b)
    BY <1>1, <1>3
  <2>2. a \in Before(b) /\ a \notin Before(a)
    BY <1>1, <1>3
  <2>3. Before(a) # Before(b)
    BY <2>2
  <2> HIDE DEF Before
  <2>4. Cardinality(Before(a)) <= Cardinality(Before(b)) /\ Cardinality(Before(a)) # Cardinality(Before(b))
    BY <1>2, <2>1, <2>3, FS_Subset
  <2> QED
    BY <1>2, <2>4
<1>4. Rank \in Injection(active, Slots)
  <2>1. Rank \in [active -> Slots]
    BY <1>2, ActiveCard
  <2>2. ASSUME NEW a \in active, NEW b \in active, Rank[a] = Rank[b] PROVE a = b
    <3>1. Cardinality(Before(a)) = Cardinality(Before(b))
      BY <2>2
    <3> HIDE DEF Before
    <3>2. ~(KeyOrder[a] < KeyOrder[b]) /\ ~(KeyOrder[b] < KeyOrder[a])
      BY <1>2, <1>3, <3>1
    <3>3. KeyOrder[a] = KeyOrder[b]
      BY <1>1, <3>2
    <3> QED
      BY <1>1, <3>3, AlertAssumption
  <2>3. DOMAIN Rank = active
    OBVIOUS
  <2> HIDE DEF Rank
  <2> QED
    BY <2>1, <2>2, <2>3 DEF Injection, IsInjective
<1>5. IsFiniteSet(Slots) /\ Cardinality(Slots) = n
  <2>1. 0 \in Int /\ n - 1 \in Int /\ ~(0 > n - 1) /\ (n - 1) - 0 + 1 = n
    BY ActiveCard
  <2> HIDE DEF n
  <2> QED
    BY <2>1, FS_Interval
<1>6. Rank \in Surjection(active, Slots)
  <2> HIDE DEF Rank, Slots
  <2> QED
    BY <1>4, <1>5, FS_Injection
<1>7. PICK g \in active : Rank[g] = i
  <2>1. i \in Slots
    OBVIOUS
  <2> HIDE DEF Rank, Slots
  <2> QED
    BY <1>6, <2>1 DEF Surjection
<1>8. Cardinality(Before(g)) = i
  BY <1>7
<1> QED
  BY <1>8 DEF GroupAt

-----------------------------------------------------------------------------
(* What a batch holds.                                                     *)

LEMMA FreshFacts ==
  ASSUME TypeOK, NEW g \in Groups
  PROVE  /\ Fresh(g) = Detailed(g) \cup Overflow(g)
         /\ \A r \in Fresh(g) : /\ r \in matches /\ r \in Rows /\ r[1] = g
                                /\ g \in active /\ RowId(r) \notin remembered
BY DEF TypeOK, Fresh, Detailed, Overflow

LEMMA CarriedFacts ==
  ASSUME TypeOK
  PROVE  /\ \A r \in Carried : r \in matches /\ r \in Rows /\ RowId(r) \notin remembered
         /\ \A r \in Swallowed : r \in matches /\ r \in Rows
<1>1. \A g \in Groups : Detailed(g) \subseteq Fresh(g) /\ Overflow(g) \subseteq Fresh(g)
  BY FreshFacts
<1>2. ASSUME NEW r \in Carried PROVE \E g \in Groups : r \in Fresh(g)
  <2>1. CASE r \in UNION {Detailed(g) : g \in Groups}
    BY <1>1, <2>1
  <2>2. CASE r \in UNION Digests
    BY <1>1, <2>2 DEF Digests
  <2> QED
    BY <2>1, <2>2 DEF Carried
<1>3. ASSUME NEW r \in Swallowed PROVE \E g \in Groups : r \in Fresh(g)
  BY <1>1 DEF Swallowed
<1> QED
  BY <1>2, <1>3, FreshFacts

\* Every new row is carried by the batch, lost with a digest taken for another, or one
\* whose rendering threw.
LEMMA FreshCarried ==
  ASSUME TypeOK, NEW r \in matches, r[1] \in active, RowId(r) \notin remembered
  PROVE  r \in Carried \cup told \cup Swallowed \cup thrown
<1>1. r[1] \in Groups
  BY DEF TypeOK
<1>2. CASE r \notin thrown
  <2>1. r \in Fresh(r[1])
    BY <1>2 DEF Fresh
  <2>2. r \in Detailed(r[1]) \cup Overflow(r[1])
    BY <1>1, <2>1, FreshFacts
  <2> QED
    BY <1>1, <2>2 DEF Carried, Swallowed
<1> QED
  BY <1>2

\* A digest is named after its group and after the heights of its first and last row.
LEMMA DigestFacts ==
  ASSUME TypeOK, NEW g \in Groups, Overflow(g) # {}
  PROVE  \E p, q \in Overflow(g) :
            /\ DigestId(Overflow(g)) = <<g, "digest", Height(p), Height(q)>>
            /\ \A r \in Overflow(g) : Height(p) <= Height(r) /\ Height(r) <= Height(q)
<1> DEFINE rs == Overflow(g)
           hs == {Height(r) : r \in rs}
<1>1. \A r \in rs : r \in Rows /\ r[1] = g
  BY FreshFacts
<1>2. (CHOOSE r \in rs : TRUE) \in rs
  BY <1>1
<1>3. (CHOOSE r \in rs : TRUE)[1] = g
  BY <1>1, <1>2
<1>4. hs \in SUBSET (1..MaxHead) /\ hs \in SUBSET Nat /\ hs # {}
  BY <1>1, RowFacts, ConstFacts
<1>5. /\ Min(hs) \in hs /\ \A h \in hs : Min(hs) <= h
      /\ Max(hs) \in hs /\ \A h \in hs : h <= Max(hs)
  <2> HIDE DEF hs
  <2> QED
    BY <1>4, NatMin, BlockMax
<1>6. PICK p \in rs : Min(hs) = Height(p)
  BY <1>5
<1>7. PICK q \in rs : Max(hs) = Height(q)
  BY <1>5
<1>8. DigestId(rs) = <<g, "digest", Height(p), Height(q)>>
  BY <1>3, <1>6, <1>7 DEF DigestId
<1> QED
  BY <1>5, <1>6, <1>7, <1>8

LEMMA BatchFacts ==
  ASSUME TypeOK, NEW i \in Batch
  PROVE  \/ \E r \in Carried : i = RowId(r)
         \/ \E p, q \in Carried : i = <<p[1], "digest", Height(p), Height(q)>> /\ p[1] = q[1]
<1>1. CASE i \in {RowId(r) : r \in UNION {Detailed(g) : g \in Groups}}
  BY <1>1 DEF Carried
<1>2. CASE i \in {DigestId(rs) : rs \in Digests}
  <2>1. PICK g \in Groups : Overflow(g) # {} /\ i = DigestId(Overflow(g)) /\ Overflow(g) \in Digests
    BY <1>2 DEF Digests
  <2>2. PICK p, q \in Overflow(g) : i = <<g, "digest", Height(p), Height(q)>>
    BY <2>1, DigestFacts
  <2>3. p \in Carried /\ q \in Carried
    BY <2>1 DEF Carried
  <2>4. p[1] = g /\ q[1] = g
    BY FreshFacts
  <2> QED
    BY <2>2, <2>3, <2>4
<1> QED
  BY <1>1, <1>2 DEF Batch

LEMMA BatchIds ==
  ASSUME TypeOK
  PROVE  /\ Batch \subseteq Ids /\ {RowId(r) : r \in Carried} \subseteq Ids
         /\ \A r \in Rows : RowId(r) \in Batch => r \in Carried
<1>1. \A r \in Carried : r \in Rows /\ r[1] \in Groups /\ Height(r) \in 1..MaxHead /\ RowId(r) \in Ids
  BY CarriedFacts, RowFacts
<1>2. ASSUME NEW i \in Batch PROVE i \in Ids
  BY <1>1, BatchFacts DEF Ids
<1>3. ASSUME NEW r \in Rows, RowId(r) \in Batch PROVE r \in Carried
  <2>1. CASE \E q \in Carried : RowId(r) = RowId(q)
    BY <1>1, <2>1, RowIdInjective
  <2>2. CASE \E p, q \in Carried : RowId(r) = <<p[1], "digest", Height(p), Height(q)>>
    BY <2>2 DEF RowId
  <2> QED
    BY <1>3, <2>1, <2>2, BatchFacts
<1> QED
  BY <1>1, <1>2, <1>3

-----------------------------------------------------------------------------
(* How far a window reaches, and where the lane stands after it.           *)

LEMMA CoveredFacts ==
  ASSUME TypeOK, TickInv, at = "visit"
  PROVE  /\ Covered \in 1..MaxHead /\ window.from <= Covered /\ Covered <= window.to
         /\ Covered = window.from \/ (tickSource \in 1..source /\ Covered <= tickSource)
<1>1. window.from \in 1..MaxHead /\ window.to \in 1..MaxHead /\ window.from < window.to
  BY ConstFacts DEF TickInv
<1>2. tickSource = None \/ tickSource \in 1..source
  BY DEF TickInv
<1>3. source \in Nat
  BY ConstFacts DEF TypeOK
<1> DEFINE s == IF tickSource = None THEN window.from ELSE tickSource
<1>4. s \in Int
  BY <1>1, <1>2, <1>3, ConstFacts
<1>5. Min({window.to, s}) = IF window.to <= s THEN window.to ELSE s
  <2>1. window.to \in Int
    BY <1>1, ConstFacts
  <2> HIDE DEF s
  <2> QED
    BY <1>4, <2>1, Extremes
<1>6. Covered = IF window.from >= Min({window.to, s}) THEN window.from ELSE Min({window.to, s})
  <2>1. Min({window.to, s}) \in Int /\ window.from \in Int
    BY <1>1, <1>4, <1>5
  <2>2. Covered = Max({window.from, Min({window.to, s})})
    BY DEF Covered, windowCoveredTo
  <2> HIDE DEF s
  <2> QED
    BY <2>1, <2>2, Extremes
<1>7. s = window.from \/ (tickSource \in 1..source /\ s = tickSource)
  BY <1>2
<1> HIDE DEF s
<1> DEFINE f == window.from
           t == window.to
<1>8. f \in Nat /\ t \in Nat /\ f < t /\ 1 <= f /\ t <= MaxHead /\ MaxHead \in Nat
  BY <1>1, ConstFacts
<1>9. Covered = f \/ (Covered = t /\ t <= s) \/ (Covered = s /\ f <= s /\ s <= t)
  BY <1>4, <1>5, <1>6, <1>8
<1> HIDE DEF f, t
<1>10. Covered \in Nat /\ f <= Covered /\ Covered <= t /\ (Covered = f \/ Covered <= s)
  BY <1>4, <1>8, <1>9
<1>11. Covered \in 1..MaxHead
  BY <1>8, <1>10
<1>12. Covered = f \/ (tickSource \in 1..source /\ Covered <= tickSource)
  BY <1>7, <1>8, <1>10 DEF f
<1> QED
  BY <1>10, <1>11, <1>12 DEF f, t

\* Each group's note rises to the window's end if the group was visited.
LEMMA SeenFacts ==
  ASSUME TypeOK, TickInv, MemoryInv, at = "visit", NEW s, s = SeenAfter(Covered)
  PROVE  /\ DOMAIN s \subseteq keys
         /\ \A g \in DOMAIN s :
              /\ s[g] \in 0..MaxHead /\ s[g] <= head
              /\ \/ s[g] = 0
                 \/ g \in DOMAIN seen /\ s[g] = seen[g]
                 \/ g \in visited /\ s[g] = Covered
<1>1. Covered \in 1..MaxHead /\ Covered <= head
  <2>1. window.to \in Nat /\ window.to <= head /\ head \in Nat
    BY ConstFacts DEF TypeOK, TickInv
  <2> QED
    BY <2>1, CoveredFacts
<1>2. DOMAIN s = (DOMAIN seen \cup visited) \cap keys
  BY DEF SeenAfter
<1>3. ASSUME NEW g \in DOMAIN s
      PROVE  /\ s[g] \in 0..MaxHead /\ s[g] <= head
             /\ \/ s[g] = 0
                \/ g \in DOMAIN seen /\ s[g] = seen[g]
                \/ g \in visited /\ s[g] = Covered
  <2> DEFINE old == IF g \in DOMAIN seen THEN seen[g] ELSE 0
  <2>1. old \in 0..MaxHead /\ old <= head /\ (old = 0 \/ (g \in DOMAIN seen /\ old = seen[g]))
    <3>1. CASE g \in DOMAIN seen
      BY <3>1 DEF TypeOK, MemoryInv
    <3>2. CASE g \notin DOMAIN seen
      <4>1. old = 0 /\ head \in 1..MaxHead
        BY <3>2 DEF TypeOK
      <4> QED
        BY <4>1, ConstFacts
    <3> QED
      BY <3>1, <3>2
  <2>2. s[g] = IF g \in visited THEN Max({old, Covered}) ELSE old
    BY <1>2 DEF SeenAfter
  <2>3. old \in Int /\ Covered \in Int
    BY <1>1, <2>1, ConstFacts
  <2> HIDE DEF old
  <2>4. Max({old, Covered}) = IF old >= Covered THEN old ELSE Covered
    BY <2>3, Extremes
  <2> QED
    BY <1>1, <2>1, <2>2, <2>4, ConstFacts
<1> QED
  BY <1>2, <1>3

\* The cursor never moves back, never past the window, and past no group's note.
LEMMA FloorFacts ==
  ASSUME TypeOK, TickInv, MemoryInv, at = "visit",
         NEW s, s = SeenAfter(Covered), NEW to, to = CoveredFloor(s, Covered)
  PROVE  /\ to \in 1..MaxHead /\ cursor <= to /\ to <= window.to
         /\ to = cursor \/ (keys \subseteq DOMAIN s /\ \A g \in keys : to <= s[g])
<1>1. cursor \in 1..MaxHead /\ cursor <= window.from /\ window.to \in 1..MaxHead
      /\ window.from \in 1..MaxHead
  BY DEF TypeOK, TickInv
<1>2. Covered \in 1..MaxHead /\ window.from <= Covered /\ Covered <= window.to
  BY CoveredFacts
<1> DEFINE f == window.from
           t == window.to
<1>5. /\ cursor \in Nat /\ f \in Nat /\ t \in Nat /\ Covered \in Nat /\ MaxHead \in Nat
      /\ 1 <= cursor /\ cursor <= f /\ f <= Covered /\ Covered <= t /\ t <= MaxHead
  BY <1>1, <1>2, ConstFacts
<1> HIDE DEF f, t
<1>3. CASE ~(keys \subseteq DOMAIN s)
  <2>1. to = cursor
    BY <1>3 DEF CoveredFloor
  <2>2. to \in 1..MaxHead /\ cursor <= to /\ to <= t
    BY <1>5, <2>1
  <2> QED
    BY <2>1, <2>2 DEF t
<1>4. CASE keys \subseteq DOMAIN s
  <2> DEFINE S == {Covered} \cup {s[g] : g \in keys}
             m == Min(S)
  <2>1. \A g \in keys : s[g] \in 0..MaxHead
    BY <1>4, SeenFacts
  <2>2. S \in SUBSET Nat /\ S # {} /\ Covered \in S /\ \A g \in keys : s[g] \in S
    BY <1>2, <2>1, ConstFacts
  <2>3. m \in S /\ \A x \in S : m <= x
    <3> HIDE DEF S
    <3> QED
      BY <2>2, NatMin
  <2>4. m \in Nat /\ m <= Covered /\ \A g \in keys : m <= s[g]
    BY <2>2, <2>3
  <2>5. to = Max({cursor, m})
    BY <1>4 DEF CoveredFloor
  <2>6. cursor \in Int /\ m \in Int
    BY <1>1, <2>4, ConstFacts
  <2> HIDE DEF m
  <2>7. to = IF cursor >= m THEN cursor ELSE m
    BY <2>5, <2>6, Extremes
  <2>8. to \in 1..MaxHead /\ cursor <= to /\ to <= t /\ (to = cursor \/ to = m)
    BY <1>5, <2>4, <2>7
  <2> QED
    BY <1>4, <2>4, <2>8 DEF t
<1> QED
  BY <1>3, <1>4

-----------------------------------------------------------------------------
(* Types, and what the tick's own state is.                                *)

StateInv == TypeOK /\ CursorBehind /\ faults \in Nat /\ TickInv /\ MemoryInv /\ SourceInv

LEMMA InitState == Init => StateInv
<1> SUFFICES ASSUME Init PROVE StateInv
  OBVIOUS
<1>1. Cardinality(Groups) \in Nat
  BY ConstFacts, FS_CardinalityType
<1>2. queue \in Seq(keys)
  BY DEF Init
<1>3. DOMAIN seen = {} /\ Range(queue) = {}
  BY DEF Init, Range
<1>4. 1 \in 1..MaxHead /\ 0 \in 0..Cardinality(Groups)
  BY <1>1, ConstFacts
<1>5. TypeOK
  BY <1>3, <1>4 DEF Init, TypeOK
<1>6. CursorBehind /\ TickInv /\ MemoryInv /\ SourceInv
  BY <1>2, <1>3 DEF Init, CursorBehind, TickInv, MemoryInv, SourceInv
<1> QED
  BY <1>5, <1>6 DEF Init, StateInv

\* A tick that is over leaves nothing behind: its locals hold their types whatever
\* they were.
LEMMA SettleState ==
  ASSUME NEW n, Settle(n)
  PROVE  /\ at' = n /\ tickHead' = None /\ tickSource' = None /\ window' = None
         /\ keys' = {} /\ visited' = {} /\ matches' = {} /\ thrown' = {} /\ queue' = <<>>
         /\ queue' \in Seq(keys') /\ Range(queue') = {}
BY DEF Settle, Range

\* What a step that ends a tick still has to show.
LEMMA TickOver ==
  ASSUME StateInv, NEW n \in {"idle", "flush", "flushNow"}, Settle(n),
         UNCHANGED world, active' \subseteq Groups,
         inbox' \subseteq Ids, remembered' \subseteq Ids,
         stored' \in (1..MaxHead) \cup {None}, cursor' \in (1..MaxHead) \cup {None},
         dirty' \in BOOLEAN, uncertain' \in BOOLEAN, restarted' \in BOOLEAN,
         DOMAIN seen' \subseteq Groups, \A g \in DOMAIN seen' : seen'[g] \in 0..MaxHead /\ seen'[g] <= head,
         rotation' \in 0..Cardinality(Groups),
         told' \subseteq Rows, writtenOff' \cup swallowed' \cup unrendered' \subseteq Rows,
         cursor' = None => stored' = None,
         cursor' # None => (stored' # None => stored' <= cursor') /\ cursor' <= head,
         faults' \in Nat
  PROVE  StateInv'
<1>1. /\ at' = n /\ tickHead' = None /\ tickSource' = None /\ window' = None
      /\ keys' = {} /\ visited' = {} /\ matches' = {} /\ thrown' = {} /\ queue' \in Seq(keys') /\ Range(queue') = {}
  BY SettleState
<1>2. head' = head /\ source' = source /\ revealed' = revealed
  BY DEF world
<1>3. TypeOK'
  BY <1>1, <1>2 DEF StateInv, TypeOK
<1>4. TickInv'
  BY <1>1 DEF TickInv
<1>5. CursorBehind' /\ MemoryInv' /\ SourceInv'
  BY <1>2 DEF StateInv, CursorBehind, MemoryInv, SourceInv
<1> QED
  BY <1>3, <1>4, <1>5 DEF StateInv

\* Reading the head, the source or a feed changes the tick's locals only.
LEMMA TickGoes ==
  ASSUME StateInv, UNCHANGED <<world, tables, cursor, dirty, seen, remembered, told,
                               swallowed, unrendered, uncertain, restarted>>,
         rotation' \in 0..Cardinality(Groups), writtenOff' \subseteq Rows, faults' \in Nat,
         {tickHead', tickSource'} \subseteq (1..MaxHead) \cup {None},
         at' \in {"source", "lane", "visit"},
         keys' \subseteq Groups, visited' \subseteq keys', matches' \subseteq Rows, thrown' \subseteq matches', TickInv'
  PROVE  StateInv'
<1>1. /\ UNCHANGED <<head, source, revealed, active, stored, inbox>>
      /\ UNCHANGED <<cursor, dirty, seen, remembered, told, swallowed, unrendered, uncertain, restarted>>
  BY DEF world, tables
<1>2. Range(queue') \subseteq keys'
  BY DEF TickInv, Range
<1>3. window' # None => /\ window' \in [from : 0..MaxHead, to : 0..MaxHead]
                        /\ window'.to - window'.from \in 1..MAX_WINDOW_BLOCKS
  <2> SUFFICES ASSUME window' # None, at' = "visit"
               PROVE  /\ window' \in [from : 0..MaxHead, to : 0..MaxHead]
                      /\ window'.to - window'.from \in 1..MAX_WINDOW_BLOCKS
    BY DEF TickInv
  <2> QED
    BY ConstFacts DEF TickInv
<1>4. TypeOK'
  BY <1>1, <1>2, <1>3 DEF StateInv, TypeOK
<1>5. CursorBehind' /\ MemoryInv' /\ SourceInv'
  BY <1>1 DEF StateInv, CursorBehind, MemoryInv, SourceInv
<1> QED
  BY <1>4, <1>5 DEF StateInv

LEMMA WorldState ==
  ASSUME StateInv, AdvanceHead \/ AdvanceSource \/ \E r \in LateRows : Reveal(r)
  PROVE  StateInv'
<1>1. CASE AdvanceHead
  <2>1. head' \in 1..MaxHead /\ head' \in Nat /\ head <= head' /\ head \in Nat
    BY <1>1, ConstFacts DEF AdvanceHead, StateInv, TypeOK
  <2>2. /\ UNCHANGED <<source, revealed, active, stored, inbox, cursor, dirty, seen, rotation, remembered>>
        /\ UNCHANGED <<at, tickHead, tickSource, window, keys, queue, visited, matches, thrown, told,
                       writtenOff, swallowed, unrendered, uncertain, restarted, faults, toggles>>
        /\ at = "idle"
    BY <1>1 DEF AdvanceHead, tables, memory, tick, ledger, bounds
  <2>3. TypeOK' /\ SourceInv' /\ TickInv'
    BY <2>1, <2>2 DEF StateInv, TypeOK, SourceInv, TickInv
  <2>4. CursorBehind'
    BY <2>1, <2>2, ConstFacts DEF StateInv, TypeOK, CursorBehind
  <2>5. MemoryInv'
    BY <2>1, <2>2, ConstFacts DEF StateInv, TypeOK, MemoryInv
  <2> QED
    BY <2>2, <2>3, <2>4, <2>5 DEF StateInv
<1>2. CASE AdvanceSource
  <2>1. source' \in 1..MaxHead /\ source < source' /\ source \in Nat
        /\ \A r \in LateRows \ revealed : source' < Height(r) + TRAILING_RECHECK_BLOCKS
    BY <1>2, ConstFacts DEF AdvanceSource, StateInv, TypeOK
  <2>2. /\ UNCHANGED <<head, revealed, active, stored, inbox, cursor, dirty, seen, rotation, remembered>>
        /\ UNCHANGED <<at, tickHead, tickSource, window, keys, queue, visited, matches, thrown, told,
                       writtenOff, swallowed, unrendered, uncertain, restarted, faults, toggles>>
    BY <1>2 DEF AdvanceSource, tables, memory, tick, ledger, bounds
  <2>3. TypeOK' /\ SourceInv' /\ CursorBehind' /\ MemoryInv'
    BY <2>1, <2>2 DEF StateInv, TypeOK, SourceInv, CursorBehind, MemoryInv
  <2>4. tickSource # None => tickSource \in 1..source'
    BY <2>1 DEF StateInv, TickInv
  <2>5. TickInv'
    BY <2>2, <2>4 DEF StateInv, TickInv
  <2> QED
    BY <2>2, <2>3, <2>5 DEF StateInv
<1>3. CASE \E r \in LateRows : Reveal(r)
  <2>1. revealed \subseteq revealed' /\ revealed' \subseteq LateRows
    BY <1>3 DEF Reveal, StateInv, TypeOK
  <2>2. /\ UNCHANGED <<head, source, active, stored, inbox, cursor, dirty, seen, rotation, remembered>>
        /\ UNCHANGED <<at, tickHead, tickSource, window, keys, queue, visited, matches, thrown, told,
                       writtenOff, swallowed, unrendered, uncertain, restarted, faults, toggles>>
    BY <1>3 DEF Reveal, tables, memory, tick, ledger, bounds
  <2> QED
    BY <2>1, <2>2 DEF StateInv, TypeOK, SourceInv, CursorBehind, MemoryInv, TickInv
<1> QED
  BY <1>1, <1>2, <1>3

LEMMA BeginState ==
  ASSUME StateInv, BeginLane
  PROVE  StateInv'
<1> DEFINE n == Cardinality(active)
           start == rotation % n
           take == Min({n, SOURCE_FETCH_CAP})
           w == resolveWindow(cursor, tickHead)
<1>1. /\ at = "lane" /\ active # {} /\ cursor # None /\ tickHead > cursor
      /\ window' = w /\ keys' = active /\ rotation' = (start + take) % n
      /\ queue' = [i \in 1..take |-> GroupAt((start + i - 1) % n)]
      /\ at' = "visit" /\ tickHead' = None /\ visited' = {} /\ matches' = {} /\ thrown' = {}
      /\ tickSource' = tickSource /\ faults' = faults
      /\ UNCHANGED <<world, tables, cursor, dirty, seen, remembered, told, swallowed, unrendered, uncertain, restarted>>
  BY DEF BeginLane, bounds
<1>2. /\ n \in Nat \ {0} /\ Cardinality(Groups) \in Nat /\ n <= Cardinality(Groups)
  BY <1>1, ActiveCard DEF StateInv
<1>3. take \in Nat
  <2>1. n \in Int /\ SOURCE_FETCH_CAP \in Int /\ SOURCE_FETCH_CAP \in Nat
    BY <1>2, ConstFacts
  <2> HIDE DEF n
  <2> QED
    BY <1>2, <2>1, Extremes
<1>4. rotation \in Nat
  BY <1>2 DEF StateInv, TypeOK
<1>5. start \in 0..(n - 1)
  <2> HIDE DEF n
  <2> QED
    BY <1>2, <1>4
<1>6. \A x \in Nat : x % n \in 0..(n - 1)
  <2> HIDE DEF n
  <2> QED
    BY <1>2
<1>7. rotation' \in 0..Cardinality(Groups)
  <2>1. start + take \in Nat
    BY <1>3, <1>5, <1>2
  <2>2. rotation' \in 0..(n - 1)
    BY <1>1, <1>6, <2>1
  <2> HIDE DEF n
  <2> QED
    BY <1>2, <2>2
<1>8. queue' \in Seq(keys')
  <2>1. ASSUME NEW i \in 1..take PROVE GroupAt((start + i - 1) % n) \in active
    <3>1. start + i - 1 \in Nat
      BY <1>2, <1>3, <1>5
    <3>2. (start + i - 1) % n \in 0..(n - 1)
      BY <1>6, <3>1
    <3> QED
      BY <1>1, <3>2, GroupAtActive DEF StateInv
  <2>2. queue' \in [1..take -> keys']
    BY <1>1, <2>1
  <2> HIDE DEF take
  <2> QED
    BY <1>3, <2>2
<1>9. /\ window' \in [from : 1..MaxHead, to : 1..MaxHead]
      /\ cursor' # None /\ cursor' <= window'.from /\ window'.to <= head'
      /\ window'.to - window'.from \in 1..MAX_WINDOW_BLOCKS
  <2>1. /\ tickHead \in 1..head /\ head \in Nat /\ head <= MaxHead /\ cursor \in 1..MaxHead
        /\ MAX_WINDOW_BLOCKS \in Nat \ {0} /\ MaxHead \in Nat
    BY <1>1, ConstFacts DEF StateInv, TypeOK, TickInv
  <2>2. tickHead \in Int /\ cursor \in Int
    BY <2>1
  <2>3. Max({cursor, tickHead}) = tickHead
    BY <1>1, <2>2, Extremes
  <2>4. w = [from |-> IF tickHead - cursor > MAX_WINDOW_BLOCKS
                      THEN tickHead - MAX_WINDOW_BLOCKS ELSE cursor, to |-> tickHead]
    BY <2>3 DEF resolveWindow
  <2>5. cursor' = cursor /\ head' = head
    BY <1>1 DEF world
  <2>6. /\ window'.to = tickHead
        /\ window'.from = IF tickHead - cursor > MAX_WINDOW_BLOCKS
                          THEN tickHead - MAX_WINDOW_BLOCKS ELSE cursor
        /\ window' = [from |-> window'.from, to |-> window'.to]
    BY <1>1, <2>4
  <2> DEFINE f == window'.from
  <2>7. f \in 1..MaxHead /\ cursor <= f /\ tickHead - f \in 1..MAX_WINDOW_BLOCKS
    BY <1>1, <2>1, <2>6
  <2>8. tickHead \in 1..MaxHead
    BY <2>1
  <2>9. window' \in [from : 1..MaxHead, to : 1..MaxHead]
    BY <2>6, <2>7, <2>8
  <2>10. tickHead <= head
    BY <2>1
  <2> QED
    BY <1>1, <2>5, <2>6, <2>7, <2>9, <2>10
<1>10. source' = source /\ tickSource' = tickSource
  BY <1>1 DEF world
<1>11. TickInv'
  <2> HIDE DEF w, take, start, n
  <2> QED
    BY <1>1, <1>8, <1>9, <1>10 DEF StateInv, TickInv
<1>12. writtenOff' \subseteq Rows
  BY DEF BeginLane, StateInv, TypeOK
<1>13. keys' \subseteq Groups /\ faults' \in Nat /\ {tickHead', tickSource'} \subseteq (1..MaxHead) \cup {None}
  BY <1>1 DEF StateInv, TypeOK
<1> HIDE DEF w, take, start, n
<1> QED
  BY <1>1, <1>7, <1>11, <1>12, <1>13, TickGoes

\* The steps of a tick before its delivery.
LEMMA ReadState ==
  ASSUME StateInv, ReadHead \/ ReadSource \/ Visit \/ VisitFails \/ \E g \in Groups : DispatchThrows(g)
  PROVE  StateInv'
<1>1. CASE ReadHead
  <2>1. /\ at = "idle" /\ at' = "source" /\ tickHead' = head /\ faults' = faults
        /\ UNCHANGED <<tickSource, window, keys, queue, visited, matches, thrown, rotation, writtenOff>>
        /\ UNCHANGED <<world, tables, cursor, dirty, seen, remembered, told, swallowed, unrendered, uncertain, restarted>>
    BY <1>1 DEF ReadHead, memory, ledger, bounds
  <2>2. head' = head /\ source' = source
    BY <2>1 DEF world
  <2>3. head \in 1..MaxHead /\ head \in 1..head
    BY ConstFacts DEF StateInv, TypeOK
  <2>4. TickInv'
    BY <2>1, <2>2, <2>3 DEF StateInv, TickInv
  <2> QED
    BY <2>1, <2>3, <2>4, TickGoes DEF StateInv, TypeOK
<1>2. CASE ReadSource
  <2>1. /\ at = "source" /\ at' = "lane" /\ tickSource' \in {source, None}
        /\ UNCHANGED <<tickHead, window, keys, queue, visited, matches, thrown, rotation, writtenOff>>
        /\ UNCHANGED <<world, tables, cursor, dirty, seen, remembered, told, swallowed, unrendered, uncertain, restarted>>
    BY <1>2 DEF ReadSource, memory, ledger
  <2>2. head' = head /\ source' = source
    BY <2>1 DEF world
  <2>3. source \in 1..MaxHead /\ source \in 1..source
    BY ConstFacts DEF StateInv, TypeOK
  <2>4. faults' \in Nat
    BY <1>2 DEF ReadSource, Fault, StateInv
  <2>5. TickInv'
    BY <2>1, <2>2, <2>3 DEF StateInv, TickInv
  <2> QED
    BY <2>1, <2>3, <2>4, <2>5, TickGoes DEF StateInv, TypeOK
<1>3. CASE Visit \/ VisitFails
  <2>1. /\ at = "visit" /\ at' = "visit" /\ queue # <<>> /\ queue' = Tail(queue)
        /\ UNCHANGED <<tickHead, tickSource, window, keys, rotation, thrown>>
        /\ UNCHANGED <<world, tables, cursor, dirty, seen, remembered, told, swallowed, unrendered, uncertain, restarted>>
    BY <1>3 DEF Visit, VisitFails, memory, ledger
  <2>2. head' = head /\ source' = source
    BY <2>1 DEF world
  <2>3. queue \in Seq(keys) /\ Head(queue) \in keys /\ queue' \in Seq(keys')
    BY <2>1, HeadTailProperties DEF StateInv, TickInv
  <2>4. faults' \in Nat
    BY <1>3 DEF Visit, VisitFails, bounds, Fault, StateInv
  <2>5. TickInv'
    BY <2>1, <2>2, <2>3 DEF StateInv, TickInv
  <2>6. /\ visited' \subseteq keys' /\ matches' \subseteq Rows /\ thrown' \subseteq matches'
        /\ writtenOff' \subseteq Rows
    <3>1. CASE Visit
      BY <2>1, <2>3, <3>1 DEF Visit, Page, StateInv, TypeOK
    <3>2. CASE VisitFails
      BY <2>1, <3>2 DEF VisitFails, ledger, StateInv, TypeOK
    <3> QED
      BY <1>3, <3>1, <3>2
  <2> QED
    BY <2>1, <2>4, <2>5, <2>6, TickGoes DEF StateInv, TypeOK
<1>4. CASE \E g \in Groups : DispatchThrows(g)
  <2>1. PICK g \in Groups : DispatchThrows(g)
    BY <1>4
  <2>2. /\ at = "visit" /\ UNCHANGED <<at, tickHead, tickSource, window, keys, queue, visited, matches>>
        /\ UNCHANGED <<world, tables, cursor, dirty, seen, rotation, remembered>>
        /\ UNCHANGED <<told, writtenOff, swallowed, unrendered, uncertain, restarted>>
    BY <2>1 DEF DispatchThrows, memory, ledger
  <2>3. thrown' \subseteq matches' /\ faults' \in Nat
    BY <2>1, <2>2 DEF DispatchThrows, Fresh, Overflow, Fault, StateInv, TypeOK
  <2>4. TickInv'
    BY <2>2 DEF StateInv, TickInv, world
  <2> QED
    BY <2>2, <2>3, <2>4, TickGoes DEF StateInv, TypeOK
<1> QED
  BY <1>1, <1>2, <1>3, <1>4

LEMMA ToggleState ==
  ASSUME StateInv, NEW g \in Groups, ToggleRule(g)
  PROVE  StateInv'
<1>1. /\ UNCHANGED <<head, source, revealed, stored, inbox, cursor, dirty, seen, rotation, remembered>>
      /\ UNCHANGED <<at, tickHead, tickSource, window, keys, queue, visited, matches, thrown, told,
                     swallowed, unrendered, uncertain, restarted, faults>>
  BY DEF ToggleRule, world, memory, tick
<1>2. active' \subseteq Groups /\ writtenOff' \subseteq Rows
  BY DEF ToggleRule, StateInv, TypeOK
<1> QED
  BY <1>1, <1>2 DEF StateInv, TypeOK, SourceInv, CursorBehind, MemoryInv, TickInv

\* A tick that ends before it has read a source.
LEMMA EarlyState ==
  ASSUME StateInv, HeadUnreadable \/ LaneIdle \/ SeedCursor
  PROVE  StateInv'
<1>1. CASE HeadUnreadable
  <2>1. Settle("idle") /\ faults' \in Nat
    BY <1>1 DEF HeadUnreadable, TickDone, Fault, StateInv
  <2>2. UNCHANGED <<world, active, stored, inbox, cursor, dirty, seen, rotation, remembered,
                    told, writtenOff, swallowed, unrendered, uncertain, restarted>>
    BY <1>1 DEF HeadUnreadable, tables, memory, ledger
  <2> QED
    BY <2>1, <2>2, TickOver DEF StateInv, TypeOK, CursorBehind, MemoryInv
<1>2. CASE LaneIdle
  <2>1. PICK n \in {"flush", "flushNow"} : Settle(n)
    BY <1>2 DEF LaneIdle, ToFlush
  <2>2. UNCHANGED <<world, active, stored, inbox, cursor, dirty, seen, rotation, remembered,
                    told, writtenOff, swallowed, unrendered, uncertain, restarted, faults>>
    BY <1>2 DEF LaneIdle, tables, memory, ledger, bounds
  <2> QED
    BY <2>1, <2>2, TickOver DEF StateInv, TypeOK, CursorBehind, MemoryInv
<1>3. CASE SeedCursor
  <2>1. PICK n \in {"flush", "flushNow"} : Settle(n)
    BY <1>3 DEF SeedCursor, ToFlush
  <2>2. UNCHANGED <<world, active, inbox, seen, rotation, remembered, told, swallowed, unrendered, uncertain, restarted>>
    BY <1>3 DEF SeedCursor
  <2>3. /\ at = "lane" /\ cursor = None /\ cursor' = tickHead /\ dirty' = FALSE
        /\ stored' \in {tickHead, stored} /\ writtenOff' \subseteq Rows /\ faults' \in Nat
    BY <1>3 DEF SeedCursor, Fault, StateInv, TypeOK
  <2>4. tickHead \in 1..head /\ tickHead \in 1..MaxHead /\ tickHead <= head /\ tickHead <= tickHead
    BY <2>3, ConstFacts DEF StateInv, TickInv, TypeOK
  <2>5. tickHead # None /\ stored = None
    BY <2>3, <2>4, ConstFacts DEF StateInv, MemoryInv
  <2> QED
    BY <2>1, <2>2, <2>3, <2>4, <2>5, TickOver DEF StateInv, TypeOK, MemoryInv
<1> QED
  BY <1>1, <1>2, <1>3

LEMMA LateState ==
  ASSUME StateInv, FlushCursor \/ FlushFails \/ SkipFlush \/ Crash
  PROVE  StateInv'
<1>1. Settle("idle")
  BY DEF FlushCursor, FlushFails, SkipFlush, Crash, TickDone
<1>2. CASE FlushCursor
  <2>1. /\ UNCHANGED <<world, active, inbox, cursor, seen, rotation, remembered,
                       told, writtenOff, swallowed, unrendered, uncertain, restarted, faults>>
        /\ stored' = cursor /\ dirty' = FALSE
    BY <1>2 DEF FlushCursor, ledger, bounds
  <2>2. cursor # None => cursor <= cursor
    BY ConstFacts DEF StateInv, TypeOK
  <2> QED
    BY <1>1, <2>1, <2>2, TickOver DEF StateInv, TypeOK, CursorBehind, MemoryInv
<1>3. CASE FlushFails \/ SkipFlush
  <2>1. /\ UNCHANGED <<world, active, stored, inbox, cursor, seen, rotation, remembered,
                       told, writtenOff, swallowed, unrendered, uncertain, restarted>>
        /\ dirty' \in BOOLEAN
    BY <1>3 DEF FlushFails, SkipFlush, tables, memory, ledger, StateInv, TypeOK
  <2>2. faults' \in Nat
    BY <1>3 DEF FlushFails, SkipFlush, bounds, Fault, StateInv
  <2> QED
    BY <1>1, <2>1, <2>2, TickOver DEF StateInv, TypeOK, CursorBehind, MemoryInv
<1>4. CASE Crash
  <2>1. /\ UNCHANGED <<world, active, stored, inbox, told, writtenOff, swallowed, unrendered, uncertain>>
        /\ cursor' = stored /\ dirty' = FALSE /\ seen' = <<>> /\ rotation' = 0 /\ remembered' = inbox
        /\ restarted' = TRUE
    BY <1>4 DEF Crash, tables, LoadedIds
  <2>2. faults' \in Nat
    BY <1>4 DEF Crash, Fault, StateInv
  <2>3. DOMAIN seen' = {} /\ rotation' \in 0..Cardinality(Groups)
    <3>1. Cardinality(Groups) \in Nat
      BY ConstFacts, FS_CardinalityType
    <3> QED
      BY <2>1, <3>1
  <2>4. stored # None => stored <= stored /\ stored <= head
    <3> SUFFICES ASSUME stored # None PROVE stored <= stored /\ stored <= head
      OBVIOUS
    <3>1. cursor # None /\ stored <= cursor /\ cursor <= head
      BY DEF StateInv, MemoryInv, CursorBehind
    <3>2. stored \in 1..MaxHead /\ cursor \in 1..MaxHead /\ head \in 1..MaxHead
      BY <3>1 DEF StateInv, TypeOK
    <3> QED
      BY <3>1, <3>2, ConstFacts
  <2> QED
    BY <1>1, <2>1, <2>2, <2>3, <2>4, TickOver DEF StateInv, TypeOK
<1> QED
  BY <1>2, <1>3, <1>4

\* What the insert does to the ids and the ledger, acknowledged or not.
LEMMA InsertState ==
  ASSUME StateInv, InsertBatch
  PROVE  /\ inbox' \subseteq Ids /\ told' \subseteq Rows /\ writtenOff' \subseteq Rows
         /\ RememberedAfter \subseteq Ids /\ Swallowed \subseteq Rows
<1>1. TypeOK /\ Batch \subseteq Ids /\ {RowId(r) : r \in Carried} \subseteq Ids
  BY BatchIds DEF StateInv
<1>2. Carried \subseteq Rows /\ Swallowed \subseteq Rows
  BY <1>1, CarriedFacts
<1> QED
  BY <1>1, <1>2 DEF InsertBatch, RememberedAfter, TypeOK

LEMMA DeliverState ==
  ASSUME StateInv, Deliver \/ InboxWriteFails
  PROVE  StateInv'
<1>1. PICK n \in {"flush", "flushNow"} : Settle(n)
  BY DEF Deliver, InboxWriteFails, ToFlush
<1>2. CASE Deliver
  <2> DEFINE s == SeenAfter(Covered)
             to == CoveredFloor(s, Covered)
  <2>1. /\ at = "visit" /\ InsertBatch /\ remembered' = RememberedAfter
        /\ seen' = s /\ cursor' = to /\ dirty' = (dirty \/ to # cursor)
        /\ swallowed' = (swallowed \ Carried) \cup Swallowed
        /\ unrendered' = (unrendered \ Carried) \cup (thrown \ told)
        /\ UNCHANGED <<world, active, stored, rotation, uncertain, restarted, faults>>
    BY <1>2 DEF Deliver, Covered, bounds
  <2>2. /\ DOMAIN s \subseteq keys
        /\ \A g \in DOMAIN s : s[g] \in 0..MaxHead /\ s[g] <= head
    BY <2>1, SeenFacts DEF StateInv
  <2>3. to \in 1..MaxHead /\ cursor <= to /\ to <= window.to
    BY <2>1, FloorFacts DEF StateInv
  <2> HIDE DEF to, s
  <2>4. cursor \in 1..MaxHead /\ window.to \in 1..MaxHead /\ window.to <= head /\ head \in 1..MaxHead
        /\ cursor # None
    BY <2>1 DEF StateInv, TypeOK, TickInv
  <2>5. to <= head
    BY <2>3, <2>4, ConstFacts
  <2>6. stored # None => stored <= to
    <3> SUFFICES ASSUME stored # None PROVE stored <= to
      OBVIOUS
    <3>1. stored \in 1..MaxHead /\ stored <= cursor
      BY <2>4 DEF StateInv, TypeOK, CursorBehind
    <3> QED
      BY <2>3, <2>4, <3>1, ConstFacts
  <2>7. to # None /\ dirty' \in BOOLEAN
    BY <2>1, <2>3, ConstFacts
  <2>8. DOMAIN seen' \subseteq Groups /\ writtenOff' \cup swallowed' \cup unrendered' \subseteq Rows
    BY <2>1, <2>2, InsertState DEF StateInv, TypeOK
  <2> QED
    BY <1>1, <2>1, <2>2, <2>3, <2>5, <2>6, <2>7, <2>8, InsertState, TickOver DEF StateInv, TypeOK
<1>3. CASE InboxWriteFails
  <2>1. /\ UNCHANGED <<world, active, stored, cursor, dirty, seen, rotation, remembered, restarted>>
        /\ \/ UNCHANGED <<inbox, told, writtenOff, swallowed, unrendered, uncertain>>
           \/ /\ InsertBatch /\ uncertain' = TRUE
              /\ swallowed' = swallowed \ Carried /\ unrendered' = unrendered \ Carried
    BY <1>3 DEF InboxWriteFails, memory
  <2>2. faults' \in Nat
    BY <1>3 DEF InboxWriteFails, Fault, StateInv
  <2>3. /\ inbox' \subseteq Ids /\ told' \subseteq Rows /\ uncertain' \in BOOLEAN
        /\ writtenOff' \cup swallowed' \cup unrendered' \subseteq Rows
    <3>1. CASE UNCHANGED <<inbox, told, writtenOff, swallowed, unrendered, uncertain>>
      BY <3>1 DEF StateInv, TypeOK
    <3>2. CASE /\ InsertBatch /\ uncertain' = TRUE
               /\ swallowed' = swallowed \ Carried /\ unrendered' = unrendered \ Carried
      BY <3>2, InsertState DEF StateInv, TypeOK
    <3> QED
      BY <2>1, <3>1, <3>2
  <2> QED
    BY <1>1, <2>1, <2>2, <2>3, TickOver DEF StateInv, TypeOK, CursorBehind, MemoryInv
<1> QED
  BY <1>2, <1>3

LEMMA StateStep == StateInv /\ [Next]_vars => StateInv'
<1> SUFFICES ASSUME StateInv, [Next]_vars PROVE StateInv'
  OBVIOUS
<1>1. CASE UNCHANGED vars
  BY <1>1 DEF vars, world, tables, memory, tick, ledger, bounds,
              StateInv, TypeOK, SourceInv, CursorBehind, MemoryInv, TickInv
<1>2. CASE Next
  BY <1>2, WorldState, ToggleState, BeginState, ReadState, EarlyState, LateState, DeliverState
     DEF Next, WorldMoves, Tick
<1> QED
  BY <1>1, <1>2

-----------------------------------------------------------------------------
(* No owed row is left behind.                                             *)

OwesInv == CursorOwes /\ WindowOwes /\ SeenOwes /\ VisitOwes

\* A row ahead of one cursor is ahead of every lower one.
LEMMA AheadLower ==
  ASSUME NEW r \in Rows, NEW c \in Int, NEW d \in Int, d <= c
  PROVE  /\ Ahead(r, c) => Ahead(r, d)
         /\ Height(r) > c => Ahead(r, d)
BY RowFacts, ConstFacts DEF Ahead

LEMMA InitOwes == Init => OwesInv
BY DEF Init, OwesInv, CursorOwes, WindowOwes, SeenOwes, VisitOwes

\* A row becomes owed only when its rule is unmuted, and then lies above the head;
\* a step that moves neither cursor nor notes leaves everything ahead of them.
LEMMA OwesKept ==
  ASSUME StateInv, StateInv', OwesInv,
         \A r \in Owed' : r \in Owed \/ Height(r) > head,
         UNCHANGED <<cursor, seen>>,
         at' = "visit" => /\ at = "visit" /\ UNCHANGED <<head, window, keys, tickSource, visited>>
                          /\ matches \subseteq matches'
  PROVE  OwesInv'
<1>1. /\ head \in Int /\ (cursor # None => cursor \in Int /\ cursor <= head)
      /\ \A g \in DOMAIN seen : seen[g] \in Int /\ seen[g] <= head
  BY ConstFacts DEF StateInv, TypeOK, CursorBehind, MemoryInv
<1>2. \A r \in Owed' : r \in Rows
  BY DEF Owed
<1>3. CursorOwes'
  <2> SUFFICES ASSUME cursor # None, NEW r \in Owed' PROVE Ahead(r, cursor)
    BY DEF CursorOwes, Ahead
  <2>1. CASE r \in Owed
    BY <2>1 DEF OwesInv, CursorOwes
  <2>2. CASE Height(r) > head
    BY <1>1, <1>2, <2>2, AheadLower
  <2> QED
    BY <2>1, <2>2
<1>4. SeenOwes'
  <2> SUFFICES ASSUME NEW r \in Owed', r[1] \in DOMAIN seen PROVE Ahead(r, seen[r[1]])
    BY DEF SeenOwes, Ahead
  <2>1. CASE r \in Owed
    BY <2>1 DEF OwesInv, SeenOwes
  <2>2. CASE Height(r) > head
    BY <1>1, <1>2, <2>2, AheadLower
  <2> QED
    BY <2>1, <2>2
<1>5. WindowOwes' /\ VisitOwes'
  <2> SUFFICES ASSUME at' = "visit", NEW r \in Owed'
               PROVE  /\ Ahead(r, window.from) /\ (r[1] \notin keys => Height(r) > head)
                      /\ r[1] \in visited => r \in matches' \/ Ahead(r, Covered)
    BY DEF WindowOwes, VisitOwes, Ahead, Covered
  <2>1. CASE r \in Owed
    BY <2>1 DEF OwesInv, WindowOwes, VisitOwes
  <2>2. CASE Height(r) > head
    <3>1. window.from \in Int /\ window.to \in Int /\ window.from <= window.to /\ window.to <= head
      BY ConstFacts DEF StateInv, TickInv
    <3>2. Covered \in Int /\ Covered <= window.to
      BY CoveredFacts, ConstFacts DEF StateInv
    <3>3. window.from <= head /\ Covered <= head
      BY <1>1, <3>1, <3>2
    <3> QED
      BY <1>1, <1>2, <2>2, <3>1, <3>2, <3>3, AheadLower
  <2> QED
    BY <2>1, <2>2
<1> QED
  BY <1>3, <1>4, <1>5 DEF OwesInv

LEMMA QuietOwes ==
  ASSUME StateInv, StateInv', OwesInv,
         \/ AdvanceHead \/ AdvanceSource \/ (\E r \in LateRows : Reveal(r)) \/ ReadHead \/ ReadSource
         \/ HeadUnreadable \/ LaneIdle \/ VisitFails \/ (\E g \in Groups : DispatchThrows(g))
         \/ FlushCursor \/ FlushFails \/ SkipFlush \/ UNCHANGED vars
  PROVE  OwesInv'
<1>1. UNCHANGED <<cursor, seen, active, told, writtenOff, swallowed, unrendered>>
  BY DEF AdvanceHead, AdvanceSource, Reveal, ReadHead, ReadSource, HeadUnreadable, LaneIdle,
         VisitFails, DispatchThrows, FlushCursor, FlushFails, SkipFlush, vars, tables, memory, ledger
<1>2. at' = "visit" => /\ at = "visit" /\ UNCHANGED <<head, window, keys, tickSource, visited>>
                       /\ matches \subseteq matches'
  <2>1. CASE AdvanceHead
    BY <2>1 DEF AdvanceHead, tick
  <2>2. CASE AdvanceSource \/ \E r \in LateRows : Reveal(r)
    BY <2>2 DEF AdvanceSource, Reveal, tick
  <2>3. CASE ReadHead \/ ReadSource
    BY <2>3 DEF ReadHead, ReadSource
  <2>4. CASE HeadUnreadable \/ LaneIdle \/ FlushCursor \/ FlushFails \/ SkipFlush
    BY <2>4 DEF HeadUnreadable, LaneIdle, FlushCursor, FlushFails, SkipFlush, TickDone, ToFlush, Settle
  <2>5. CASE VisitFails \/ \E g \in Groups : DispatchThrows(g)
    BY <2>5 DEF VisitFails, DispatchThrows, world
  <2>6. CASE UNCHANGED vars
    BY <2>6 DEF vars, tick, world
  <2> QED
    BY <2>1, <2>2, <2>3, <2>4, <2>5, <2>6
<1>3. Owed' = Owed
  BY <1>1 DEF Owed
<1> QED
  BY <1>1, <1>2, <1>3, OwesKept

LEMMA ToggleOwes ==
  ASSUME StateInv, StateInv', OwesInv, NEW g \in Groups, ToggleRule(g)
  PROVE  OwesInv'
<1>1. UNCHANGED <<cursor, seen, told, swallowed, unrendered, at, head, window, keys, tickSource, visited, matches>>
  BY DEF ToggleRule, memory, tick, world
<1>2. ASSUME NEW r \in Owed' PROVE r \in Owed \/ Height(r) > head
  <2>1. r \in Rows /\ r \notin told \cup writtenOff' \cup swallowed \cup unrendered /\ r[1] \in active'
    BY <1>1 DEF Owed
  <2>2. CASE g \in active
    BY <2>1, <2>2 DEF ToggleRule, Owed
  <2>3. CASE g \notin active
    <3>1. /\ active' = active \cup {g}
          /\ writtenOff' = writtenOff \cup {q \in Rows \ told : q[1] = g /\ Height(q) <= head}
      BY <2>3 DEF ToggleRule
    <3>2. CASE r[1] = g
      <4>1. ~(Height(r) <= head)
        BY <2>1, <3>1, <3>2
      <4>2. Height(r) \in Int /\ head \in Int
        BY <2>1, RowFacts, ConstFacts DEF StateInv, TypeOK
      <4> QED
        BY <4>1, <4>2
    <3>3. CASE r[1] # g
      BY <2>1, <3>1, <3>3 DEF Owed
    <3> QED
      BY <3>2, <3>3
  <2> QED
    BY <2>2, <2>3
<1> QED
  BY <1>1, <1>2, OwesKept

LEMMA FailedWriteOwes ==
  ASSUME StateInv, StateInv', OwesInv, InboxWriteFails
  PROVE  OwesInv'
<1>1. /\ UNCHANGED <<cursor, seen, active>>
      /\ told \cup writtenOff \cup swallowed \cup unrendered
           \subseteq told' \cup writtenOff' \cup swallowed' \cup unrendered'
  BY DEF InboxWriteFails, InsertBatch, memory
<1>2. at' # "visit"
  BY DEF InboxWriteFails, ToFlush, Settle
<1>3. \A r \in Owed' : r \in Owed
  BY <1>1 DEF Owed
<1> QED
  BY <1>1, <1>2, <1>3, OwesKept

\* A restart falls back to the stored cursor, which is no higher.
LEMMA CrashOwes ==
  ASSUME StateInv, StateInv', OwesInv, Crash
  PROVE  OwesInv'
<1>1. UNCHANGED <<active, told, writtenOff, swallowed, unrendered>> /\ cursor' = stored /\ seen' = <<>> /\ at' = "idle"
  BY DEF Crash, TickDone, Settle, tables
<1>2. Owed' = Owed
  BY <1>1 DEF Owed
<1>3. CursorOwes'
  <2> SUFFICES ASSUME stored # None, NEW r \in Owed PROVE Ahead(r, stored)
    BY <1>1, <1>2 DEF CursorOwes, Ahead
  <2>1. cursor # None /\ stored <= cursor
    BY DEF StateInv, MemoryInv, CursorBehind
  <2>2. stored \in Int /\ cursor \in Int /\ r \in Rows
    BY <2>1, ConstFacts DEF StateInv, TypeOK, Owed
  <2>3. Ahead(r, cursor)
    BY <2>1 DEF OwesInv, CursorOwes
  <2> QED
    BY <2>1, <2>2, <2>3, AheadLower
<1>4. SeenOwes'
  <2>1. DOMAIN seen' = {}
    BY <1>1
  <2> QED
    BY <2>1 DEF SeenOwes
<1> QED
  BY <1>1, <1>3, <1>4 DEF OwesInv, WindowOwes, VisitOwes

\* Seeding gives up everything up to the new cursor.
LEMMA SeedOwes ==
  ASSUME StateInv, StateInv', OwesInv, SeedCursor
  PROVE  OwesInv'
<1>1. /\ UNCHANGED <<active, told, seen, swallowed, unrendered>> /\ cursor' = tickHead /\ at' # "visit"
      /\ writtenOff' = writtenOff \cup {r \in Rows \ told : Height(r) <= tickHead}
      /\ at = "lane"
  BY DEF SeedCursor, ToFlush, Settle
<1>2. \A r \in Owed' : r \in Owed /\ r \in Rows /\ ~(Height(r) <= tickHead)
  BY <1>1 DEF Owed
<1>3. CursorOwes'
  <2> SUFFICES ASSUME NEW r \in Owed' PROVE Ahead(r, tickHead)
    BY <1>1 DEF CursorOwes, Ahead
  <2>1. tickHead \in Int /\ Height(r) \in Int /\ ~(Height(r) <= tickHead)
    BY <1>1, <1>2, RowFacts, ConstFacts DEF StateInv, TickInv, TypeOK
  <2> QED
    BY <2>1 DEF Ahead
<1>4. SeenOwes'
  BY <1>1, <1>2 DEF OwesInv, SeenOwes, Ahead
<1> QED
  BY <1>1, <1>3, <1>4 DEF OwesInv, WindowOwes, VisitOwes

\* The window starts at the cursor, or its clamp gives up what lies below.
LEMMA BeginOwes ==
  ASSUME StateInv, StateInv', OwesInv, BeginLane
  PROVE  OwesInv'
<1> DEFINE w == resolveWindow(cursor, tickHead)
<1>1. /\ UNCHANGED <<active, told, seen, swallowed, unrendered, cursor>> /\ cursor # None /\ window' = w
      /\ keys' = active /\ visited' = {} /\ at' = "visit"
      /\ writtenOff' = IF w.from = cursor THEN writtenOff
                       ELSE writtenOff \cup {r \in Rows \ told : Height(r) <= w.from}
  BY DEF BeginLane, tables
<1> HIDE DEF w
<1>2. \A r \in Owed' : /\ r \in Owed /\ r \in Rows /\ r[1] \in keys'
                       /\ w.from = cursor \/ ~(Height(r) <= w.from)
  BY <1>1 DEF Owed
<1>3. w.from \in Int
  <2>1. w \in [from : 1..MaxHead, to : 1..MaxHead]
    BY <1>1 DEF StateInv, TickInv
  <2> QED
    BY <2>1, ConstFacts
<1>4. ASSUME NEW r \in Owed' PROVE Ahead(r, w.from)
  <2>1. CASE w.from = cursor
    BY <1>1, <1>2, <2>1 DEF OwesInv, CursorOwes
  <2>2. CASE ~(Height(r) <= w.from)
    BY <1>2, <1>3, <2>2, RowFacts, ConstFacts DEF Ahead
  <2> QED
    BY <1>2, <2>1, <2>2
<1>5. CursorOwes' /\ SeenOwes'
  BY <1>1, <1>2 DEF OwesInv, CursorOwes, SeenOwes, Ahead
<1>6. WindowOwes' /\ VisitOwes'
  BY <1>1, <1>2, <1>4 DEF WindowOwes, VisitOwes, Ahead
<1> QED
  BY <1>5, <1>6 DEF OwesInv

\* A visited group's owed rows are matched, or the feeds have not shown them yet: then
\* what the watermark lets the lane claim leaves them ahead.
LEMMA VisitOwed ==
  ASSUME StateInv, OwesInv, Visit, NEW r \in Owed', r[1] = Head(queue)
  PROVE  r \in matches' \/ Ahead(r, Covered)
<1> DEFINE g == Head(queue)
           f == window.from
           t == window.to
           h == Height(r)
<1>1. /\ at = "visit"
      /\ matches' = matches \cup {q \in Page(g) : Matched(q)}
      /\ writtenOff' = writtenOff \cup
           {q \in Rows \ told : q[1] = g /\ Visible(q) /\ Matched(q) /\ q \notin Page(g)}
      /\ UNCHANGED <<active, told, swallowed, unrendered>>
  BY DEF Visit, tables
<1>2. r \in Rows /\ r \in Owed /\ r \notin told /\ r \notin writtenOff'
  BY <1>1 DEF Owed
<1>3. /\ f \in Int /\ t \in Int /\ h \in Int /\ 1 <= h /\ 1 <= f /\ f <= t
      /\ TRAILING_RECHECK_BLOCKS \in Nat
  BY <1>1, <1>2, RowFacts, ConstFacts DEF StateInv, TickInv
<1>4. Covered \in Int /\ Covered <= t /\ (Covered = f \/ (tickSource \in 1..source /\ Covered <= tickSource))
      /\ f <= Covered
  BY <1>1, CoveredFacts, ConstFacts DEF StateInv
<1>5. Ahead(r, f)
  BY <1>1, <1>2 DEF OwesInv, WindowOwes
<1>6. CASE ~Matched(r)
  <2>1. ~(h > recheckFrom(window) /\ h <= t)
    BY <1>6 DEF Matched
  <2>2. recheckFrom(window) = IF 0 >= f - TRAILING_RECHECK_BLOCKS THEN 0 ELSE f - TRAILING_RECHECK_BLOCKS
    <3>1. 0 \in Int /\ f - TRAILING_RECHECK_BLOCKS \in Int
      BY <1>3
    <3> QED
      BY <3>1, Extremes DEF recheckFrom
  <2>3. CASE ~(h <= t)
    BY <1>3, <1>4, <2>3 DEF Ahead
  <2>4. CASE h <= t
    <3>1. ~(h > recheckFrom(window))
      BY <2>1, <2>4
    <3>2. h <= f - TRAILING_RECHECK_BLOCKS
      BY <1>3, <2>2, <3>1
    <3> QED
      BY <1>3, <1>5, <3>2 DEF Ahead
  <2> QED
    BY <2>3, <2>4
<1>7. CASE Matched(r) /\ ~Visible(r)
  <2>1. CASE Covered = f
    BY <1>5, <2>1
  <2>2. CASE Covered # f
    <3>1. source \in Int /\ tickSource \in Int /\ tickSource <= source /\ Covered <= tickSource
      BY <1>4, <2>2, ConstFacts DEF StateInv, TypeOK
    <3>2. Covered <= source /\ 1 < Covered
      BY <1>3, <1>4, <2>2, <3>1
    <3>3. CASE r \in LateRows
      <4>1. r \in LateRows \ revealed
        BY <1>7, <3>3 DEF Visible
      <4>2. source < h + TRAILING_RECHECK_BLOCKS
        BY <3>1, <3>2, <4>1, <1>4 DEF StateInv, SourceInv
      <4>3. h > Covered - TRAILING_RECHECK_BLOCKS
        BY <1>3, <1>4, <3>1, <3>2, <4>2
      <4> QED
        BY <3>3, <4>3 DEF Ahead
    <3>4. CASE r \notin LateRows
      <4>1. ~(h <= source)
        BY <1>7, <3>4 DEF Visible
      <4>2. h > Covered
        BY <1>3, <1>4, <3>1, <3>2, <4>1
      <4> QED
        BY <4>2 DEF Ahead
    <3> QED
      BY <3>3, <3>4
  <2> QED
    BY <2>1, <2>2
<1>8. CASE Matched(r) /\ Visible(r)
  <2>1. r \in Page(g)
    BY <1>1, <1>2, <1>8
  <2> QED
    BY <1>1, <1>8, <2>1
<1> QED
  BY <1>6, <1>7, <1>8

LEMMA VisitOwes1 ==
  ASSUME StateInv, StateInv', OwesInv, Visit
  PROVE  OwesInv'
<1>1. /\ at = "visit" /\ UNCHANGED <<cursor, seen, active, told, swallowed, unrendered, window, keys, tickSource, head>>
      /\ writtenOff \subseteq writtenOff' /\ visited' = visited \cup {Head(queue)}
      /\ matches \subseteq matches'
  BY DEF Visit, world, tables, memory
<1>2. \A r \in Owed' : r \in Owed
  BY <1>1 DEF Owed
<1>3. CursorOwes' /\ SeenOwes' /\ WindowOwes'
  BY <1>1, <1>2 DEF OwesInv, CursorOwes, SeenOwes, WindowOwes, Ahead
<1>4. VisitOwes'
  <2> SUFFICES ASSUME NEW r \in Owed', r[1] \in visited' PROVE r \in matches' \/ Ahead(r, Covered)
    BY <1>1 DEF VisitOwes, Ahead, Covered
  <2>1. CASE r[1] = Head(queue)
    BY <2>1, VisitOwed
  <2>2. CASE r[1] \in visited
    BY <1>1, <1>2, <2>2 DEF OwesInv, VisitOwes
  <2> QED
    BY <1>1, <2>1, <2>2
<1> QED
  BY <1>3, <1>4 DEF OwesInv

\* The cursor moves no further than the note of every group it answers for, and what a
\* group's note has passed was matched, hence carried or known.
LEMMA DeliverOwes ==
  ASSUME StateInv, StateInv', OwesInv, IdInv, Deliver
  PROVE  OwesInv'
<1> DEFINE s == SeenAfter(Covered)
           to == CoveredFloor(s, Covered)
<1>1. /\ at = "visit" /\ seen' = s /\ cursor' = to /\ at' # "visit"
      /\ told' = told \cup Carried /\ writtenOff' = writtenOff \ Carried
      /\ swallowed' = (swallowed \ Carried) \cup Swallowed
      /\ unrendered' = (unrendered \ Carried) \cup (thrown \ told) /\ UNCHANGED active
  BY DEF Deliver, InsertBatch, Covered, ToFlush, Settle
<1>2. \A r \in Owed' : /\ r \in Owed /\ r \in Rows /\ r[1] \in active
                       /\ r \notin Carried /\ r \notin Swallowed /\ r \notin told /\ r \notin thrown
  BY <1>1 DEF Owed
<1>3. /\ DOMAIN s \subseteq keys
      /\ \A g \in DOMAIN s : s[g] \in 0..MaxHead
      /\ \A g \in DOMAIN s : \/ s[g] = 0
                             \/ g \in DOMAIN seen /\ s[g] = seen[g]
                             \/ g \in visited /\ s[g] = Covered
  BY <1>1, SeenFacts DEF StateInv
<1>4. /\ to \in 1..MaxHead /\ to <= window.to
      /\ to = cursor \/ (keys \subseteq DOMAIN s /\ \A g \in keys : to <= s[g])
  BY <1>1, FloorFacts DEF StateInv
<1> HIDE DEF to, s
<1>5. \A r \in Owed' : r \notin matches
  <2> SUFFICES ASSUME NEW r \in Owed', r \in matches PROVE FALSE
    OBVIOUS
  <2>1. RowId(r) \notin remembered
    BY <1>2 DEF IdInv, TellInv
  <2> QED
    BY <1>2, <2>1, FreshCarried DEF StateInv
<1>6. ASSUME NEW r \in Owed', r[1] \in DOMAIN s PROVE Ahead(r, s[r[1]])
  <2>1. CASE s[r[1]] = 0
    BY <1>2, <2>1, RowFacts, ConstFacts DEF Ahead
  <2>2. CASE r[1] \in DOMAIN seen /\ s[r[1]] = seen[r[1]]
    BY <1>2, <2>2 DEF OwesInv, SeenOwes
  <2>3. CASE r[1] \in visited /\ s[r[1]] = Covered
    BY <1>1, <1>2, <1>5, <2>3 DEF OwesInv, VisitOwes
  <2> QED
    BY <1>3, <1>6, <2>1, <2>2, <2>3
<1>7. ASSUME NEW r \in Owed' PROVE Ahead(r, to)
  <2>1. CASE to = cursor
    <3>1. cursor # None
      BY <1>1 DEF StateInv, TickInv
    <3> QED
      BY <1>2, <2>1, <3>1 DEF OwesInv, CursorOwes
  <2>2. CASE keys \subseteq DOMAIN s /\ \A g \in keys : to <= s[g]
    <3>1. CASE r[1] \in keys
      <4>1. Ahead(r, s[r[1]]) /\ to <= s[r[1]] /\ s[r[1]] \in 0..MaxHead
        BY <1>3, <1>6, <2>2, <3>1
      <4>2. s[r[1]] \in Int /\ to \in Int /\ r \in Rows
        BY <1>2, <1>4, <4>1, ConstFacts
      <4> QED
        BY <4>1, <4>2, AheadLower
    <3>2. CASE r[1] \notin keys
      <4>1. Height(r) > head
        BY <1>1, <1>2, <3>2 DEF OwesInv, WindowOwes
      <4>2. to \in Int /\ head \in Int /\ window.to \in Int /\ window.to <= head /\ r \in Rows
        BY <1>1, <1>2, <1>4, ConstFacts DEF StateInv, TypeOK, TickInv
      <4>3. to <= head
        BY <1>4, <4>2
      <4> QED
        BY <4>1, <4>2, <4>3, AheadLower
    <3> QED
      BY <3>1, <3>2
  <2> QED
    BY <1>4, <2>1, <2>2
<1>8. CursorOwes' /\ SeenOwes'
  BY <1>1, <1>6, <1>7 DEF CursorOwes, SeenOwes, Ahead
<1> QED
  BY <1>1, <1>8 DEF OwesInv, WindowOwes, VisitOwes

LEMMA OwesStep == StateInv /\ StateInv' /\ OwesInv /\ IdInv /\ [Next]_vars => OwesInv'
BY QuietOwes, ToggleOwes, FailedWriteOwes, CrashOwes, SeedOwes, BeginOwes, VisitOwes1, DeliverOwes
   DEF Next, WorldMoves, Tick

-----------------------------------------------------------------------------
(* What the dedup memory knows.                                            *)

LEMMA InitIds == Init => IdInv
BY ConstFacts DEF Init, IdInv, TellInv, KnownInv, DigestInv

\* A row lost with its digest lies strictly inside another digest of the inbox, and
\* the process has restarted: otherwise the digest's first row would be known.
LEMMA SwallowedFacts ==
  ASSUME StateInv, IdInv, NEW r \in Swallowed
  PROVE  /\ restarted
         /\ \E a, b \in 1..MaxHead :
              a < Height(r) /\ Height(r) < b /\ <<r[1], "digest", a, b>> \in inbox
<1>1. TypeOK
  BY DEF StateInv
<1>2. PICK g \in Groups : r \in Overflow(g) /\ r \notin Carried /\ r \notin told
  BY DEF Swallowed
<1>3. DigestId(Overflow(g)) \in remembered
  BY <1>2 DEF Carried, Digests
<1>4. PICK p, q \in Overflow(g) :
        /\ DigestId(Overflow(g)) = <<g, "digest", Height(p), Height(q)>>
        /\ \A x \in Overflow(g) : Height(p) <= Height(x) /\ Height(x) <= Height(q)
  BY <1>1, <1>2, DigestFacts
<1>5. /\ p \in Rows /\ p[1] = g /\ RowId(p) \notin remembered
      /\ q \in Rows /\ q[1] = g /\ r \in Rows /\ r[1] = g
  BY <1>1, <1>2, FreshFacts
<1>6. /\ Height(p) \in 1..MaxHead /\ Height(q) \in 1..MaxHead /\ Height(r) \in 1..MaxHead
      /\ RowId(p) = <<g, "row", Height(p), Height(p)>> /\ r = <<g, Height(r)>>
  BY <1>5, RowFacts DEF RowId
<1> DEFINE a == Height(p)
           b == Height(q)
           h == Height(r)
<1>7. <<g, "digest", a, b>> \in remembered
  BY <1>3, <1>4
<1>8. <<g, "digest", a, b>> \in inbox /\ <<g, a>> \in told /\ <<g, b>> \in told
  BY <1>6, <1>7 DEF IdInv, TellInv
<1>9. restarted
  BY <1>5, <1>6, <1>7 DEF IdInv, DigestInv
<1>10. a # h /\ b # h /\ a <= h /\ h <= b
  BY <1>2, <1>4, <1>6, <1>8
<1> HIDE DEF a, b, h
<1>11. a < h /\ h < b /\ a \in 1..MaxHead /\ b \in 1..MaxHead
  BY <1>6, <1>10, ConstFacts DEF a, b, h
<1> QED
  BY <1>5, <1>8, <1>9, <1>11 DEF h

\* An insert that is acknowledged, and one whose answer is lost.
LEMMA InsertTells ==
  ASSUME StateInv, IdInv, InsertBatch, remembered' \in {remembered, RememberedAfter}
  PROVE  TellInv'
<1>1. TypeOK /\ Carried \subseteq Rows /\ (\A r \in Rows : RowId(r) \in Batch => r \in Carried)
  BY BatchIds, CarriedFacts DEF StateInv
<1>2. told' = told \cup Carried /\ inbox' = inbox \cup Batch
      /\ remembered' \subseteq remembered \cup Batch \cup {RowId(q) : q \in Carried}
  BY DEF InsertBatch, RememberedAfter
<1>3. ASSUME NEW r \in Rows, RowId(r) \in remembered' \cup inbox' PROVE r \in told'
  <2>1. CASE RowId(r) \in {RowId(q) : q \in Carried}
    BY <1>1, <1>2, <2>1, RowIdInjective
  <2>2. CASE RowId(r) \in remembered \cup inbox \cup Batch
    BY <1>1, <1>2, <2>2 DEF IdInv, TellInv
  <2> QED
    BY <1>2, <1>3, <2>1, <2>2
<1>4. ASSUME NEW g \in Groups, NEW a \in 1..MaxHead, NEW b \in 1..MaxHead,
             <<g, "digest", a, b>> \in remembered' \cup inbox'
      PROVE  <<g, "digest", a, b>> \in inbox' /\ {<<g, a>>, <<g, b>>} \subseteq told'
  <2>1. CASE <<g, "digest", a, b>> \in remembered \cup inbox
    BY <1>2, <2>1 DEF IdInv, TellInv
  <2>2. CASE <<g, "digest", a, b>> \in {RowId(q) : q \in Carried}
    BY <2>2 DEF RowId
  <2>3. CASE <<g, "digest", a, b>> \in Batch
    <3>1. CASE \E r \in Carried : <<g, "digest", a, b>> = RowId(r)
      BY <3>1 DEF RowId
    <3>2. CASE \E p, q \in Carried :
                 <<g, "digest", a, b>> = <<p[1], "digest", Height(p), Height(q)>> /\ p[1] = q[1]
      <4>1. PICK p, q \in Carried : p[1] = g /\ q[1] = g /\ Height(p) = a /\ Height(q) = b
        BY <3>2
      <4>2. p = <<g, a>> /\ q = <<g, b>>
        BY <1>1, <4>1, RowFacts
      <4> QED
        BY <1>2, <2>3, <4>1, <4>2
    <3> QED
      BY <1>1, <2>3, <3>1, <3>2, BatchFacts
  <2> QED
    BY <1>2, <1>4, <2>1, <2>2, <2>3
<1> QED
  BY <1>3, <1>4 DEF TellInv

LEMMA DeliverIds ==
  ASSUME StateInv, StateInv', IdInv, Deliver
  PROVE  IdInv'
<1>1. /\ InsertBatch /\ remembered' = RememberedAfter
      /\ swallowed' = (swallowed \ Carried) \cup Swallowed
      /\ uncertain' = uncertain /\ restarted' = restarted /\ faults' = faults
      /\ inbox' = inbox \cup Batch /\ told' = told \cup Carried
  BY DEF Deliver, InsertBatch, bounds
<1>2. TellInv'
  BY <1>1, InsertTells
<1>3. KnownInv'
  BY <1>1 DEF IdInv, KnownInv, RememberedAfter
<1>4. ASSUME ~restarted'
      PROVE  /\ swallowed' = {}
             /\ \A g \in Groups, a, b \in 1..MaxHead :
                  <<g, "digest", a, b>> \in remembered' => <<g, "row", a, a>> \in remembered'
  <2>1. swallowed' = {}
    BY <1>1, <1>4, SwallowedFacts DEF IdInv, DigestInv
  <2>2. ASSUME NEW g \in Groups, NEW a \in 1..MaxHead, NEW b \in 1..MaxHead,
               <<g, "digest", a, b>> \in remembered'
        PROVE  <<g, "row", a, a>> \in remembered'
    <3>1. CASE <<g, "digest", a, b>> \in remembered
      BY <1>1, <1>4, <3>1 DEF IdInv, DigestInv, RememberedAfter
    <3>2. CASE <<g, "digest", a, b>> \in {RowId(r) : r \in Carried}
      BY <3>2 DEF RowId
    <3>3. CASE <<g, "digest", a, b>> \in Batch
      <4>1. CASE \E r \in Carried : <<g, "digest", a, b>> = RowId(r)
        BY <4>1 DEF RowId
      <4>2. CASE \E p, q \in Carried :
                   <<g, "digest", a, b>> = <<p[1], "digest", Height(p), Height(q)>> /\ p[1] = q[1]
        <5>1. PICK p \in Carried : p[1] = g /\ Height(p) = a
          BY <4>2
        <5>2. RowId(p) = <<g, "row", a, a>>
          BY <5>1 DEF RowId
        <5> QED
          BY <1>1, <5>1, <5>2 DEF RememberedAfter
      <4> QED
        BY <3>3, <4>1, <4>2, BatchFacts DEF StateInv
    <3> QED
      BY <1>1, <2>2, <3>1, <3>2, <3>3 DEF RememberedAfter
  <2> QED
    BY <2>1, <2>2
<1>5. ASSUME NEW r \in swallowed'
      PROVE  \E a, b \in 1..MaxHead :
               a < Height(r) /\ Height(r) < b /\ <<r[1], "digest", a, b>> \in inbox'
  <2>1. CASE r \in swallowed
    BY <1>1, <2>1 DEF IdInv, DigestInv
  <2>2. CASE r \in Swallowed
    BY <1>1, <2>2, SwallowedFacts
  <2> QED
    BY <1>1, <1>5, <2>1, <2>2
<1>6. DigestInv'
  BY <1>4, <1>5 DEF DigestInv, Height
<1> QED
  BY <1>2, <1>3, <1>6 DEF IdInv

\* A step that leaves the ids and the lost rows alone, or that counts as a failure.
LEMMA IdsKept ==
  ASSUME IdInv, faults' = 0 => faults = 0,
         UNCHANGED <<remembered, inbox, told, swallowed, uncertain, restarted>>
  PROVE  IdInv'
BY DEF IdInv, TellInv, KnownInv, DigestInv, Height

LEMMA IdStep == StateInv /\ StateInv' /\ IdInv /\ [Next]_vars => IdInv'
<1> SUFFICES ASSUME StateInv, StateInv', IdInv, [Next]_vars PROVE IdInv'
  OBVIOUS
<1>1. faults \in Nat /\ faults' \in Nat
  BY DEF StateInv
<1>2. CASE InboxWriteFails
  <2>1. faults' > 0 /\ remembered' = remembered /\ restarted' = restarted
    BY <1>1, <1>2 DEF InboxWriteFails, Fault, memory
  <2>2. CASE UNCHANGED <<inbox, told, writtenOff, swallowed, unrendered, uncertain>>
    BY <2>1, <2>2, IdsKept
  <2>3. CASE InsertBatch /\ uncertain' = TRUE /\ swallowed' = swallowed \ Carried
    <3>1. TellInv'
      BY <2>1, <2>3, InsertTells
    <3>2. KnownInv'
      BY <2>1, <2>3 DEF KnownInv
    <3>3. inbox \subseteq inbox'
      BY <2>3 DEF InsertBatch
    <3>4. DigestInv'
      BY <2>1, <2>3, <3>3 DEF IdInv, DigestInv, Height
    <3> QED
      BY <3>1, <3>2, <3>4 DEF IdInv
  <2> QED
    BY <1>2, <2>2, <2>3 DEF InboxWriteFails
<1>3. CASE Crash
  <2>1. faults' > 0 /\ remembered' = inbox /\ restarted' = TRUE
        /\ UNCHANGED <<inbox, told, swallowed, uncertain>>
    BY <1>1, <1>3 DEF Crash, Fault, tables, LoadedIds
  <2> QED
    BY <2>1 DEF IdInv, TellInv, KnownInv, DigestInv, Height
<1>4. CASE \/ AdvanceHead \/ AdvanceSource \/ (\E r \in LateRows : Reveal(r))
           \/ ReadHead \/ LaneIdle \/ BeginLane \/ Visit \/ FlushCursor \/ SkipFlush \/ UNCHANGED vars
  <2>1. UNCHANGED <<remembered, inbox, told, swallowed, uncertain, restarted, faults>>
    BY <1>4 DEF AdvanceHead, AdvanceSource, Reveal, ReadHead, LaneIdle, BeginLane, Visit,
                FlushCursor, SkipFlush, vars, tables, memory, ledger, bounds
  <2> QED
    BY <2>1, IdsKept
<1>5. CASE \/ \E g \in Groups : ToggleRule(g) \/ DispatchThrows(g)
           \/ ReadSource \/ SeedCursor \/ HeadUnreadable \/ VisitFails \/ FlushFails
  <2>1. UNCHANGED <<remembered, inbox, told, swallowed, uncertain, restarted>>
    BY <1>5 DEF ToggleRule, DispatchThrows, ReadSource, SeedCursor, HeadUnreadable, VisitFails,
                FlushFails, tables, memory, ledger
  <2>2. faults' = faults \/ faults' = faults + 1
    BY <1>5 DEF ToggleRule, DispatchThrows, ReadSource, SeedCursor, HeadUnreadable, VisitFails,
                FlushFails, Fault
  <2> QED
    BY <1>1, <2>1, <2>2, IdsKept
<1> QED
  BY <1>2, <1>3, <1>4, <1>5, DeliverIds DEF Next, WorldMoves, Tick

-----------------------------------------------------------------------------
(* The theorems.                                                           *)

LEMMA IInvParts == IInv <=> StateInv /\ OwesInv /\ IdInv
BY DEF IInv, StateInv, OwesInv

LEMMA InitIInv == Init => IInv
BY InitState, InitOwes, InitIds, IInvParts

LEMMA NextIInv == IInv /\ [Next]_vars => IInv'
<1> SUFFICES ASSUME IInv, [Next]_vars PROVE IInv'
  OBVIOUS
<1>1. StateInv /\ OwesInv /\ IdInv
  BY IInvParts
<1>2. StateInv'
  BY <1>1, StateStep
<1>3. OwesInv' /\ IdInv'
  BY <1>1, <1>2, OwesStep, IdStep
<1> QED
  BY <1>2, <1>3 DEF IInv, StateInv, OwesInv

\* The inductive invariant of the lane: its tick is well formed, every owed row lies
\* ahead of the cursor, of the open window and of the note of its group, and the dedup
\* memory knows what was told.
THEOREM AlertInvariant == Spec => []IInv
<1>1. Init => IInv
  BY InitIInv
<1>2. IInv /\ [Next]_vars => IInv'
  BY NextIInv
<1> QED
  BY <1>1, <1>2, PTL DEF Spec

\* CursorInv: types, the bound on the window, and stored cursor <= cursor <= head.
THEOREM AlertCursor == Spec => []CursorInv
<1>1. IInv => CursorInv
  BY DEF IInv, CursorInv
<1> QED
  BY <1>1, AlertInvariant, PTL

\* NothingLost: whatever is delivered, fails, restarts or is muted, in whatever
\* order, a row of an active rule is told, given up or still ahead of the cursor, unless
\* its rendering threw or, after a restart, its digest was taken for one around it.
THEOREM AlertNothingLost == Spec => []NothingLost
<1>1. IInv => NothingLost
  BY DEF IInv, NothingLost, CursorOwes, Owed, Ahead, IdInv, DigestInv
<1> QED
  BY <1>1, AlertInvariant, PTL

\* RepeatsExplained: a row gets a second inbox row only after a failure, and never
\* beside a row of its own unless the answer of an insert was lost.
THEOREM AlertRepeats == Spec => RepeatsExplained
<1> DEFINE Explained == \A r \in Repeated :
                           inbox' # inbox => /\ faults' > 0
                                             /\ uncertain \/ RowId(r) \notin inbox
<1>1. IInv /\ [Next]_vars => [Explained]_vars
  <2> SUFFICES ASSUME IInv, [Next]_vars, NEW r \in Repeated, inbox' # inbox
               PROVE  faults' > 0 /\ (uncertain \/ RowId(r) \notin inbox)
    OBVIOUS
  <2>1. StateInv /\ IdInv /\ TypeOK /\ faults \in Nat
    BY DEF IInv, StateInv
  <2>2. Deliver \/ InboxWriteFails
    BY DEF Next, WorldMoves, Tick, AdvanceHead, AdvanceSource, Reveal, ToggleRule, ReadHead,
           ReadSource, LaneIdle, SeedCursor, BeginLane, Visit, FlushCursor, SkipFlush,
           HeadUnreadable, VisitFails, DispatchThrows, FlushFails, Crash, vars, tables
  <2>3. r \in Carried /\ r \in told
    BY DEF Repeated
  <2>4. RowId(r) \notin remembered /\ r \in Rows
    BY <2>1, <2>3, CarriedFacts
  <2>5. faults # 0 /\ (uncertain \/ RowId(r) \notin inbox)
    BY <2>1, <2>3, <2>4 DEF IdInv, KnownInv
  <2>6. faults' = faults \/ faults' = faults + 1
    BY <2>2 DEF Deliver, InboxWriteFails, Fault, bounds
  <2> QED
    BY <2>1, <2>5, <2>6
<1> QED
  BY <1>1, AlertInvariant, PTL DEF Spec, RepeatsExplained
=============================================================================
