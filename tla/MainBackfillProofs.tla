------------------------- MODULE MainBackfillProofs -------------------------
(***************************************************************************)
(* Proofs about MainBackfill for every chain height, every set of raw      *)
(* ranges, every cap, batch and chunk size and every number of faults.     *)
(***************************************************************************)
EXTENDS MainBackfill, FiniteSetTheorems, TLAPS

-----------------------------------------------------------------------------
(* The inductive invariant.                                                *)

\* The supervisor holds a range of its own exactly when it is about to start it.
Holding == at \in {"restart", "links", "start"}

\* It knows the frontier it works under.
Claiming == at \in {"ranges", "links", "start"}

\* Ranges with a container, or with one about to be put back.
Held == Names \cup (IF at = "restart" THEN {cur} ELSE {})

\* The cleanup works on containers that have stopped and are still there; a batch
\* ends just below the frontier.
LoopInv ==
  /\ Holding => cur \in Claims
  /\ todo \subseteq Names \ Running
  /\ at \notin {"clean", "restart"} => todo = {}
  /\ at = "restart" => cur \notin Names
  /\ Claiming => frontier \in 1..Top
  /\ at \in {"links", "start"} => cur[2] = frontier - 1

\* What a container has published of its range, by its phase, and a checkpoint
\* stands for a published range.
BoxInv ==
  /\ \A r \in checkpoints : Heights(r) \subseteq blocks
  /\ \A r \in Names :
       /\ box[r] \in [status : {"up", "exited0", "exited1"},
                      phase : {"index", "publish", "save", "done"}, next : Nat]
       /\ box[r].phase \in {"index", "publish"} =>
            box[r].next <= r[2] /\ r[1]..(box[r].next - 1) \subseteq blocks
       /\ box[r].phase \in {"save", "done"} => Heights(r) \subseteq blocks
       /\ box[r].status = "exited0" /\ faults.stop = 0 => Heights(r) \subseteq blocks

\* A height is published, promised or given up.
Accounted(h) == h \in blocks \cup dropped \/ \E r \in Held : h \in Heights(r)

\* Nothing above a published block or a held range is unaccounted for, nor is
\* anything above the frontier of the claim that is being made.
HoleInv ==
  /\ blocks # {} => Top \in blocks
  /\ Names # {} \/ at = "restart" \/ Claiming => blocks # {}
  /\ \A h \in 0..Top :
       (\E b \in blocks : b <= h) \/ (\E r \in Held : r[1] <= h) => Accounted(h)
  /\ at = "min" => frontier = Top \/ \E r \in Names : frontier = r[1]
  /\ Claiming => \A h \in frontier..Top : Accounted(h)

\* While docker ps answers, held ranges are disjoint and what is being claimed lies
\* below all of them and below every published block.
DisjointInv ==
  faults.docker = 0 =>
    /\ \A r, s \in Held : r = s \/ Heights(r) \cap Heights(s) = {}
    /\ Claiming \/ at = "min" => \A r \in Names : frontier <= r[1]
    /\ Claiming => \A b \in blocks : frontier <= b

\* While no completed raw range is taken back, every range held or being claimed
\* lies in completed ones.
CoverInv ==
  faults.downgrade = 0 =>
    /\ \A r \in Names : FinalizedRawCoverage(completed, r[1], r[2])
    /\ Holding => FinalizedRawCoverage(completed, cur[1], cur[2])

\* Without a failure of any kind no container is restarted, and a claim is made only
\* under the cap.
CapInv ==
  faults.crash + faults.docker + faults.downgrade = 0 =>
    /\ at # "restart"
    /\ \A r \in Names : box[r].status # "exited1"
    /\ Cardinality(Running) <= MAIN_WORKERS
    /\ at = "names" \/ at = "min" \/ Claiming => Cardinality(Running) < MAIN_WORKERS

IInv == /\ TypeOK /\ LoopInv /\ BoxInv /\ HoleInv /\ DisjointInv /\ CoverInv /\ CapInv
        /\ DropsExplained

-----------------------------------------------------------------------------
(* Facts about the constants, minima and ranges.                       *)

LEMMA ConstFacts ==
  /\ Top \in Nat /\ MaxFaults \in Nat
  /\ MAIN_WORKERS \in Nat \ {0} /\ MAIN_MAX_RANGES \in Nat \ {0} /\ PublicationChunk \in Nat \ {0}
  /\ \A q \in RawRanges : q[1] \in Nat /\ q[2] \in Nat /\ q[1] <= q[2] /\ q[2] < Top
BY MainBackfillAssumption

\* A set of naturals has a least element, which is what Min denotes.
LEMMA NatMin ==
  ASSUME NEW S \in SUBSET Nat, S # {}
  PROVE  Min(S) \in S /\ \A x \in S : Min(S) <= x
<1> DEFINE Less == {p \in Nat \X Nat : p[1] < p[2]}
<1>1. IsWellFoundedOn(Less, Nat)
  BY NatLessThanWellFounded DEF OpToRel
<1>2. PICK m \in S : \A x \in S : <<x, m>> \notin Less
  <2> HIDE DEF Less
  <2> QED
    BY <1>1, WFMin
<1>3. ASSUME NEW x \in S PROVE m <= x
  <2>1. m \in Nat /\ x \in Nat /\ <<x, m>> \in Nat \X Nat /\ <<x, m>> \notin Less
    BY <1>2
  <2>2. ~(x < m)
    BY <2>1
  <2> QED
    BY <2>1, <2>2
<1> QED
  BY <1>3 DEF Min

-----------------------------------------------------------------------------
(* The range arithmetic of RawCoverage.  A loop is a recursive function of *)
(* the number of ranges it has visited; what it computes is established by *)
(* induction on that number, with the set of the numbers it holds for.     *)

\* A set of naturals that holds 0 and is closed under successor holds all of them:
\* the least number it lacked would have a predecessor that it has.
LEMMA NatInduct ==
  ASSUME NEW T \in SUBSET Nat, 0 \in T, \A n \in T : n + 1 \in T
  PROVE  T = Nat
<1> DEFINE Bad == Nat \ T
<1>1. SUFFICES ASSUME Bad # {} PROVE FALSE
  OBVIOUS
<1> DEFINE m == Min(Bad)
<1>2. m \in Bad /\ \A x \in Bad : m <= x
  BY <1>1, NatMin
<1> HIDE DEF m
<1>3. m \in Nat /\ m # 0
  BY <1>2
<1>4. m - 1 \in Nat /\ m - 1 \notin Bad
  BY <1>2, <1>3
<1>5. (m - 1) + 1 = m
  BY <1>3
<1> QED
  BY <1>2, <1>4, <1>5

\* The greater and the smaller of two numbers.
LEMMA Extremes ==
  ASSUME NEW a \in Int, NEW b \in Int
  PROVE  /\ Max({a, b}) = IF a >= b THEN a ELSE b
         /\ Min({a, b}) = IF a <= b THEN a ELSE b
<1>1. PICK hi \in {a, b} : \A y \in {a, b} : hi >= y
  OBVIOUS
<1>2. Max({a, b}) \in {a, b} /\ \A y \in {a, b} : Max({a, b}) >= y
  BY <1>1 DEF Max
<1>3. PICK lo \in {a, b} : \A y \in {a, b} : lo <= y
  OBVIOUS
<1>4. Min({a, b}) \in {a, b} /\ \A y \in {a, b} : Min({a, b}) <= y
  BY <1>3 DEF Min
<1> QED
  BY <1>2, <1>4

\* g holds the values of a loop after 0, 1, ..., n turns, each of which F takes further.
RunsFrom(A, a0, n, F, g) ==
  g \in [0..n -> A] /\ g[0] = a0 /\ \A i \in 1..n : g[i] = F[i][g[i - 1]]

\* A loop of n turns has a run.
LEMMA LoopRuns ==
  ASSUME NEW A, NEW a0 \in A, NEW n \in Nat, NEW F \in [1..n -> [A -> A]]
  PROVE  \E g : RunsFrom(A, a0, n, F, g)
<1> DEFINE Run(g, k) == g[0] = a0 /\ \A i \in 1..k : g[i] = F[i][g[i - 1]]
           T == {k \in Nat : k <= n => \E g \in [0..k -> A] : Run(g, k)}
<1>1. 0 \in T
  <2>1. Run([i \in 0..0 |-> a0], 0)
    OBVIOUS
  <2>2. [i \in 0..0 |-> a0] \in [0..0 -> A]
    OBVIOUS
  <2> HIDE DEF Run
  <2> QED
    BY <2>1, <2>2
<1>2. ASSUME NEW k \in T, k + 1 <= n PROVE \E g \in [0..(k + 1) -> A] : Run(g, k + 1)
  <2>1. k \in Nat /\ k <= n
    BY <1>2
  <2>2. PICK g \in [0..k -> A] : Run(g, k)
    BY <1>2, <2>1
  <2> DEFINE e == F[k + 1][g[k]]
             f == [i \in 0..(k + 1) |-> IF i = k + 1 THEN e ELSE g[i]]
  <2>3. e \in A
    <3>1. k + 1 \in 1..n /\ g[k] \in A
      BY <1>2, <2>1
    <3> QED
      BY <3>1
  <2>4. f \in [0..(k + 1) -> A]
    BY <2>1, <2>3
  <2>5. f[0] = a0
    BY <2>1, <2>2
  <2>6. ASSUME NEW i \in 1..(k + 1) PROVE f[i] = F[i][f[i - 1]]
    <3>1. CASE i = k + 1
      BY <2>1, <3>1
    <3>2. CASE i # k + 1
      <4>1. i \in 1..k /\ i - 1 \in 0..k /\ i \in 0..(k + 1) /\ i - 1 \in 0..(k + 1) /\ i - 1 # k + 1
        BY <2>1, <3>2
      <4>2. g[i] = F[i][g[i - 1]]
        BY <2>2, <4>1
      <4>3. f[i] = g[i] /\ f[i - 1] = g[i - 1]
        BY <3>2, <4>1
      <4> QED
        BY <4>2, <4>3
    <3> QED
      BY <3>1, <3>2
  <2>7. Run(f, k + 1)
    BY <2>5, <2>6
  <2> HIDE DEF f, Run
  <2> QED
    BY <2>4, <2>7
<1>3. T = Nat
  <2>1. T \in SUBSET Nat
    OBVIOUS
  <2>2. \A k \in T : k + 1 \in T
    <3>1. SUFFICES ASSUME NEW k \in T PROVE k + 1 \in T
      OBVIOUS
    <3>2. k + 1 \in Nat
      BY <2>1
    <3> HIDE DEF Run
    <3> QED
      BY <1>2, <3>2
  <2> HIDE DEF T
  <2> QED
    BY <1>1, <2>1, <2>2, NatInduct
<1>4. n \in T
  BY <1>3
<1> QED
  BY <1>4 DEF RunsFrom

-----------------------------------------------------------------------------
(* Sorting.                                                                *)

\* Ranges that hold a block.
Spans == {r \in Nat \X Nat : r[1] <= r[2]}

LEMMA SpanFacts ==
  ASSUME NEW r \in Spans
  PROVE  /\ r[1] \in Nat /\ r[2] \in Nat /\ r[1] <= r[2] /\ r = <<r[1], r[2]>>
         /\ \A h : h \in Heights(r) <=> h \in Nat /\ r[1] <= h /\ h <= r[2]
BY DEF Spans, Heights

LEMMA SpanMade ==
  ASSUME NEW a \in Nat, NEW b \in Nat, a <= b
  PROVE  <<a, b>> \in Spans /\ <<a, b>>[1] = a /\ <<a, b>>[2] = b
BY DEF Spans

Ascending(s, n) == \A i, j \in 1..n : i < j => Before(s[i], s[j])

\* A non-empty set of spans has a first one.
LEMMA FirstSpan ==
  ASSUME NEW S \in SUBSET Spans, S # {}
  PROVE  \E x \in S : \A r \in S \ {x} : Before(x, r)
<1> DEFINE Froms == {r[1] : r \in S}
           a == Min(Froms)
<1>1. a \in Froms /\ \A x \in Froms : a <= x
  <2>1. Froms \in SUBSET Nat /\ Froms # {}
    BY SpanFacts
  <2> HIDE DEF Froms
  <2> QED
    BY <2>1, NatMin
<1> HIDE DEF a
<1> DEFINE Tos == {r[2] : r \in {q \in S : q[1] = a}}
           b == Min(Tos)
<1>2. b \in Tos /\ \A x \in Tos : b <= x
  <2>1. Tos \in SUBSET Nat /\ Tos # {}
    BY <1>1, SpanFacts
  <2> HIDE DEF Tos
  <2> QED
    BY <2>1, NatMin
<1> HIDE DEF b
<1>3. PICK x \in S : x[1] = a /\ x[2] = b
  BY <1>2
<1>4. ASSUME NEW r \in S \ {x} PROVE Before(x, r)
  <2>1. r \in Spans /\ x \in Spans
    OBVIOUS
  <2>2. r = <<r[1], r[2]>> /\ x = <<x[1], x[2]>> /\ r[1] \in Nat /\ r[2] \in Nat /\ a \in Nat /\ b \in Nat
    BY <1>3, <2>1, SpanFacts
  <2>3. r[1] # a \/ r[2] # b
    BY <1>3, <2>2
  <2>4. a <= r[1] /\ (r[1] = a => b <= r[2])
    BY <1>1, <1>2
  <2> QED
    BY <1>3, <2>2, <2>3, <2>4 DEF Before
<1> QED
  BY <1>4

\* A finite set of spans can be listed in order.
LEMMA SortExists ==
  ASSUME NEW n \in Nat
  PROVE  \A S \in SUBSET Spans : IsFiniteSet(S) /\ Cardinality(S) = n =>
           \E s \in [1..n -> S] : Ascending(s, n) /\ \A r \in S : \E i \in 1..n : s[i] = r
<1> DEFINE Listed(S, k) == \E s \in [1..k -> S] : Ascending(s, k) /\ \A r \in S : \E i \in 1..k : s[i] = r
           T == {k \in Nat : \A S \in SUBSET Spans : IsFiniteSet(S) /\ Cardinality(S) = k => Listed(S, k)}
<1>1. 0 \in T
  <2>1. SUFFICES ASSUME NEW S \in SUBSET Spans, IsFiniteSet(S), Cardinality(S) = 0 PROVE Listed(S, 0)
    <3> HIDE DEF Listed
    <3> QED
      OBVIOUS
  <2>2. S = {}
    BY <2>1, FS_EmptySet
  <2>3. [i \in 1..0 |-> {}] \in [1..0 -> S] /\ Ascending([i \in 1..0 |-> {}], 0)
    BY DEF Ascending
  <2> QED
    BY <2>2, <2>3
<1>2. ASSUME NEW k \in T PROVE k + 1 \in T
  <2>0. k \in Nat /\ k + 1 \in Nat
    OBVIOUS
  <2>1. SUFFICES ASSUME NEW S \in SUBSET Spans, IsFiniteSet(S), Cardinality(S) = k + 1 PROVE Listed(S, k + 1)
    <3> HIDE DEF Listed
    <3> QED
      BY <2>0
  <2>2. S # {}
    BY <2>0, <2>1, FS_EmptySet
  <2>3. PICK x \in S : \A r \in S \ {x} : Before(x, r)
    BY <2>2, FirstSpan
  <2>4. IsFiniteSet(S \ {x}) /\ Cardinality(S \ {x}) = k /\ S \ {x} \in SUBSET Spans
    <3> HIDE DEF T
    <3>1. IsFiniteSet(S \ {x}) /\ Cardinality(S \ {x}) = Cardinality(S) - 1
      BY <2>1, FS_RemoveElement
    <3> QED
      BY <2>0, <2>1, <3>1
  <2>5. PICK t \in [1..k -> S \ {x}] : Ascending(t, k) /\ \A r \in S \ {x} : \E i \in 1..k : t[i] = r
    BY <2>4
  <2> DEFINE s == [i \in 1..(k + 1) |-> IF i = 1 THEN x ELSE t[i - 1]]
  <2>6. \A i \in 1..(k + 1) : i # 1 => i - 1 \in 1..k /\ s[i] = t[i - 1] /\ s[i] \in S \ {x}
    BY <2>0
  <2>7. s \in [1..(k + 1) -> S] /\ s[1] = x /\ 1 \in 1..(k + 1)
    BY <2>0, <2>6
  <2>8. Ascending(s, k + 1)
    <3>1. SUFFICES ASSUME NEW i \in 1..(k + 1), NEW j \in 1..(k + 1), i < j PROVE Before(s[i], s[j])
      BY DEF Ascending
    <3>2. j # 1 /\ s[j] = t[j - 1] /\ s[j] \in S \ {x} /\ j - 1 \in 1..k
      BY <2>0, <2>6, <3>1
    <3>3. CASE i = 1
      BY <2>3, <2>7, <3>2, <3>3
    <3>4. CASE i # 1
      <4>1. s[i] = t[i - 1] /\ i - 1 \in 1..k /\ i - 1 < j - 1
        BY <2>0, <2>6, <3>1, <3>4
      <4> QED
        BY <2>5, <3>2, <4>1 DEF Ascending
    <3> QED
      BY <3>3, <3>4
  <2>9. ASSUME NEW r \in S PROVE \E i \in 1..(k + 1) : s[i] = r
    <3>1. CASE r = x
      BY <2>7, <3>1
    <3>2. CASE r # x
      <4>1. PICK i \in 1..k : t[i] = r
        BY <2>5, <3>2
      <4>2. i + 1 \in 1..(k + 1) /\ s[i + 1] = t[i]
        BY <2>0
      <4> QED
        BY <4>1, <4>2
    <3> QED
      BY <3>1, <3>2
  <2> HIDE DEF s
  <2> QED
    BY <2>7, <2>8, <2>9
<1>3. T = Nat
  <2>1. T \in SUBSET Nat
    OBVIOUS
  <2> HIDE DEF T
  <2> QED
    BY <1>1, <1>2, <2>1, NatInduct
<1>4. n \in T
  BY <1>3
<1> QED
  BY <1>4

\* What the sort of mergeRawRanges returns.
LEMMA SortFacts ==
  ASSUME NEW S \in SUBSET Spans, IsFiniteSet(S)
  PROVE  /\ Sorted(S) \in Seq(Spans) /\ Len(Sorted(S)) = Cardinality(S)
         /\ \A i \in 1..Len(Sorted(S)) : Sorted(S)[i] \in S
         /\ \A r \in S : \E i \in 1..Len(Sorted(S)) : Sorted(S)[i] = r
         /\ \A i \in 1..Len(Sorted(S)) : i # 1 => Sorted(S)[i - 1][1] <= Sorted(S)[i][1]
<1> DEFINE n == Cardinality(S)
           Good(s) == \A i, j \in DOMAIN s : i < j => Before(s[i], s[j])
<1>0. n \in Nat
  BY FS_CardinalityType
<1>1. PICK t \in [1..n -> S] : Ascending(t, n)
  BY <1>0, SortExists
<1>2. ASSUME NEW i \in 1..n, NEW j \in 1..n, i # j PROVE t[i] # t[j]
  <2>1. Before(t[i], t[j]) \/ Before(t[j], t[i])
    BY <1>0, <1>1, <1>2 DEF Ascending
  <2>2. t[i][1] \in Nat /\ t[i][2] \in Nat
    BY SpanFacts
  <2> QED
    BY <2>1, <2>2 DEF Before
<1>3. t \in SetToSeqs(S)
  BY <1>2 DEF SetToSeqs
<1>4. Good(t)
  BY <1>1 DEF Ascending
<1>5. Sorted(S) \in SetToSeqs(S) /\ Good(Sorted(S))
  BY <1>3, <1>4 DEF Sorted
<1> DEFINE s == Sorted(S)
<1> HIDE DEF s
<1>6. s \in [1..n -> S] /\ (\A i, j \in 1..n : i # j => s[i] # s[j])
  BY <1>5 DEF SetToSeqs, s
<1>7. Len(s) = n /\ s \in Seq(Spans)
  BY <1>0, <1>6
<1>8. \A r \in S : \E i \in 1..n : s[i] = r
  <2>1. IsFiniteSet(1..n) /\ Cardinality(1..n) = n
    BY <1>0, FS_Interval
  <2>2. s \in Injection(1..n, S)
    BY <1>6 DEF Injection, IsInjective
  <2>3. s \in Surjection(1..n, S)
    BY <2>1, <2>2, FS_Injection
  <2> QED
    BY <2>3 DEF Surjection
<1>9. ASSUME NEW i \in 1..n, i # 1 PROVE s[i - 1][1] <= s[i][1]
  <2>1. i - 1 \in 1..n /\ i - 1 < i
    BY <1>0, <1>9
  <2>2. Before(s[i - 1], s[i])
    BY <1>5, <1>6, <2>1 DEF s
  <2>3. s[i][1] \in Nat /\ s[i - 1][1] \in Nat
    BY <1>6, <2>1, SpanFacts
  <2> QED
    BY <2>2, <2>3 DEF Before
<1> QED
  BY <1>6, <1>7, <1>8, <1>9 DEF s

-----------------------------------------------------------------------------
(* mergeRawRanges.                                                         *)

LEMMA HeightsOfFacts ==
  ASSUME NEW rs \in Seq(Spans)
  PROVE  /\ \A i \in 1..Len(rs) : rs[i] \in Spans
         /\ \A h : h \in HeightsOf(rs) <=> \E i \in 1..Len(rs) : h \in Heights(rs[i])
BY DEF HeightsOf

\* Appending a range that begins above the last one.
LEMMA Appended ==
  ASSUME NEW rs \in Seq(Spans), NEW r \in Spans, Apart(rs),
         rs # <<>> => Last(rs)[2] + 1 < r[1]
  PROVE  /\ Append(rs, r) \in Seq(Spans) /\ Append(rs, r) # <<>>
         /\ Last(Append(rs, r)) = r
         /\ Apart(Append(rs, r))
         /\ \A h : h \in HeightsOf(Append(rs, r)) <=> h \in HeightsOf(rs) \/ h \in Heights(r)
<1> DEFINE m == Append(rs, r)
           n == Len(rs)
<1>1. /\ m \in Seq(Spans) /\ Len(m) = n + 1 /\ n \in Nat /\ m # <<>>
      /\ \A i \in 1..n : m[i] = rs[i]
      /\ m[n + 1] = r
  <2>1. m \in Seq(Spans) /\ Len(m) = n + 1 /\ n \in Nat
    OBVIOUS
  <2>2. m # <<>>
    BY <2>1
  <2>3. m[n + 1] = r
    OBVIOUS
  <2>4. \A i \in 1..n : m[i] = rs[i]
    OBVIOUS
  <2> QED
    BY <2>1, <2>2, <2>3, <2>4
<1> HIDE DEF m
<1>2. Last(m) = r
  BY <1>1 DEF Last
<1>3. Apart(m)
  <2>1. SUFFICES ASSUME NEW i \in 1..n PROVE m[i][2] + 1 < m[i + 1][1]
    BY <1>1 DEF Apart
  <2>2. CASE i = n
    <3>1. rs # <<>> /\ Last(rs) = rs[n]
      BY <1>1, <2>2 DEF Last
    <3> QED
      BY <1>1, <2>2, <3>1
  <2>3. CASE i # n
    <3>1. i \in 1..(n - 1) /\ i + 1 \in 1..n
      BY <1>1, <2>3
    <3> QED
      BY <1>1, <3>1 DEF Apart
  <2> QED
    BY <2>2, <2>3
<1>4. ASSUME NEW h PROVE h \in HeightsOf(m) <=> h \in HeightsOf(rs) \/ h \in Heights(r)
  <2>1. h \in HeightsOf(m) <=> \E i \in 1..(n + 1) : h \in Heights(m[i])
    BY <1>1, HeightsOfFacts
  <2>2. h \in HeightsOf(rs) <=> \E i \in 1..n : h \in Heights(rs[i])
    BY HeightsOfFacts
  <2>3. (\E i \in 1..(n + 1) : h \in Heights(m[i]))
          <=> (\E i \in 1..n : h \in Heights(m[i])) \/ h \in Heights(m[n + 1])
    <3>1. \A i : i \in 1..(n + 1) <=> i \in 1..n \/ i = n + 1
      BY <1>1
    <3> HIDE DEF n
    <3> QED
      BY <3>1
  <2> QED
    BY <1>1, <2>1, <2>2, <2>3
<1> QED
  BY <1>1, <1>2, <1>3, <1>4 DEF m

LEMMA AddRangeType ==
  ASSUME NEW ms \in Seq(Spans), NEW r \in Spans
  PROVE  AddRange(ms, r) \in Seq(Spans)
<1>1. CASE ~ExtendsLast(ms, r)
  BY <1>1 DEF AddRange
<1>2. CASE ExtendsLast(ms, r)
  <2> DEFINE n == Len(ms)
             l == ms[n]
             x == <<l[1], Max({l[2], r[2]})>>
  <2>1. n \in Nat \ {0} /\ l \in Spans
    BY <1>2 DEF ExtendsLast
  <2>2. l[1] \in Nat /\ l[2] \in Nat /\ l[1] <= l[2] /\ r[2] \in Nat
    BY <2>1, SpanFacts
  <2>3. Max({l[2], r[2]}) = IF l[2] >= r[2] THEN l[2] ELSE r[2]
    BY <2>2, Extremes
  <2>4. x \in Spans
    BY <2>2, <2>3, SpanMade
  <2>5. AddRange(ms, r) = [ms EXCEPT ![n] = x]
    BY <1>2 DEF AddRange
  <2> HIDE DEF x
  <2> QED
    BY <2>1, <2>4, <2>5
<1> QED
  BY <1>1, <1>2

\* One turn of the loop, on a range that begins no earlier than the last merged one.
LEMMA AddRangeFacts ==
  ASSUME NEW ms \in Seq(Spans), NEW r \in Spans, Apart(ms),
         ms # <<>> => Last(ms)[1] <= r[1]
  PROVE  /\ AddRange(ms, r) \in Seq(Spans) /\ AddRange(ms, r) # <<>>
         /\ Last(AddRange(ms, r))[1] <= r[1]
         /\ Apart(AddRange(ms, r))
         /\ \A h : h \in HeightsOf(AddRange(ms, r)) <=> h \in HeightsOf(ms) \/ h \in Heights(r)
<1>0. r[1] \in Nat /\ r[2] \in Nat /\ r[1] <= r[2]
  BY SpanFacts
<1>1. CASE ~ExtendsLast(ms, r)
  <2>1. AddRange(ms, r) = Append(ms, r)
    BY <1>1 DEF AddRange
  <2>2. ms # <<>> => Last(ms) \in Spans
    BY DEF Last
  <2>3. ms # <<>> => Last(ms)[2] + 1 < r[1]
    BY <1>0, <1>1, <2>2, SpanFacts DEF ExtendsLast
  <2> QED
    BY <1>0, <2>1, <2>3, Appended
<1>2. CASE ExtendsLast(ms, r)
  <2> DEFINE n == Len(ms)
             l == ms[n]
             x == <<l[1], Max({l[2], r[2]})>>
             m == [ms EXCEPT ![n] = x]
  <2>1. n \in Nat \ {0} /\ l = Last(ms) /\ l \in Spans /\ ms # <<>> /\ r[1] <= l[2] + 1 /\ l[1] <= r[1]
    BY <1>2 DEF ExtendsLast, Last
  <2>2. l[1] \in Nat /\ l[2] \in Nat /\ l[1] <= l[2]
    BY <2>1, SpanFacts
  <2> DEFINE top == Max({l[2], r[2]})
  <2>3. top = IF l[2] >= r[2] THEN l[2] ELSE r[2]
    BY <1>0, <2>2, Extremes
  <2>4. x \in Spans /\ x[1] = l[1] /\ x[2] = top /\ top \in Nat
    BY <1>0, <2>2, <2>3, SpanMade
  <2>5. AddRange(ms, r) = m
    BY <1>2 DEF AddRange
  <2> HIDE DEF x
  <2>6. /\ m \in Seq(Spans) /\ Len(m) = n /\ m # <<>> /\ m[n] = x
        /\ \A i \in 1..n : i # n => m[i] = ms[i]
    BY <2>1, <2>4
  <2> HIDE DEF m, top
  <2>7. Last(m) = x /\ Last(m)[1] <= r[1]
    BY <2>1, <2>4, <2>6 DEF Last
  <2>8. Apart(m)
    <3>1. SUFFICES ASSUME NEW i \in 1..(n - 1) PROVE m[i][2] + 1 < m[i + 1][1]
      BY <2>6 DEF Apart
    <3>2. m[i] = ms[i] /\ i + 1 \in 1..n /\ ms[i][2] + 1 < ms[i + 1][1]
      BY <2>1, <2>6 DEF Apart
    <3>3. m[i + 1][1] = ms[i + 1][1]
      BY <2>4, <2>6, <3>2
    <3> QED
      BY <3>2, <3>3
  <2>9. ASSUME NEW h PROVE h \in HeightsOf(m) <=> h \in HeightsOf(ms) \/ h \in Heights(r)
    <3>1. h \in HeightsOf(m) <=> \E i \in 1..n : h \in Heights(m[i])
      BY <2>6, HeightsOfFacts
    <3>2. h \in HeightsOf(ms) <=> \E i \in 1..n : h \in Heights(ms[i])
      BY HeightsOfFacts
    <3>3. h \in Heights(x) <=> h \in Heights(l) \/ h \in Heights(r)
      BY <1>0, <2>1, <2>2, <2>3, <2>4, SpanFacts
    <3>4. n \in 1..n
      BY <2>1
    <3> QED
      BY <2>6, <3>1, <3>2, <3>3, <3>4
  <2> QED
    BY <2>5, <2>6, <2>7, <2>8, <2>9
<1> QED
  BY <1>1, <1>2

\* mergeRawRanges returns ranges that are apart and name the same blocks.
LEMMA MergeFacts ==
  ASSUME NEW S \in SUBSET Spans, IsFiniteSet(S)
  PROVE  /\ mergeRawRanges(S) \in Seq(Spans)
         /\ Apart(mergeRawRanges(S))
         /\ \A h : h \in HeightsOf(mergeRawRanges(S)) <=> \E r \in S : h \in Heights(r)
<1> DEFINE s == Sorted(S)
           N == Len(s)
<1>1. /\ s \in Seq(Spans) /\ N \in Nat
      /\ \A i \in 1..N : s[i] \in S
      /\ \A r \in S : \E i \in 1..N : s[i] = r
      /\ \A i \in 1..N : i # 1 => s[i - 1][1] <= s[i][1]
  BY SortFacts
<1> HIDE DEF s
<1> DEFINE Inv(ms, k) ==
             /\ ms \in Seq(Spans) /\ Apart(ms)
             /\ \A h : h \in HeightsOf(ms) <=> \E i \in 1..k : h \in Heights(s[i])
             /\ (k = 0 => ms = <<>>) /\ (k # 0 => Last(ms)[1] <= s[k][1])
           Step(g) == [n \in 0..N |-> IF n = 0 THEN <<>> ELSE AddRange(g[n - 1], s[n])]
<1>2. Inv(<<>>, 0)
  <2>1. <<>> \in Seq(Spans) /\ Len(<<>>) = 0
    OBVIOUS
  <2>2. Apart(<<>>)
    BY DEF Apart
  <2>3. \A h : h \notin HeightsOf(<<>>)
    BY DEF HeightsOf
  <2> QED
    BY <2>1, <2>2, <2>3
<1>3. ASSUME NEW k \in Nat, k + 1 <= N, NEW ms, Inv(ms, k) PROVE Inv(AddRange(ms, s[k + 1]), k + 1)
  <2> DEFINE r == s[k + 1]
  <2>1. r \in Spans /\ k + 1 \in 1..N /\ ms \in Seq(Spans) /\ Apart(ms)
    BY <1>1, <1>3
  <2>2. ms # <<>> => Last(ms)[1] <= r[1]
    <3>1. SUFFICES ASSUME k # 0 PROVE Last(ms)[1] <= r[1]
      BY <1>3
    <3>2. k \in 1..N /\ s[k][1] <= s[k + 1][1] /\ s[k] \in Spans /\ Last(ms)[1] <= s[k][1]
      BY <1>1, <1>3, <2>1, <3>1
    <3>3. Last(ms) \in Spans
      <4>1. ms # <<>>
        <5>1. s[k][1] \in Heights(s[k])
          BY <3>2, SpanFacts
        <5>2. s[k][1] \in HeightsOf(ms)
          BY <1>3, <3>1, <5>1
        <5>3. \E i \in 1..Len(ms) : s[k][1] \in Heights(ms[i])
          BY <2>1, <5>2, HeightsOfFacts
        <5> QED
          BY <5>3
      <4> QED
        BY <2>1, <4>1 DEF Last
    <3> QED
      BY <2>1, <3>2, <3>3, SpanFacts
  <2>3. /\ AddRange(ms, r) \in Seq(Spans) /\ Apart(AddRange(ms, r))
        /\ Last(AddRange(ms, r))[1] <= r[1]
        /\ \A h : h \in HeightsOf(AddRange(ms, r)) <=> h \in HeightsOf(ms) \/ h \in Heights(r)
    BY <2>1, <2>2, AddRangeFacts
  <2>4. ASSUME NEW h PROVE (\E i \in 1..(k + 1) : h \in Heights(s[i]))
                             <=> (\E i \in 1..k : h \in Heights(s[i])) \/ h \in Heights(s[k + 1])
    <3>1. \A i : i \in 1..(k + 1) <=> i \in 1..k \/ i = k + 1
      BY <1>3
    <3> QED
      BY <3>1
  <2> QED
    BY <1>3, <2>3, <2>4
<1>4. PICK g \in [0..N -> Seq(Spans)] : g[0] = <<>> /\ \A i \in 1..N : g[i] = AddRange(g[i - 1], s[i])
  <2> DEFINE A == Seq(Spans)
             F == [i \in 1..N |-> [a \in A |-> AddRange(a, s[i])]]
  <2>1. ASSUME NEW i \in 1..N, NEW a \in A PROVE AddRange(a, s[i]) \in A
    BY <1>1, AddRangeType
  <2>2. F \in [1..N -> [A -> A]] /\ <<>> \in A
    BY <2>1
  <2>3. \A i \in 1..N, a \in A : F[i][a] = AddRange(a, s[i])
    OBVIOUS
  <2> HIDE DEF F, A
  <2>4. PICK g \in [0..N -> A] : g[0] = <<>> /\ \A i \in 1..N : g[i] = F[i][g[i - 1]]
    <3>1. N \in Nat
      BY <1>1
    <3> DEFINE e == <<>>
    <3>2. e \in A
      BY <2>2
    <3> HIDE DEF e, N
    <3>3. \E g : RunsFrom(A, e, N, F, g)
      BY <2>2, <3>1, <3>2, LoopRuns
    <3> QED
      BY <3>3 DEF e, RunsFrom
  <2>5. ASSUME NEW i \in 1..N PROVE g[i] = AddRange(g[i - 1], s[i])
    <3>1. i - 1 \in 0..N
      BY <1>1
    <3> QED
      BY <2>3, <2>4, <3>1
  <2> QED
    BY <2>4, <2>5 DEF A
<1>5. g = Step(g)
  <2>1. \A n \in 0..N : n # 0 => n \in 1..N
    BY <1>1
  <2> QED
    BY <1>4, <2>1
<1> DEFINE f == CHOOSE x : x = Step(x)
<1>6. f = Step(f)
  <2> HIDE DEF Step
  <2> QED
    BY <1>5
<1>7. mergeRawRanges(S) = f[N]
  BY DEF mergeRawRanges, s
<1> HIDE DEF f
<1>8. f[0] = <<>> /\ \A i \in 1..N : f[i] = AddRange(f[i - 1], s[i])
  <2>1. \A i \in 0..N : f[i] = IF i = 0 THEN <<>> ELSE AddRange(f[i - 1], s[i])
    BY <1>6
  <2>2. 0 \in 0..N /\ \A i \in 1..N : i \in 0..N /\ i # 0
    BY <1>1
  <2> QED
    BY <2>1, <2>2
<1> DEFINE T == {k \in Nat : k <= N => Inv(f[k], k)}
<1>9. T = Nat
  <2> HIDE DEF Inv, Step
  <2>1. 0 \in T
    BY <1>2, <1>8
  <2>2. ASSUME NEW k \in T PROVE k + 1 \in T
    <3>1. SUFFICES ASSUME k + 1 <= N PROVE Inv(f[k + 1], k + 1)
      OBVIOUS
    <3>2. k \in Nat /\ Inv(f[k], k) /\ k + 1 \in 1..N /\ (k + 1) - 1 = k
      BY <1>1, <3>1
    <3>3. f[k + 1] = AddRange(f[k], s[k + 1])
      BY <1>8, <3>2
    <3> QED
      BY <1>3, <3>1, <3>2, <3>3
  <2>3. T \in SUBSET Nat
    OBVIOUS
  <2> HIDE DEF T
  <2> QED
    BY <2>1, <2>2, <2>3, NatInduct
<1>10. Inv(f[N], N)
  <2> HIDE DEF Inv
  <2> QED
    BY <1>1, <1>9
<1>11. ASSUME NEW h PROVE (\E i \in 1..N : h \in Heights(s[i])) <=> \E r \in S : h \in Heights(r)
  BY <1>1
<1> HIDE DEF N
<1> QED
  BY <1>7, <1>10, <1>11

-----------------------------------------------------------------------------
(* getCompletedRawRanges and missingRawCoverage on a span from..to.        *)

\* Ranges with two ends inside a span are finitely many.
LEMMA InsideFinite ==
  ASSUME NEW from \in Nat, NEW to \in Nat, NEW S \in SUBSET Spans,
         \A r \in S : from <= r[1] /\ r[2] <= to
  PROVE  IsFiniteSet(S)
<1> DEFINE D == from..to
<1>1. IsFiniteSet(D)
  BY FS_Interval
<1>2. IsFiniteSet(D \X D)
  <2> HIDE DEF D
  <2> QED
    BY <1>1, FS_Product
<1>3. S \subseteq D \X D
  <2>1. SUFFICES ASSUME NEW r \in S PROVE r \in D \X D
    OBVIOUS
  <2>2. r = <<r[1], r[2]>> /\ r[1] \in Nat /\ r[2] \in Nat /\ r[1] <= r[2]
    BY SpanFacts
  <2>3. r[1] \in D /\ r[2] \in D
    BY <2>2
  <2> HIDE DEF D
  <2> QED
    BY <2>2, <2>3
<1> HIDE DEF D
<1> QED
  BY <1>2, <1>3, FS_Subset

\* Rows of the table of raw ranges.
Rows(S) == \A q \in S : q[1] \in Nat /\ q[2] \in Nat /\ q[1] <= q[2]

\* The completed ranges cut to a span lie in it, are apart and name what the completed
\* ones name of it; so does their second merge, in missingRawCoverage.
LEMMA CompletedFacts ==
  ASSUME NEW S, Rows(S), NEW from \in Nat, NEW to \in Nat, from <= to
  PROVE  LET ranges == getCompletedRawRanges(S, from, to)
             m      == mergeRawRanges(Range(ranges))
         IN  /\ ranges \in Seq(Spans) /\ Apart(ranges)
             /\ m \in Seq(Spans) /\ Apart(m)
             /\ \A i \in 1..Len(m) : from <= m[i][1] /\ m[i][2] <= to
             /\ \A h : h \in HeightsOf(m) <=> h \in from..to /\ \E q \in S : h \in Heights(q)
<1> DEFINE Cut(q) == <<Max({from, q[1]}), Min({to, q[2]})>>
           Q == {q \in S : q[2] >= from /\ q[1] <= to}
           C == {Cut(q) : q \in Q}
           ranges == getCompletedRawRanges(S, from, to)
           m == mergeRawRanges(Range(ranges))
<1>1. ASSUME NEW q \in Q
      PROVE  /\ Cut(q) \in Spans /\ from <= Cut(q)[1] /\ Cut(q)[2] <= to
             /\ \A h : h \in Heights(Cut(q)) <=> h \in from..to /\ h \in Heights(q)
  <2>1. q[1] \in Nat /\ q[2] \in Nat /\ q[1] <= q[2] /\ q[2] >= from /\ q[1] <= to
    BY DEF Rows
  <2> DEFINE a == Max({from, q[1]})
             b == Min({to, q[2]})
  <2>2. a = (IF from >= q[1] THEN from ELSE q[1]) /\ b = (IF to <= q[2] THEN to ELSE q[2])
    BY <2>1, Extremes
  <2> HIDE DEF a, b
  <2>3. a \in Nat /\ b \in Nat /\ a <= b /\ from <= a /\ b <= to
    BY <2>1, <2>2
  <2>4. <<a, b>> \in Spans /\ <<a, b>>[1] = a /\ <<a, b>>[2] = b
    BY <2>3, SpanMade
  <2>5. \A h : h \in a..b <=> h \in from..to /\ h \in q[1]..q[2]
    BY <2>1, <2>2, <2>3
  <2> QED
    BY <2>3, <2>4, <2>5 DEF a, b, Heights
<1>2. C \in SUBSET Spans /\ \A r \in C : from <= r[1] /\ r[2] <= to
  <2> HIDE DEF Cut, Q
  <2> QED
    BY <1>1
<1>3. IsFiniteSet(C)
  <2> HIDE DEF C
  <2> QED
    BY <1>2, InsideFinite
<1>4. ranges = mergeRawRanges(C)
  BY DEF getCompletedRawRanges
<1>5. /\ ranges \in Seq(Spans) /\ Apart(ranges)
      /\ \A h : h \in HeightsOf(ranges) <=> \E r \in C : h \in Heights(r)
  <2> HIDE DEF C, ranges
  <2> QED
    BY <1>2, <1>3, <1>4, MergeFacts
<1>6. ASSUME NEW h PROVE (\E r \in C : h \in Heights(r)) <=> h \in from..to /\ \E q \in S : h \in Heights(q)
  <2>1. ASSUME NEW q \in S, h \in Heights(q), h \in from..to PROVE q \in Q
    BY <2>1 DEF Heights, Rows
  <2>2. \A q \in Q : h \in Heights(Cut(q)) <=> h \in from..to /\ h \in Heights(q)
    <3> HIDE DEF Cut, Q
    <3> QED
      BY <1>1
  <2>3. Q \subseteq S
    OBVIOUS
  <2> HIDE DEF Cut, Q
  <2> QED
    BY <2>1, <2>2, <2>3
<1> HIDE DEF C, ranges
<1> DEFINE R == Range(ranges)
<1>7. R \in SUBSET Spans /\ \A r \in R : \E i \in 1..Len(ranges) : r = ranges[i]
  BY <1>5 DEF Range
<1>8. ASSUME NEW r \in Spans, \A h : h \in Heights(r) => h \in from..to
      PROVE  from <= r[1] /\ r[2] <= to
  <2>1. r[1] \in Heights(r) /\ r[2] \in Heights(r)
    BY SpanFacts
  <2> QED
    BY <1>8, <2>1
<1>9. ASSUME NEW h PROVE h \in HeightsOf(ranges) <=> \E r \in R : h \in Heights(r)
  <2>1. h \in HeightsOf(ranges) <=> \E i \in 1..Len(ranges) : h \in Heights(ranges[i])
    BY <1>5, HeightsOfFacts
  <2>2. \A i \in 1..Len(ranges) : ranges[i] \in R
    BY <1>5 DEF Range
  <2> QED
    BY <1>7, <2>1, <2>2
<1>10. ASSUME NEW r \in R PROVE from <= r[1] /\ r[2] <= to
  <2>1. \A h : h \in Heights(r) => h \in from..to
    BY <1>5, <1>6, <1>9
  <2> QED
    BY <1>7, <1>8, <2>1
<1>11. IsFiniteSet(R)
  <2> HIDE DEF R
  <2> QED
    BY <1>7, <1>10, InsideFinite
<1>12. /\ m \in Seq(Spans) /\ Apart(m)
       /\ \A h : h \in HeightsOf(m) <=> \E r \in R : h \in Heights(r)
  <2>1. m = mergeRawRanges(R)
    OBVIOUS
  <2> HIDE DEF R, m
  <2> QED
    BY <1>7, <1>11, <2>1, MergeFacts
<1>13. \A h : h \in HeightsOf(m) <=> h \in from..to /\ \E q \in S : h \in Heights(q)
  BY <1>5, <1>6, <1>9, <1>12
<1> HIDE DEF m
<1>14. ASSUME NEW i \in 1..Len(m) PROVE from <= m[i][1] /\ m[i][2] <= to
  <2>1. m[i] \in Spans /\ \A h : h \in Heights(m[i]) => h \in HeightsOf(m)
    BY <1>12, HeightsOfFacts
  <2>2. \A h : h \in Heights(m[i]) => h \in from..to
    BY <1>13, <2>1
  <2> QED
    BY <1>8, <2>1, <2>2
<1> QED
  BY <1>5, <1>12, <1>13, <1>14 DEF ranges, m

Scans == [missing : Seq(Spans), cursor : Nat]

LEMMA VisitType ==
  ASSUME NEW scan \in Scans, NEW r \in Spans, NEW to \in Nat
  PROVE  VisitRange(scan, r, to) \in Scans
<1>1. scan.missing \in Seq(Spans) /\ scan.cursor \in Nat
  BY DEF Scans
<1>2. r[1] \in Nat /\ r[2] \in Nat /\ r[1] <= r[2]
  BY SpanFacts
<1>3. CASE scan.cursor > to \/ r[2] < scan.cursor
  BY <1>3 DEF VisitRange
<1>4. CASE ~(scan.cursor > to \/ r[2] < scan.cursor)
  <2> DEFINE b == Min({r[1] - 1, to})
             c == CursorPast(scan.cursor, r)
             piece == <<scan.cursor, b>>
             miss == IF r[1] > scan.cursor THEN Append(scan.missing, piece) ELSE scan.missing
  <2>1. c \in Nat
    <3>1. c = IF scan.cursor >= r[2] + 1 THEN scan.cursor ELSE r[2] + 1
      BY <1>1, <1>2, Extremes DEF CursorPast
    <3> QED
      BY <1>1, <1>2, <3>1
  <2>2. r[1] > scan.cursor => piece \in Spans
    <3>0. r[1] - 1 \in Int /\ to \in Int
      BY <1>2
    <3>1. b = IF r[1] - 1 <= to THEN r[1] - 1 ELSE to
      BY <3>0, Extremes
    <3> QED
      BY <1>1, <1>2, <1>4, <3>1, SpanMade
  <2>3. VisitRange(scan, r, to) = [missing |-> miss, cursor |-> c]
    BY <1>4 DEF VisitRange
  <2> HIDE DEF c, piece
  <2>4. miss \in Seq(Spans)
    BY <1>1, <2>2
  <2> HIDE DEF miss
  <2> QED
    BY <2>1, <2>3, <2>4 DEF Scans
<1> QED
  BY <1>3, <1>4

\* Where the loop stands after k of the ranges m: everything below the cursor is
\* settled, and the last missing piece is followed by a range.
ScanInv(scan, m, k, from, to) ==
  /\ scan \in Scans
  /\ from <= scan.cursor /\ scan.cursor <= to + 1
  /\ Apart(scan.missing)
  /\ scan.missing # <<>> => Last(scan.missing)[2] + 1 < scan.cursor
  /\ \A i \in 1..k : m[i][2] < scan.cursor
  /\ k # 0 => scan.cursor = m[k][2] + 1
  /\ \A h : h \in HeightsOf(scan.missing)
              <=> h \in from..(scan.cursor - 1) /\ ~\E i \in 1..k : h \in Heights(m[i])

\* One turn of the loop.
LEMMA VisitKeeps ==
  ASSUME NEW from \in Nat, NEW to \in Nat, NEW m \in Seq(Spans), Apart(m),
         \A i \in 1..Len(m) : from <= m[i][1] /\ m[i][2] <= to,
         NEW k \in Nat, k + 1 <= Len(m), NEW scan, ScanInv(scan, m, k, from, to),
         k = 0 => scan.cursor = from
  PROVE  ScanInv(VisitRange(scan, m[k + 1], to), m, k + 1, from, to)
<1> DEFINE r == m[k + 1]
           c == scan.cursor
           next == VisitRange(scan, r, to)
<1>0. k + 1 \in 1..Len(m) /\ Len(m) \in Nat
  OBVIOUS
<1>1. r \in Spans /\ r[1] \in Nat /\ r[2] \in Nat /\ r[1] <= r[2] /\ from <= r[1] /\ r[2] <= to
  BY <1>0, SpanFacts
<1>2. scan \in Scans /\ scan.missing \in Seq(Spans) /\ c \in Nat /\ from <= c
  BY DEF ScanInv, Scans
<1>3. c <= r[1]
  <2>1. CASE k = 0
    BY <1>1, <2>1
  <2>2. CASE k # 0
    <3>1. c = m[k][2] + 1 /\ k \in 1..(Len(m) - 1)
      BY <1>0, <2>2 DEF ScanInv
    <3>2. m[k][2] + 1 < m[k + 1][1]
      BY <3>1 DEF Apart
    <3> QED
      BY <1>1, <1>2, <3>1, <3>2
  <2> QED
    BY <2>1, <2>2
<1> DEFINE miss == IF r[1] > c THEN Append(scan.missing, <<c, r[1] - 1>>) ELSE scan.missing
<1>4. next = [missing |-> miss, cursor |-> r[2] + 1]
  <2>1. ~(c > to \/ r[2] < c)
    BY <1>1, <1>2, <1>3
  <2>2. Min({r[1] - 1, to}) = r[1] - 1
    <3>1. r[1] - 1 \in Int /\ to \in Int /\ r[1] - 1 <= to
      BY <1>1
    <3> QED
      BY <3>1, Extremes
  <2>3. CursorPast(c, r) = r[2] + 1
    <3>1. c \in Int /\ r[2] + 1 \in Int /\ ~(c >= r[2] + 1)
      BY <1>1, <1>2, <1>3
    <3> HIDE DEF c, r
    <3> QED
      BY <3>1, Extremes DEF CursorPast
  <2> QED
    BY <2>1, <2>2, <2>3 DEF VisitRange
<1>5. next \in Scans
  BY <1>1, <1>2, VisitType
<1> HIDE DEF next
<1>6. next.missing = miss /\ next.cursor = r[2] + 1
  BY <1>4
<1>7. /\ miss \in Seq(Spans) /\ Apart(miss)
      /\ miss # <<>> => Last(miss)[2] + 1 < r[2] + 1
      /\ \A h : h \in HeightsOf(miss) <=> h \in HeightsOf(scan.missing) \/ h \in c..(r[1] - 1)
  <2>1. Apart(scan.missing) /\ (scan.missing # <<>> => Last(scan.missing)[2] + 1 < c)
    BY DEF ScanInv
  <2>2. CASE r[1] > c
    <3> DEFINE p == <<c, r[1] - 1>>
    <3>1. p \in Spans /\ p[1] = c /\ p[2] = r[1] - 1 /\ Heights(p) = c..(r[1] - 1)
      <4>1. r[1] - 1 \in Nat /\ c <= r[1] - 1
        BY <1>1, <1>2, <2>2
      <4> QED
        BY <1>2, <4>1, SpanMade DEF Heights
    <3>2. miss = Append(scan.missing, p)
      BY <2>2
    <3> HIDE DEF p, miss, c, r
    <3>3. /\ miss \in Seq(Spans) /\ Apart(miss) /\ Last(miss) = p
          /\ \A h : h \in HeightsOf(miss) <=> h \in HeightsOf(scan.missing) \/ h \in Heights(p)
      <4>1. scan.missing # <<>> => Last(scan.missing)[2] + 1 < p[1]
        BY <2>1, <3>1
      <4>2. Append(scan.missing, p) \in Seq(Spans)
        BY <1>2, <3>1
      <4> QED
        BY <1>2, <2>1, <3>1, <3>2, <4>1, Appended
    <3> QED
      BY <1>1, <3>1, <3>3
  <2>3. CASE ~(r[1] > c)
    <3>1. miss = scan.missing /\ \A h : h \notin c..(r[1] - 1)
      BY <1>1, <1>2, <2>3
    <3> HIDE DEF miss
    <3>2. miss # <<>> => Last(miss)[2] + 1 < r[2] + 1
      <4>1. SUFFICES ASSUME miss # <<>> PROVE Last(miss)[2] + 1 < r[2] + 1
        OBVIOUS
      <4>2. Last(miss) \in Spans
        BY <1>2, <3>1, <4>1 DEF Last
      <4>3. Last(miss)[2] \in Nat /\ Last(miss)[2] + 1 < c
        BY <2>1, <3>1, <4>1, <4>2, SpanFacts
      <4> HIDE DEF c, r
      <4> QED
        BY <1>1, <1>2, <1>3, <4>3
    <3> QED
      BY <1>2, <2>1, <3>1, <3>2
  <2> QED
    BY <2>2, <2>3
<1>8. ASSUME NEW i \in 1..(k + 1) PROVE m[i][2] < r[2] + 1
  <2>1. CASE i = k + 1
    BY <1>1, <2>1
  <2>2. CASE i # k + 1
    <3>1. i \in 1..k /\ i \in 1..Len(m)
      BY <1>0, <2>2
    <3>2. m[i][2] < c /\ m[i][2] \in Nat
      BY <3>1, SpanFacts DEF ScanInv
    <3> HIDE DEF c, r
    <3> QED
      BY <1>1, <1>2, <1>3, <3>2
  <2> QED
    BY <2>1, <2>2
<1>9. ASSUME NEW h
      PROVE  h \in HeightsOf(miss) <=> h \in from..r[2] /\ ~\E i \in 1..(k + 1) : h \in Heights(m[i])
  <2>1. h \in HeightsOf(scan.missing) <=> h \in from..(c - 1) /\ ~\E i \in 1..k : h \in Heights(m[i])
    BY DEF ScanInv
  <2>2. (\E i \in 1..(k + 1) : h \in Heights(m[i])) <=> (\E i \in 1..k : h \in Heights(m[i])) \/ h \in Heights(r)
    <3>1. \A i : i \in 1..(k + 1) <=> i \in 1..k \/ i = k + 1
      OBVIOUS
    <3> QED
      BY <3>1
  <2>3. h \in Heights(r) <=> h \in Nat /\ r[1] <= h /\ h <= r[2]
    BY <1>1, SpanFacts
  <2>4. (\E i \in 1..k : h \in Heights(m[i])) => h \in Nat /\ h < c
    <3>1. SUFFICES ASSUME NEW i \in 1..k, h \in Heights(m[i]) PROVE h \in Nat /\ h < c
      OBVIOUS
    <3>2. i \in 1..Len(m) /\ m[i] \in Spans /\ m[i][2] < c
      BY <1>0 DEF ScanInv
    <3>3. h \in Nat /\ h <= m[i][2] /\ m[i][2] \in Nat
      BY <3>1, <3>2, SpanFacts
    <3> QED
      BY <1>2, <3>2, <3>3
  <2>5. h \in HeightsOf(miss) <=> h \in HeightsOf(scan.missing) \/ h \in c..(r[1] - 1)
    BY <1>7
  <2>6. CASE h \in Nat
    <3> HIDE DEF c, r, miss
    <3> QED
      BY <1>1, <1>2, <1>3, <2>1, <2>2, <2>3, <2>4, <2>5, <2>6
  <2>7. CASE h \notin Nat
    <3>1. h \notin from..(c - 1) /\ h \notin c..(r[1] - 1) /\ h \notin from..r[2]
      BY <1>1, <1>2, <2>7
    <3> QED
      BY <2>1, <2>5, <3>1
  <2> QED
    BY <2>6, <2>7
<1>10. from <= r[2] + 1 /\ r[2] + 1 <= to + 1 /\ (r[2] + 1) - 1 = r[2] /\ k + 1 # 0
  BY <1>1
<1> HIDE DEF miss
<1> QED
  BY <1>5, <1>6, <1>7, <1>8, <1>9, <1>10 DEF ScanInv, next

\* missingRawCoverage returns what is missing, in order and without overlap, and so
\* the assertion passes exactly when nothing is.
LEMMA CoverageFacts ==
  ASSUME NEW S, Rows(S), NEW from \in Nat, NEW to \in Nat, from <= to
  PROVE  LET ranges  == getCompletedRawRanges(S, from, to)
             missing == missingRawCoverage(from, to, ranges)
             held    == UNION {Heights(q) : q \in S}
         IN  /\ ranges \in Seq(Spans) /\ Apart(ranges)
             /\ missing \in Seq(Spans) /\ Apart(missing)
             /\ HeightsOf(missing) = from..to \ held
             /\ FinalizedRawCoverage(S, from, to) <=> from..to \subseteq held
<1> DEFINE ranges == getCompletedRawRanges(S, from, to)
           m == mergeRawRanges(Range(ranges))
           held == UNION {Heights(q) : q \in S}
           missing == missingRawCoverage(from, to, ranges)
           N == Len(m)
           e == [missing |-> <<>>, cursor |-> from]
           Step(g) == [n \in 0..N |-> IF n = 0 THEN e ELSE VisitRange(g[n - 1], m[n], to)]
           f == CHOOSE x : x = Step(x)
<1>1. /\ ranges \in Seq(Spans) /\ Apart(ranges)
      /\ m \in Seq(Spans) /\ Apart(m) /\ N \in Nat
      /\ \A i \in 1..N : from <= m[i][1] /\ m[i][2] <= to
      /\ \A h : h \in HeightsOf(m) <=> h \in from..to /\ h \in held
  BY CompletedFacts
<1>2. missing = IF f[N].cursor <= to THEN Append(f[N].missing, <<f[N].cursor, to>>) ELSE f[N].missing
  BY DEF missingRawCoverage
<1>3. FinalizedRawCoverage(S, from, to) <=> missing = <<>>
  BY DEF FinalizedRawCoverage
<1> HIDE DEF ranges, m, held, missing
<1>4. PICK g : RunsFrom(Scans, e, N, [i \in 1..N |-> [a \in Scans |-> VisitRange(a, m[i], to)]], g)
  <2> DEFINE F == [i \in 1..N |-> [a \in Scans |-> VisitRange(a, m[i], to)]]
  <2>1. ASSUME NEW i \in 1..N, NEW a \in Scans PROVE VisitRange(a, m[i], to) \in Scans
    BY <1>1, VisitType
  <2>2. F \in [1..N -> [Scans -> Scans]]
    BY <2>1
  <2>3. e \in Scans /\ N \in Nat
    BY <1>1 DEF Scans
  <2> HIDE DEF F, e, N
  <2>4. \E g : RunsFrom(Scans, e, N, F, g)
    BY <2>2, <2>3, LoopRuns
  <2> QED
    BY <2>4 DEF F
<1>5. g = Step(g)
  <2>1. g \in [0..N -> Scans] /\ g[0] = e
        /\ \A i \in 1..N : g[i] = [j \in 1..N |-> [a \in Scans |-> VisitRange(a, m[j], to)]][i][g[i - 1]]
    BY <1>4 DEF RunsFrom
  <2>2. ASSUME NEW i \in 1..N PROVE g[i] = VisitRange(g[i - 1], m[i], to)
    <3>0. g \in [0..N -> Scans]
      BY <2>1
    <3> HIDE DEF e
    <3>1. i - 1 \in 0..N
      BY <1>1
    <3>2. g[i - 1] \in Scans
      BY <3>0, <3>1
    <3> QED
      BY <2>1, <3>2
  <2>3. \A i \in 0..N : i # 0 => i \in 1..N
    BY <1>1
  <2> HIDE DEF e, N
  <2> QED
    BY <2>1, <2>2, <2>3
<1>6. f = Step(f)
  <2> HIDE DEF Step
  <2> QED
    BY <1>5
<1> HIDE DEF f
<1>7. f[0] = e /\ \A i \in 1..N : f[i] = VisitRange(f[i - 1], m[i], to)
  <2>1. \A i \in 0..N : f[i] = IF i = 0 THEN e ELSE VisitRange(f[i - 1], m[i], to)
    BY <1>6
  <2>2. 0 \in 0..N /\ \A i \in 1..N : i \in 0..N /\ i # 0
    BY <1>1
  <2> HIDE DEF e, N
  <2> QED
    BY <2>1, <2>2
<1>8. ScanInv(e, m, 0, from, to) /\ e.cursor = from
  <2>1. e.missing = <<>> /\ e.cursor = from /\ e \in Scans
    BY DEF Scans
  <2>2. Apart(<<>>) /\ \A h : h \notin HeightsOf(<<>>)
    BY DEF Apart, HeightsOf
  <2>3. \A h : h \notin from..(from - 1)
    OBVIOUS
  <2> HIDE DEF e
  <2> QED
    BY <2>1, <2>2, <2>3 DEF ScanInv
<1> HIDE DEF e
<1> DEFINE T == {k \in Nat : k <= N => ScanInv(f[k], m, k, from, to)}
<1>9. T = Nat
  <2>1. 0 \in T
    BY <1>7, <1>8
  <2>2. ASSUME NEW k \in T PROVE k + 1 \in T
    <3>1. SUFFICES ASSUME k + 1 <= N PROVE ScanInv(f[k + 1], m, k + 1, from, to)
      OBVIOUS
    <3>2. k \in Nat /\ ScanInv(f[k], m, k, from, to) /\ k + 1 \in 1..N /\ (k + 1) - 1 = k
      BY <1>1, <3>1
    <3>3. f[k + 1] = VisitRange(f[k], m[k + 1], to)
      BY <1>7, <3>2
    <3>4. k = 0 => f[k].cursor = from
      BY <1>7, <1>8
    <3>5. k + 1 <= Len(m)
      BY <3>1
    <3> HIDE DEF N
    <3>6. \A i \in 1..Len(m) : from <= m[i][1] /\ m[i][2] <= to
      BY <1>1 DEF N
    <3>7. ScanInv(VisitRange(f[k], m[k + 1], to), m, k + 1, from, to)
      BY <1>1, <3>2, <3>4, <3>5, <3>6, VisitKeeps
    <3> QED
      BY <3>3, <3>7
  <2>3. T \in SUBSET Nat
    OBVIOUS
  <2> HIDE DEF T
  <2> QED
    BY <2>1, <2>2, <2>3, NatInduct
<1> DEFINE end == f[N]
           c == end.cursor
<1>10. ScanInv(end, m, N, from, to)
  BY <1>1, <1>9
<1>11. /\ end.missing \in Seq(Spans) /\ c \in Nat /\ from <= c /\ c <= to + 1 /\ Apart(end.missing)
       /\ end.missing # <<>> => Last(end.missing)[2] + 1 < c
  BY <1>10 DEF ScanInv, Scans
<1>12. ASSUME NEW h PROVE h \in HeightsOf(end.missing) <=> h \in from..(c - 1) /\ h \notin held
  <2>1. h \in HeightsOf(end.missing) <=> h \in from..(c - 1) /\ ~\E i \in 1..N : h \in Heights(m[i])
    BY <1>10 DEF ScanInv
  <2>2. h \in HeightsOf(m) <=> \E i \in 1..N : h \in Heights(m[i])
    BY <1>1, HeightsOfFacts
  <2>3. h \in from..(c - 1) => h \in from..to
    BY <1>11
  <2> QED
    BY <1>1, <2>1, <2>2, <2>3
<1>13. ASSUME NEW h \in Nat, c <= h, h <= to PROVE h \notin held
  <2>1. SUFFICES ASSUME h \in held PROVE FALSE
    OBVIOUS
  <2>2. h \in HeightsOf(m)
    <3>1. from <= h
      BY <1>11, <1>13
    <3>2. h \in from..to
      BY <1>13, <3>1
    <3>3. h \in HeightsOf(m) <=> h \in from..to /\ h \in held
      BY <1>1
    <3> QED
      BY <2>1, <3>2, <3>3
  <2>3. PICK i \in 1..N : h \in Heights(m[i])
    BY <1>1, <2>2, HeightsOfFacts
  <2>4. m[i] \in Spans /\ m[i][2] < c
    BY <1>1, <1>10 DEF ScanInv
  <2>5. h <= m[i][2] /\ m[i][2] \in Nat
    BY <2>3, <2>4, SpanFacts
  <2> QED
    BY <1>11, <1>13, <2>4, <2>5
<1>14. /\ missing \in Seq(Spans) /\ Apart(missing)
       /\ \A h : h \in HeightsOf(missing) <=> h \in from..to /\ h \notin held
  <2>1. CASE c <= to
    <3> DEFINE p == <<c, to>>
    <3>1. p \in Spans /\ p[1] = c /\ p[2] = to /\ Heights(p) = c..to
      BY <1>11, <2>1, SpanMade DEF Heights
    <3>2. missing = Append(end.missing, p)
      BY <1>2, <2>1
    <3> HIDE DEF p, end
    <3>3. /\ missing \in Seq(Spans) /\ Apart(missing)
          /\ \A h : h \in HeightsOf(missing) <=> h \in HeightsOf(end.missing) \/ h \in Heights(p)
      <4>1. end.missing # <<>> => Last(end.missing)[2] + 1 < p[1]
        BY <1>11, <3>1
      <4> QED
        BY <1>11, <3>1, <3>2, <4>1, Appended
    <3>4. ASSUME NEW h PROVE h \in HeightsOf(missing) <=> h \in from..to /\ h \notin held
      <4>1. h \in HeightsOf(missing) <=> (h \in from..(c - 1) /\ h \notin held) \/ h \in c..to
        BY <1>12, <3>1, <3>3
      <4>2. h \in from..to <=> h \in from..(c - 1) \/ h \in c..to
        BY <1>11, <2>1
      <4>3. h \in c..to => h \notin held
        BY <1>11, <1>13
      <4> QED
        BY <4>1, <4>2, <4>3
    <3> QED
      BY <3>3, <3>4
  <2>2. CASE ~(c <= to)
    <3>1. missing = end.missing /\ c - 1 = to
      BY <1>2, <1>11, <2>2
    <3> HIDE DEF end, c
    <3> QED
      BY <1>11, <1>12, <3>1 DEF c
  <2> QED
    BY <2>1, <2>2
<1>15. missing = <<>> <=> from..to \subseteq held
  <2>1. ASSUME missing = <<>> PROVE from..to \subseteq held
    <3>1. \A h : h \notin HeightsOf(missing)
      BY <2>1 DEF HeightsOf
    <3> QED
      BY <1>14, <3>1
  <2>2. ASSUME missing # <<>> PROVE ~(from..to \subseteq held)
    <3>1. 1 \in 1..Len(missing) /\ missing[1] \in Spans
      BY <1>14, <2>2
    <3>2. missing[1][1] \in Heights(missing[1])
      BY <3>1, SpanFacts
    <3>3. missing[1][1] \in HeightsOf(missing)
      BY <1>14, <3>1, <3>2, HeightsOfFacts
    <3> QED
      BY <1>14, <3>3
  <2> QED
    BY <2>1, <2>2
<1>16. HeightsOf(missing) = from..to \ held
  BY <1>14
<1> QED
  BY <1>1, <1>3, <1>14, <1>15, <1>16 DEF ranges, missing, held

\* Coverage on the rows of raw_ingestion_ranges.
LEMMA CoverageDecided ==
  ASSUME NEW S \in SUBSET RawRanges, NEW from \in Nat, NEW to \in Nat, from <= to
  PROVE  FinalizedRawCoverage(S, from, to) <=> \A h \in from..to : \E q \in S : h \in Heights(q)
<1>1. Rows(S)
  BY ConstFacts DEF Rows
<1>2. FinalizedRawCoverage(S, from, to) <=> from..to \subseteq UNION {Heights(q) : q \in S}
  BY <1>1, CoverageFacts
<1> QED
  BY <1>2

\* More completed ranges cover what fewer did.
LEMMA CoverageGrows ==
  ASSUME NEW S \in SUBSET RawRanges, NEW U \in SUBSET RawRanges, S \subseteq U,
         NEW from \in Nat, NEW to \in Nat, from <= to, FinalizedRawCoverage(S, from, to)
  PROVE  FinalizedRawCoverage(U, from, to)
BY CoverageDecided

-----------------------------------------------------------------------------
(* Ranges a container can be given, and faults.                            *)

LEMMA ClaimFacts ==
  ASSUME NEW r \in Claims
  PROVE  /\ r[1] \in Nat /\ r[2] \in Nat /\ r[1] <= r[2] /\ r[2] < Top
         /\ Heights(r) \subseteq 0..Top /\ r[1] \in Heights(r) /\ r[2] \in Heights(r)
         /\ \A h : h \in Heights(r) <=> h \in Nat /\ r[1] <= h /\ h <= r[2]
BY ConstFacts DEF Claims, Heights

LEMMA ClaimMade ==
  ASSUME NEW f \in Nat, NEW t \in Nat, f <= t, t < Top
  PROVE  <<f, t>> \in Claims
BY ConstFacts DEF Claims

LEMMA ClaimsFinite == IsFiniteSet(Claims)
<1>1. IsFiniteSet(0..Top)
  BY ConstFacts, FS_Interval
<1>2. IsFiniteSet((0..Top) \X (0..Top))
  BY <1>1, FS_Product
<1> QED
  BY <1>2, FS_Subset DEF Claims

LEMMA FaultTypes ==
  ASSUME TypeOK
  PROVE  /\ faults.crash \in Nat /\ faults.stop \in Nat /\ faults.script \in Nat
         /\ faults.docker \in Nat /\ faults.downgrade \in Nat
BY ConstFacts DEF TypeOK, FaultKinds

\* A fault of one kind is counted under that kind.
LEMMA FaultFacts ==
  ASSUME TypeOK, NEW f \in FaultKinds, Fault(f)
  PROVE  /\ faults' \in [FaultKinds -> 0..MaxFaults]
         /\ faults'[f] = faults[f] + 1
         /\ \A k \in FaultKinds \ {f} : faults'[k] = faults[k]
<1>1. \A k \in FaultKinds : faults[k] \in Nat
  BY ConstFacts DEF TypeOK
<1>2. faults[f] < MaxFaults
  BY <1>1, ConstFacts, FaultTypes DEF Fault, FaultCount, FaultKinds
<1> QED
  BY <1>1, <1>2, ConstFacts DEF Fault, TypeOK

\* What every fault leaves true of a count that is still zero.
LEMMA FaultsGrow ==
  ASSUME TypeOK, NEW f \in FaultKinds, Fault(f)
  PROVE  /\ (faults.stop)' = 0 => faults.stop = 0 /\ f # "stop"
         /\ (faults.script)' = 0 => faults.script = 0 /\ f # "script"
         /\ (faults.docker)' = 0 => faults.docker = 0 /\ f # "docker"
         /\ (faults.downgrade)' = 0 => faults.downgrade = 0 /\ f # "downgrade"
         /\ (faults.crash + faults.docker + faults.downgrade)' = 0 =>
              /\ faults.crash + faults.docker + faults.downgrade = 0
              /\ f \notin {"crash", "docker", "downgrade"}
<1>1. /\ faults'[f] = faults[f] + 1
      /\ \A k \in FaultKinds \ {f} : faults'[k] = faults[k]
  BY FaultFacts
<1> QED
  BY <1>1, FaultTypes DEF FaultKinds

-----------------------------------------------------------------------------
(* Every step keeps the invariant, one lemma per kind of step.             *)

\* The fault counts a step may leave behind.
Counted == UNCHANGED faults \/ \E f \in FaultKinds : Fault(f)

LEMMA CountedFacts ==
  ASSUME TypeOK, Counted
  PROVE  /\ faults' \in [FaultKinds -> 0..MaxFaults]
         /\ (faults.stop)' = 0 => faults.stop = 0
         /\ (faults.script)' = 0 => faults.script = 0
         /\ (faults.docker)' = 0 => faults.docker = 0
         /\ (faults.downgrade)' = 0 => faults.downgrade = 0
         /\ (faults.crash + faults.docker + faults.downgrade)' = 0 =>
              faults.crash + faults.docker + faults.downgrade = 0
BY FaultFacts, FaultsGrow DEF Counted, TypeOK

\* A container that goes on publishes heights of its own range at most.
LEMMA ContainerStep ==
  ASSUME IInv, NEW r \in Running, Counted,
         DOMAIN box' = Names, \A q \in Names \ {r} : box'[q] = box[q],
         blocks \subseteq blocks', blocks' \subseteq blocks \cup Heights(r),
         UNCHANGED <<completed, loopVars, dropped>>
  PROVE  LoopInv' /\ HoleInv' /\ DisjointInv' /\ CoverInv' /\ DropsExplained'
<1>0. TypeOK /\ LoopInv /\ HoleInv /\ DisjointInv /\ CoverInv /\ DropsExplained
  BY DEF IInv
<1>1. /\ Names' = Names /\ Held' = Held /\ Claiming' = Claiming /\ Holding' = Holding
      /\ at' = at /\ todo' = todo /\ cur' = cur /\ frontier' = frontier
  BY DEF Names, Held, Claiming, Holding, loopVars
<1>2. r \in Claims /\ r \in Names /\ r \in Held
  BY <1>0 DEF Running, TypeOK, Held
<1>3. /\ (faults.stop)' = 0 => faults.stop = 0
      /\ (faults.script)' = 0 => faults.script = 0
      /\ (faults.docker)' = 0 => faults.docker = 0
      /\ (faults.downgrade)' = 0 => faults.downgrade = 0
  BY <1>0, CountedFacts
<1>4. LoopInv'
  BY <1>0, <1>1 DEF LoopInv, Running
<1>5. HoleInv'
  <2>1. \A h : Accounted(h) => Accounted(h)'
    BY <1>1 DEF Accounted
  <2>2. \A h \in 0..Top :
          (\E b \in blocks' : b <= h) \/ (\E q \in Held : q[1] <= h) => Accounted(h)
    BY <1>0, <1>2, ClaimFacts, ConstFacts DEF HoleInv
  <2> QED
    BY <1>0, <1>1, <1>2, <2>1, <2>2 DEF HoleInv
<1>6. DisjointInv'
  BY <1>0, <1>1, <1>2, <1>3, ClaimFacts, ConstFacts DEF DisjointInv, LoopInv, TypeOK
<1>7. CoverInv' /\ DropsExplained'
  BY <1>0, <1>1, <1>3 DEF CoverInv, DropsExplained
<1> QED
  BY <1>4, <1>5, <1>6, <1>7

BoxType == [status : {"up", "exited0", "exited1"},
            phase : {"index", "publish", "save", "done"}, next : Nat]

LEMMA RunningFinite == ASSUME TypeOK PROVE IsFiniteSet(Running) /\ Cardinality(Running) \in Nat
<1>1. Running \in SUBSET Claims
  BY DEF TypeOK, Running
<1> QED
  BY <1>1, ClaimsFinite, FS_Subset, FS_CardinalityType

\* Containers that stop or go on leave no more of them up.
LEMMA FewerRunning ==
  ASSUME TypeOK, Running' \subseteq Running
  PROVE  /\ Cardinality(Running) \in Nat
         /\ Cardinality(Running)' \in Nat /\ Cardinality(Running)' <= Cardinality(Running)
BY RunningFinite, FS_Subset, FS_CardinalityType

\* The parts of the invariant about the container itself, from its new record b.
LEMMA ContainerRecord ==
  ASSUME IInv, NEW r \in Running, Counted, NEW b \in BoxType,
         box' = [box EXCEPT ![r] = b],
         blocks \subseteq blocks', blocks' \subseteq 0..Top,
         checkpoints \subseteq checkpoints', checkpoints' \subseteq checkpoints \cup {r},
         r \in checkpoints' => Heights(r) \subseteq blocks',
         b.next \in r[1]..(r[2] + 1),
         b.phase \in {"index", "publish"} =>
            b.next <= r[2] /\ r[1]..(b.next - 1) \subseteq blocks',
         b.phase \in {"save", "done"} => Heights(r) \subseteq blocks',
         b.status = "exited0" /\ (faults.stop)' = 0 => Heights(r) \subseteq blocks',
         b.status = "exited1" => (faults.crash + faults.docker + faults.downgrade)' # 0,
         UNCHANGED <<completed, loopVars, dropped>>
  PROVE  TypeOK' /\ BoxInv' /\ CapInv'
<1>0. TypeOK /\ BoxInv /\ CapInv
  BY DEF IInv
<1>1. /\ DOMAIN box' = Names /\ r \in Names /\ r \in Claims
      /\ box'[r] = b /\ \A q \in Names \ {r} : box'[q] = box[q]
  BY <1>0 DEF Names, Running, TypeOK
<1>2. Running' \subseteq Running
  BY <1>1 DEF Running, Names
<1>3. /\ faults' \in [FaultKinds -> 0..MaxFaults]
      /\ (faults.stop)' = 0 => faults.stop = 0
      /\ (faults.crash + faults.docker + faults.downgrade)' = 0 =>
           faults.crash + faults.docker + faults.downgrade = 0
  BY <1>0, CountedFacts
<1>4. TypeOK'
  BY <1>0, <1>1, <1>3 DEF TypeOK, Names, BoxType, loopVars
<1>5. BoxInv'
  BY <1>0, <1>1, <1>3 DEF BoxInv, Names, BoxType
<1>6. CapInv'
  <2>1. at' = at /\ Claiming' = Claiming
    BY DEF loopVars, Claiming
  <2> QED
    BY <1>0, <1>1, <1>2, <1>3, <2>1, FewerRunning, ConstFacts DEF CapInv, Names
<1> QED
  BY <1>4, <1>5, <1>6

LEMMA WorkerKeeps ==
  ASSUME IInv, NEW r \in Names,
         Worker(r) \/ Crash(r) \/ Shutdown(r)
  PROVE  IInv'
<1>0. TypeOK /\ BoxInv /\ CoverInv /\ CapInv
  BY DEF IInv
<1>1. r \in Running /\ r \in Claims /\ box[r] \in BoxType
      /\ box[r].next \in r[1]..(r[2] + 1) /\ box[r].next \in Nat
  BY <1>0 DEF Worker, Index, PublishChunk, SaveCheckpoint, Return, Crash, Shutdown,
              Running, TypeOK, BoxInv, BoxType
<1>2. r[1] \in Nat /\ r[2] \in Nat /\ r[1] <= r[2] /\ r[2] < Top
      /\ Heights(r) = r[1]..r[2] /\ Heights(r) \subseteq 0..Top
  BY <1>1, ClaimFacts DEF Heights
<1>3. ASSUME NEW b \in BoxType, Counted, box' = [box EXCEPT ![r] = b],
             blocks \subseteq blocks', blocks' \subseteq blocks \cup Heights(r),
             checkpoints \subseteq checkpoints', checkpoints' \subseteq checkpoints \cup {r},
             r \in checkpoints' => Heights(r) \subseteq blocks',
             b.next \in r[1]..(r[2] + 1),
             b.phase \in {"index", "publish"} =>
                b.next <= r[2] /\ r[1]..(b.next - 1) \subseteq blocks',
             b.phase \in {"save", "done"} => Heights(r) \subseteq blocks',
             b.status = "exited0" /\ (faults.stop)' = 0 => Heights(r) \subseteq blocks',
             b.status = "exited1" => (faults.crash + faults.docker + faults.downgrade)' # 0,
             UNCHANGED <<completed, loopVars, dropped>>
      PROVE  IInv'
  <2>1. blocks' \subseteq 0..Top
    BY <1>0, <1>2, <1>3 DEF TypeOK
  <2>2. TypeOK' /\ BoxInv' /\ CapInv'
    BY <1>1, <1>3, <2>1, ContainerRecord
  <2>3. DOMAIN box' = Names /\ \A q \in Names \ {r} : box'[q] = box[q]
    BY <1>3 DEF Names
  <2>4. LoopInv' /\ HoleInv' /\ DisjointInv' /\ CoverInv' /\ DropsExplained'
    BY <1>1, <1>3, <2>3, ContainerStep
  <2> QED
    BY <2>2, <2>4 DEF IInv
<1>4. r \in checkpoints => Heights(r) \subseteq blocks
  BY <1>0 DEF BoxInv
<1>5. /\ box[r].phase \in {"index", "publish"} =>
            box[r].next <= r[2] /\ r[1]..(box[r].next - 1) \subseteq blocks
      /\ box[r].phase \in {"save", "done"} => Heights(r) \subseteq blocks
  BY <1>0 DEF BoxInv
<1>6. ASSUME NEW st \in {"exited0", "exited1"}, Exit(r, st), Counted,
             st = "exited0" /\ (faults.stop)' = 0 => Heights(r) \subseteq blocks,
             st = "exited1" => (faults.crash + faults.docker + faults.downgrade)' # 0,
             UNCHANGED <<blocks, checkpoints, completed, loopVars, dropped>>
      PROVE  IInv'
  <2> DEFINE b == [box[r] EXCEPT !.status = st]
  <2>1. b \in BoxType /\ b.status = st /\ b.phase = box[r].phase /\ b.next = box[r].next
    BY <1>1 DEF BoxType
  <2>2. box' = [box EXCEPT ![r] = b]
    BY <1>6 DEF Exit
  <2> HIDE DEF b
  <2> QED
    BY <1>1, <1>3, <1>4, <1>5, <1>6, <2>1, <2>2
<1>7. CASE Index(r)
  <2>1. CASE FinalizedRawCoverage(completed, r[1], r[2])
    <3> DEFINE b == [box[r] EXCEPT !.phase = "publish"]
    <3>1. b \in BoxType /\ b.status = "up" /\ b.phase = "publish" /\ b.next = box[r].next
      BY <1>1 DEF BoxType, Running
    <3>2. /\ box' = [box EXCEPT ![r] = b] /\ Counted
          /\ UNCHANGED <<blocks, checkpoints, completed, loopVars, dropped>>
      BY <1>7, <2>1 DEF Index, Counted, rawVars
    <3>3. b.next <= r[2] /\ r[1]..(b.next - 1) \subseteq blocks
      BY <1>5, <1>7, <3>1 DEF Index
    <3> HIDE DEF b
    <3> QED
      BY <1>1, <1>3, <1>4, <3>1, <3>2, <3>3
  <2>2. CASE ~FinalizedRawCoverage(completed, r[1], r[2])
    <3>1. faults.downgrade # 0
      BY <1>0, <2>2 DEF CoverInv
    <3>2. Exit(r, "exited1") /\ Counted
          /\ UNCHANGED <<blocks, checkpoints, completed, loopVars, dropped, faults>>
      BY <1>7, <2>2 DEF Index, Counted, rawVars
    <3>3. (faults.crash + faults.docker + faults.downgrade)' # 0
      BY <1>0, <3>1, <3>2, FaultTypes
    <3> QED
      BY <1>6, <3>2, <3>3
  <2> QED
    BY <2>1, <2>2
<1>8. CASE PublishChunk(r)
  <2> DEFINE last == Min({box[r].next + PublicationChunk - 1, r[2]})
             b == [status |-> "up", next |-> last + 1,
                   phase |-> IF last = r[2] THEN "save" ELSE "publish"]
  <2>1. box[r].phase = "publish" /\ box[r].next <= r[2]
        /\ r[1]..(box[r].next - 1) \subseteq blocks
    BY <1>5, <1>8 DEF PublishChunk
  <2>2. last \in Nat /\ box[r].next <= last /\ last <= r[2]
    <3> DEFINE S == {box[r].next + PublicationChunk - 1, r[2]}
    <3>1. S \in SUBSET Nat /\ S # {}
      BY <1>1, <1>2, ConstFacts
    <3>2. last \in S /\ \A x \in S : last <= x
      BY <3>1, NatMin
    <3> HIDE DEF last
    <3> QED
      BY <1>1, <1>2, <2>1, <3>2, ConstFacts
  <2>3. b \in BoxType /\ b.status = "up" /\ b.next = last + 1
        /\ b.phase = IF last = r[2] THEN "save" ELSE "publish"
    <3> HIDE DEF last
    <3> QED
      BY <2>2 DEF BoxType
  <2>4. /\ blocks' = blocks \cup (box[r].next..last)
        /\ box' = [box EXCEPT ![r] = b]
        /\ UNCHANGED <<checkpoints, completed, loopVars, dropped, faults>>
    BY <1>8 DEF PublishChunk, rawVars
  <2> HIDE DEF last, b
  <2>5. r[1]..last \subseteq blocks' /\ blocks' \subseteq blocks \cup Heights(r)
    BY <1>1, <1>2, <2>1, <2>2, <2>4
  <2>6. b.next \in r[1]..(r[2] + 1)
    BY <1>1, <1>2, <2>2, <2>3
  <2>7. b.phase = "publish" => b.next <= r[2] /\ r[1]..(b.next - 1) \subseteq blocks'
    BY <1>2, <2>2, <2>3, <2>5
  <2>8. b.phase = "save" => Heights(r) \subseteq blocks'
    BY <1>2, <2>3, <2>5
  <2>9. b.status = "up" /\ b.phase \in {"publish", "save"}
    BY <2>3
  <2>10. Counted /\ blocks \subseteq blocks' /\ (r \in checkpoints' => Heights(r) \subseteq blocks')
    BY <1>4, <2>4 DEF Counted
  <2> QED
    BY <1>3, <2>3, <2>4, <2>5, <2>6, <2>7, <2>8, <2>9, <2>10
<1>9. CASE SaveCheckpoint(r)
  <2> DEFINE b == [box[r] EXCEPT !.phase = "done"]
  <2>1. b \in BoxType /\ b.status = "up" /\ b.phase = "done" /\ b.next = box[r].next
    BY <1>1 DEF BoxType, Running
  <2>2. /\ box' = [box EXCEPT ![r] = b] /\ Counted /\ checkpoints' = checkpoints \cup {r}
        /\ UNCHANGED <<blocks, completed, loopVars, dropped>>
    BY <1>9 DEF SaveCheckpoint, Counted, rawVars
  <2>3. Heights(r) \subseteq blocks
    BY <1>5, <1>9 DEF SaveCheckpoint
  <2> HIDE DEF b
  <2> QED
    BY <1>1, <1>3, <2>1, <2>2, <2>3
<1>10. CASE Return(r)
  <2>1. Heights(r) \subseteq blocks
    BY <1>5, <1>10 DEF Return
  <2> QED
    BY <1>6, <1>10, <2>1 DEF Return, Counted, rawVars
<1>11. CASE Crash(r)
  <2>1. Fault("crash") /\ "crash" \in FaultKinds
    BY <1>11 DEF Crash, FaultKinds
  <2>2. (faults.crash + faults.docker + faults.downgrade)' # 0
    BY <1>0, <2>1, FaultsGrow
  <2> QED
    BY <1>6, <1>11, <2>1, <2>2 DEF Crash, Counted, rawVars
<1>12. CASE Shutdown(r)
  <2>1. Fault("stop") /\ "stop" \in FaultKinds
    BY <1>12 DEF Shutdown, FaultKinds
  <2>2. (faults.stop)' # 0
    BY <1>0, <2>1, FaultsGrow
  <2> QED
    BY <1>6, <1>12, <2>1, <2>2 DEF Shutdown, Counted, rawVars
<1> QED
  BY <1>7, <1>8, <1>9, <1>10, <1>11, <1>12 DEF Worker

LEMMA WorldKeeps ==
  ASSUME IInv,
         \/ \E q \in RawRanges : CompleteRaw(q) \/ DowngradeRaw(q)
         \/ RelinkRaw \/ LiveMain \/ UNCHANGED vars
  PROVE  IInv'
<1>0. TypeOK /\ LoopInv /\ BoxInv /\ HoleInv /\ DisjointInv /\ CoverInv /\ CapInv /\ DropsExplained
  BY DEF IInv
<1>1. UNCHANGED <<checkpoints, box, at, todo, cur, frontier, dropped>> /\ Counted
  BY DEF CompleteRaw, DowngradeRaw, RelinkRaw, LiveMain, vars, loopVars, rawVars, Counted, FaultKinds
<1>2. /\ Names' = Names /\ Running' = Running /\ Held' = Held
      /\ Claiming' = Claiming /\ Holding' = Holding
  BY <1>1 DEF Names, Running, Held, Claiming, Holding
<1>3. /\ faults' \in [FaultKinds -> 0..MaxFaults]
      /\ (faults.stop)' = 0 => faults.stop = 0
      /\ (faults.script)' = 0 => faults.script = 0
      /\ (faults.docker)' = 0 => faults.docker = 0
      /\ (faults.downgrade)' = 0 => faults.downgrade = 0
      /\ (faults.crash + faults.docker + faults.downgrade)' = 0 =>
           faults.crash + faults.docker + faults.downgrade = 0
  BY <1>0, <1>1, CountedFacts
<1>4. blocks' = blocks \/ blocks' = blocks \cup {Top}
  BY DEF CompleteRaw, DowngradeRaw, RelinkRaw, LiveMain, vars
<1>5. completed' \subseteq RawRanges
      /\ ((faults.downgrade)' = 0 => completed \subseteq completed')
  <2>1. CASE \E q \in RawRanges : DowngradeRaw(q)
    <3>1. Fault("downgrade") /\ "downgrade" \in FaultKinds
      BY <2>1 DEF DowngradeRaw, FaultKinds
    <3>2. (faults.downgrade)' # 0
      BY <1>0, <3>1, FaultsGrow
    <3> QED
      BY <1>0, <2>1, <3>2 DEF DowngradeRaw, TypeOK
  <2>2. CASE ~\E q \in RawRanges : DowngradeRaw(q)
    BY <1>0, <2>2 DEF CompleteRaw, RelinkRaw, LiveMain, vars, rawVars, TypeOK
  <2> QED
    BY <2>1, <2>2
<1>6. TypeOK'
  <2>1. blocks' \subseteq 0..Top
    <3>1. Top \in 0..Top
      BY ConstFacts
    <3>2. blocks \subseteq 0..Top
      BY <1>0 DEF TypeOK
    <3> QED
      BY <1>4, <3>1, <3>2
  <2> QED
    BY <1>0, <1>1, <1>2, <1>3, <1>5, <2>1 DEF TypeOK
<1>7. LoopInv' /\ CapInv' /\ DropsExplained'
  BY <1>0, <1>1, <1>2, <1>3 DEF LoopInv, CapInv, DropsExplained
<1>8. BoxInv'
  BY <1>0, <1>1, <1>2, <1>3, <1>4 DEF BoxInv
<1>9. HoleInv'
  <2>1. \A h : Accounted(h) => Accounted(h)'
    BY <1>1, <1>2, <1>4 DEF Accounted
  <2>2. blocks' # {} => Top \in blocks'
    BY <1>0, <1>4 DEF HoleInv
  <2>3. \A h \in 0..Top :
          (\E b \in blocks' : b <= h) \/ (\E q \in Held : q[1] <= h) => Accounted(h)'
    <3>1. \A h \in 0..Top : h >= Top => h = Top
      BY ConstFacts
    <3>2. Top \in blocks' => Accounted(Top)'
      BY DEF Accounted
    <3> QED
      BY <1>0, <1>4, <2>1, <3>1, <3>2, ConstFacts DEF HoleInv
  <2> QED
    BY <1>0, <1>1, <1>2, <1>4, <2>1, <2>2, <2>3 DEF HoleInv
<1>10. DisjointInv'
  BY <1>0, <1>1, <1>2, <1>3, <1>4, ConstFacts DEF DisjointInv, LoopInv, Claiming
<1>11. CoverInv'
  <2>1. SUFFICES ASSUME (faults.downgrade)' = 0
                 PROVE  /\ \A r \in Names : FinalizedRawCoverage(completed', r[1], r[2])
                        /\ Holding => FinalizedRawCoverage(completed', cur[1], cur[2])
    BY <1>1, <1>2 DEF CoverInv
  <2>2. /\ \A r \in Names : FinalizedRawCoverage(completed, r[1], r[2])
        /\ Holding => FinalizedRawCoverage(completed, cur[1], cur[2])
    BY <1>0, <1>3, <2>1 DEF CoverInv
  <2>3. Names \subseteq Claims /\ (Holding => cur \in Claims) /\ completed \in SUBSET RawRanges
    BY <1>0 DEF TypeOK, LoopInv
  <2>4. ASSUME NEW r \in Claims, FinalizedRawCoverage(completed, r[1], r[2])
        PROVE  FinalizedRawCoverage(completed', r[1], r[2])
    <3>1. r[1] \in Nat /\ r[2] \in Nat /\ r[1] <= r[2]
      BY ClaimFacts
    <3>2. completed' \in SUBSET RawRanges /\ completed \subseteq completed'
      BY <1>5, <2>1
    <3> QED
      BY <2>3, <2>4, <3>1, <3>2, CoverageGrows
  <2> QED
    BY <2>2, <2>3, <2>4
<1> QED
  BY <1>6, <1>7, <1>8, <1>9, <1>10, <1>11 DEF IInv

-----------------------------------------------------------------------------
(* The supervisor's steps.                                                 *)

LEMMA ListKeeps == ASSUME IInv, ListStopped \/ CleanDone PROVE IInv'
<1>0. TypeOK /\ LoopInv /\ BoxInv /\ HoleInv /\ DisjointInv /\ CoverInv /\ CapInv /\ DropsExplained
  BY DEF IInv
<1>1. /\ UNCHANGED <<blocks, checkpoints, completed, box, cur, frontier, dropped, faults>>
      /\ at \in {"list", "clean"} /\ at' \in {"clean", "count"}
      /\ todo' \subseteq Names \ Running /\ (at' = "count" => todo' = {})
  BY <1>0 DEF ListStopped, CleanDone, rawVars, LoopInv
<1>2. /\ Names' = Names /\ Running' = Running /\ Held' = Held
      /\ ~Claiming' /\ ~Holding' /\ ~Holding
  BY <1>1 DEF Names, Running, Held, Claiming, Holding
<1>3. TypeOK'
  BY <1>0, <1>1, <1>2 DEF TypeOK
<1>4. LoopInv' /\ CapInv' /\ DropsExplained' /\ BoxInv' /\ CoverInv'
  BY <1>0, <1>1, <1>2 DEF LoopInv, CapInv, DropsExplained, BoxInv, CoverInv
<1>5. HoleInv' /\ DisjointInv'
  BY <1>0, <1>1, <1>2 DEF HoleInv, DisjointInv, Accounted
<1> QED
  BY <1>3, <1>4, <1>5 DEF IInv

LEMMA CleanStoppedKeeps == ASSUME IInv, NEW r \in todo, CleanStopped(r) PROVE IInv'
<1>0. TypeOK /\ LoopInv /\ BoxInv /\ HoleInv /\ DisjointInv /\ CoverInv /\ CapInv /\ DropsExplained
  BY DEF IInv
<1>1. /\ at = "clean" /\ todo' = todo \ {r}
      /\ DOMAIN box' = Names \ {r} /\ \A q \in Names \ {r} : box'[q] = box[q]
      /\ UNCHANGED <<blocks, checkpoints, completed, frontier, faults>>
  BY DEF CleanStopped, RemoveContainer, rawVars
<1>2. r \in Names /\ r \notin Running /\ r \in Claims /\ Held = Names
  BY <1>0, <1>1 DEF LoopInv, TypeOK, Held
<1>3. Names' = Names \ {r} /\ Running' = Running
  BY <1>1, <1>2 DEF Names, Running
<1>4. \/ /\ box[r].status = "exited0" /\ at' = "clean" /\ cur' = cur
         /\ dropped' = dropped \cup (Heights(r) \ blocks)
      \/ /\ box[r].status = "exited1" /\ at' = "restart" /\ cur' = r /\ dropped' = dropped
  BY <1>0, <1>1, <1>2 DEF CleanStopped, Unpublished, TypeOK, Running
<1>5. Held' = IF at' = "restart" THEN Names ELSE Names \ {r}
  BY <1>2, <1>3, <1>4 DEF Held
<1>6. TypeOK'
  BY <1>0, <1>1, <1>2, <1>3, <1>4, ClaimFacts DEF TypeOK
<1>7. LoopInv'
  BY <1>0, <1>1, <1>2, <1>3, <1>4 DEF LoopInv, Holding, Claiming
<1>8. BoxInv'
  BY <1>0, <1>1, <1>3 DEF BoxInv
<1>9. HoleInv'
  <2>1. ~Claiming'
    BY <1>4 DEF Claiming
  <2>2. \A h : Accounted(h) => Accounted(h)'
    BY <1>1, <1>2, <1>4, <1>5 DEF Accounted
  <2> QED
    BY <1>0, <1>1, <1>2, <1>3, <1>4, <1>5, <2>1, <2>2 DEF HoleInv
<1>10. DisjointInv'
  BY <1>0, <1>1, <1>2, <1>3, <1>4, <1>5 DEF DisjointInv, Claiming
<1>11. CoverInv'
  BY <1>0, <1>1, <1>2, <1>3, <1>4 DEF CoverInv, Holding
<1>12. CapInv'
  BY <1>0, <1>1, <1>2, <1>3, <1>4 DEF CapInv, Claiming
<1>13. DropsExplained'
  BY <1>0, <1>1, <1>2, <1>4 DEF DropsExplained, BoxInv
<1> QED
  BY <1>6, <1>7, <1>8, <1>9, <1>10, <1>11, <1>12, <1>13 DEF IInv

\* Starting the range at hand: the parts about the containers.
LEMMA StartKeeps ==
  ASSUME IInv, cur \in Claims, at \in {"restart", "start"}, StartMainRange(cur),
         UNCHANGED <<blocks, checkpoints, completed, todo, dropped, faults>>,
         at' \in {"clean", "count"}, frontier' \in 0..Top, cur' = NoRange
  PROVE  /\ TypeOK' /\ BoxInv' /\ DropsExplained' /\ CoverInv'
         /\ Names' = Names \cup {cur} /\ Held' = Names \cup {cur}
         /\ Running' \subseteq Running \cup {cur} /\ ~Claiming' /\ ~Holding'
         /\ Running' \cap Names = Running
         /\ \A q \in Names : box'[q] = box[q]
         /\ cur \notin Names => box'[cur].status = "up"
<1>0. TypeOK /\ BoxInv /\ DropsExplained /\ CoverInv
  BY DEF IInv
<1>1. /\ Names' = Names \cup {cur}
      /\ \A q \in Names : box'[q] = box[q]
      /\ cur \notin Names => box'[cur] = Started(cur)
  BY DEF StartMainRange, Names
<1>2. /\ Started(cur) \in BoxType /\ Started(cur).status = "up" /\ Started(cur).next = cur[1]
      /\ Started(cur).phase = IF cur \in checkpoints THEN "done" ELSE "index"
  BY ClaimFacts DEF Started, BoxType
<1>3. TypeOK'
  BY <1>0, <1>1, <1>2, ClaimFacts DEF TypeOK, Started
<1>4. BoxInv'
  <2>1. cur[1]..(cur[1] - 1) = {}
    BY ClaimFacts
  <2> HIDE DEF Names
  <2> QED
    BY <1>0, <1>1, <1>2, <2>1, ClaimFacts DEF BoxInv, BoxType
<1>5. ~Claiming' /\ ~Holding' /\ Held' = Names \cup {cur}
  BY <1>1 DEF Claiming, Holding, Held
<1>6. CoverInv'
  BY <1>0, <1>1, <1>5 DEF CoverInv, Holding
<1>7. DropsExplained'
  BY <1>0 DEF DropsExplained
<1>8. Running' \subseteq Running \cup {cur} /\ Running' \cap Names = Running
  BY <1>1 DEF Running
<1> QED
  BY <1>1, <1>2, <1>3, <1>4, <1>5, <1>6, <1>7, <1>8

LEMMA RestartKeeps == ASSUME IInv, Restart PROVE IInv'
<1>0. TypeOK /\ LoopInv /\ HoleInv /\ DisjointInv /\ CapInv
  BY DEF IInv
<1>1. /\ at = "restart" /\ at' = "clean" /\ cur' = NoRange /\ StartMainRange(cur)
      /\ UNCHANGED <<blocks, checkpoints, completed, todo, frontier, dropped, faults>>
  BY DEF Restart, rawVars
<1>2. cur \in Claims /\ cur \notin Names /\ Held = Names \cup {cur} /\ frontier \in 0..Top
  BY <1>0, <1>1 DEF LoopInv, Holding, Held, TypeOK
<1>3. /\ TypeOK' /\ BoxInv' /\ DropsExplained' /\ CoverInv'
      /\ Names' = Names \cup {cur} /\ Held' = Names \cup {cur}
      /\ Running' \subseteq Running \cup {cur} /\ ~Claiming' /\ ~Holding'
      /\ Running' \cap Names = Running
  BY <1>1, <1>2, StartKeeps
<1>4. LoopInv'
  BY <1>0, <1>1, <1>3 DEF LoopInv
<1>5. HoleInv'
  <2>1. \A h : Accounted(h) => Accounted(h)'
    BY <1>1, <1>2, <1>3 DEF Accounted
  <2> QED
    BY <1>0, <1>1, <1>2, <1>3, <2>1 DEF HoleInv
<1>6. DisjointInv'
  BY <1>0, <1>1, <1>2, <1>3 DEF DisjointInv
<1>7. CapInv'
  BY <1>0, <1>1 DEF CapInv
<1> QED
  BY <1>3, <1>4, <1>5, <1>6, <1>7 DEF IInv

\* A step of ensure_main_workers that starts nothing: what it has to bring along.
LEMMA QuietStep ==
  ASSUME IInv, at \in {"count", "names", "min", "ranges", "links", "start"},
         at' \in {"list", "names", "min", "ranges", "links", "start"},
         Counted, UNCHANGED <<blocks, checkpoints, completed, box, todo, dropped>>,
         frontier' \in 0..Top, cur' \in Claims \cup {NoRange},
         Holding' => cur' \in Claims,
         Claiming' => frontier' \in 1..Top /\ blocks # {} /\ \A h \in frontier'..Top : Accounted(h),
         at' \in {"links", "start"} => cur'[2] = frontier' - 1,
         at' = "min" => frontier' = Top \/ \E r \in Names : frontier' = r[1],
         (faults.docker)' = 0 =>
            /\ Claiming' \/ at' = "min" => \A r \in Names : frontier' <= r[1]
            /\ Claiming' => \A b \in blocks : frontier' <= b,
         (faults.downgrade)' = 0 /\ Holding' => FinalizedRawCoverage(completed, cur'[1], cur'[2]),
         (faults.crash + faults.docker + faults.downgrade)' = 0 /\ at' # "list" =>
            Cardinality(Running) < MAIN_WORKERS
  PROVE  IInv'
<1>0. TypeOK /\ LoopInv /\ BoxInv /\ HoleInv /\ DisjointInv /\ CoverInv /\ CapInv /\ DropsExplained
  BY DEF IInv
<1>1. /\ Names' = Names /\ Running' = Running /\ Held = Names /\ Held' = Names
      /\ todo = {} /\ todo' = {} /\ at' # "restart" /\ at # "restart"
  BY <1>0 DEF Names, Running, Held, LoopInv
<1>2. /\ faults' \in [FaultKinds -> 0..MaxFaults]
      /\ (faults.stop)' = 0 => faults.stop = 0
      /\ (faults.script)' = 0 => faults.script = 0
      /\ (faults.docker)' = 0 => faults.docker = 0
      /\ (faults.downgrade)' = 0 => faults.downgrade = 0
      /\ (faults.crash + faults.docker + faults.downgrade)' = 0 =>
           faults.crash + faults.docker + faults.downgrade = 0
  BY <1>0, CountedFacts
<1>3. TypeOK'
  BY <1>0, <1>1, <1>2 DEF TypeOK
<1>4. LoopInv'
  BY <1>1 DEF LoopInv
<1>5. BoxInv' /\ DropsExplained'
  BY <1>0, <1>1, <1>2 DEF BoxInv, DropsExplained
<1>6. HoleInv'
  <2>1. \A h : Accounted(h)' <=> Accounted(h)
    BY <1>1 DEF Accounted
  <2> QED
    BY <1>0, <1>1, <2>1 DEF HoleInv
<1>7. DisjointInv'
  BY <1>0, <1>1, <1>2 DEF DisjointInv
<1>8. CoverInv'
  BY <1>0, <1>1, <1>2 DEF CoverInv
<1>9. CapInv'
  <2>1. at' = "names" \/ at' = "min" \/ Claiming' => at' # "list"
    BY DEF Claiming
  <2> QED
    BY <1>0, <1>1, <1>2, <2>1 DEF CapInv
<1> QED
  BY <1>3, <1>4, <1>5, <1>6, <1>7, <1>8, <1>9 DEF IInv

\* Going back to sleep.
LEMMA LeaveKeeps ==
  ASSUME IInv, at \in {"count", "names", "min", "ranges", "links", "start"}, Leave, Counted,
         UNCHANGED <<blocks, checkpoints, completed, box, todo, dropped>>
  PROVE  IInv'
<1>1. at' = "list" /\ cur' = NoRange /\ frontier' = Top /\ Top \in 0..Top
  BY ConstFacts DEF Leave
<1>2. ~Holding' /\ ~Claiming'
  BY <1>1 DEF Holding, Claiming
<1> QED
  BY <1>1, <1>2, QuietStep

LEMMA CountActiveKeeps == ASSUME IInv, CountActive PROVE IInv'
<1>0. TypeOK
  BY DEF IInv
<1>1. at = "count" /\ Counted /\ UNCHANGED <<blocks, checkpoints, completed, box, todo, dropped>>
  BY DEF CountActive, Counted, FaultKinds, rawVars
<1>2. CASE Leave
  BY <1>1, <1>2, LeaveKeeps
<1>3. CASE at' = "names" /\ UNCHANGED <<cur, frontier>>
  <2>1. ~Holding' /\ ~Claiming' /\ cur' \in Claims \cup {NoRange} /\ frontier' \in 0..Top
    BY <1>0, <1>3 DEF Holding, Claiming, TypeOK
  <2>2. (faults.crash + faults.docker + faults.downgrade)' = 0 => Cardinality(Running) < MAIN_WORKERS
    <3>1. CASE Fault("docker")
      BY <1>0, <3>1, FaultsGrow DEF FaultKinds
    <3>2. CASE SlotFree
      BY <3>2 DEF SlotFree
    <3> QED
      BY <1>3, <3>1, <3>2 DEF CountActive, Leave
  <2> QED
    BY <1>1, <1>3, <2>1, <2>2, QuietStep
<1> QED
  BY <1>2, <1>3 DEF CountActive

LEMMA ReadNamesKeeps == ASSUME IInv, ReadNames PROVE IInv'
<1>0. TypeOK /\ CapInv
  BY DEF IInv
<1>1. at = "names" /\ at' = "min" /\ Counted /\ cur' = cur
      /\ UNCHANGED <<blocks, checkpoints, completed, box, todo, dropped>>
      /\ (frontier' = KnownNames \/ (frontier' = Top /\ Fault("docker")))
  BY DEF ReadNames, Counted, FaultKinds, rawVars
<1> DEFINE S == {Top} \cup {r[1] : r \in Names}
<1>2. S \in SUBSET Nat /\ S # {} /\ \A x \in S : x = Top \/ \E r \in Names : x = r[1]
  BY <1>0, ClaimFacts, ConstFacts DEF TypeOK
<1>3. KnownNames \in S /\ \A x \in S : KnownNames <= x
  BY <1>2, NatMin DEF KnownNames
<1>4. Top \in S /\ \A r \in Names : r[1] \in S
  OBVIOUS
<1> HIDE DEF S
<1>5. /\ (frontier' = Top \/ \E r \in Names : frontier' = r[1])
      /\ frontier' \in 0..Top
      /\ frontier' = KnownNames => \A r \in Names : frontier' <= r[1]
  <2>1. KnownNames \in Nat /\ KnownNames <= Top
    BY <1>2, <1>3, <1>4
  <2>2. frontier' \in S
    BY <1>1, <1>3, <1>4
  <2>3. frontier' \in 0..Top
    BY <1>1, <2>1, ConstFacts
  <2> QED
    BY <1>2, <1>3, <1>4, <2>2, <2>3
<1>6. (faults.docker)' = 0 => \A r \in Names : frontier' <= r[1]
  BY <1>0, <1>1, <1>5, FaultsGrow DEF FaultKinds
<1>7. ~Holding' /\ ~Claiming' /\ cur' \in Claims \cup {NoRange}
  BY <1>0, <1>1 DEF Holding, Claiming, TypeOK
<1>8. (faults.crash + faults.docker + faults.downgrade)' = 0 => Cardinality(Running) < MAIN_WORKERS
  BY <1>0, <1>1, CountedFacts DEF CapInv
<1> QED
  BY <1>1, <1>5, <1>6, <1>7, <1>8, QuietStep

\* Everything from the frontier upwards is accounted for when it is read.
LEMMA ReadMinKeeps == ASSUME IInv, ReadMin PROVE IInv'
<1>0. TypeOK /\ HoleInv /\ DisjointInv /\ CapInv
  BY DEF IInv
<1> DEFINE least == IF blocks = {} THEN 0 ELSE Min(blocks)
           low == Min({frontier, least})
<1>1. at = "min" /\ Counted /\ UNCHANGED <<blocks, checkpoints, completed, box, todo, dropped, faults>>
      /\ (Leave \/ (low # 0 /\ at' = "ranges" /\ frontier' = low /\ cur' = cur))
  BY DEF ReadMin, Counted, rawVars
<1>2. CASE Leave
  BY <1>1, <1>2, LeaveKeeps
<1>3. CASE low # 0 /\ at' = "ranges" /\ frontier' = low /\ cur' = cur
  <2>0. blocks \subseteq Nat /\ frontier \in Nat /\ frontier <= Top
    BY <1>0, ConstFacts DEF TypeOK
  <2>1. blocks # {} => Min(blocks) \in blocks /\ \A b \in blocks : Min(blocks) <= b
    BY <2>0, NatMin
  <2>2. least \in Nat
    BY <2>0, <2>1
  <2>3. low \in {frontier, least} /\ low <= frontier /\ low <= least
    <3> HIDE DEF least
    <3>1. {frontier, least} \in SUBSET Nat /\ {frontier, least} # {}
      BY <2>0, <2>2
    <3> QED
      BY <3>1, NatMin
  <2> HIDE DEF low
  <2>4. blocks # {} /\ least = Min(blocks)
    <3>1. CASE blocks = {}
      <4>1. low = 0
        BY <2>0, <2>2, <2>3, <3>1
      <4> QED
        BY <1>3, <4>1
    <3> QED
      BY <3>1
  <2>5. Top \in blocks /\ low \in 1..Top
    <3>1. Top \in blocks
      BY <1>0, <2>4 DEF HoleInv
    <3>2. low \in Nat
      BY <2>0, <2>2, <2>3
    <3> QED
      BY <1>3, <2>0, <2>3, <3>1, <3>2, ConstFacts
  <2>6. \A b \in blocks : low <= b
    <3> SUFFICES ASSUME NEW b \in blocks PROVE low <= b
      OBVIOUS
    <3>1. Min(blocks) <= b /\ low <= least
      BY <2>1, <2>3, <2>4
    <3>2. low \in Nat /\ b \in Nat /\ Min(blocks) \in Nat
      <4>1. low \in Nat
        BY <2>5, ConstFacts
      <4> QED
        BY <2>0, <2>1, <2>4, <4>1
    <3> QED
      BY <2>4, <3>1, <3>2
  <2>7. (\E b \in blocks : b = low) \/ \E r \in Names : r[1] = low
    BY <1>0, <1>1, <2>1, <2>3, <2>4, <2>5 DEF HoleInv
  <2>8. Names \subseteq Held
    BY DEF Held
  <2>9. \A h \in low..Top : Accounted(h)
    <3> SUFFICES ASSUME NEW h \in low..Top PROVE Accounted(h)
      OBVIOUS
    <3>1. h \in 0..Top /\ low <= h
      BY <2>5
    <3> QED
      BY <1>0, <2>7, <2>8, <3>1 DEF HoleInv
  <2>10. faults.docker = 0 => \A r \in Names : low <= r[1]
    <3>1. \A r \in Names : r[1] \in Nat
      BY <1>0, ClaimFacts DEF TypeOK
    <3> QED
      BY <1>0, <1>1, <2>0, <2>3, <2>5, <3>1 DEF DisjointInv
  <2>11. ~Holding' /\ cur' \in Claims \cup {NoRange} /\ frontier' \in 0..Top /\ frontier' \in 1..Top
    BY <1>0, <1>3, <2>5, ConstFacts DEF Holding, TypeOK
  <2>12. faults.crash + faults.docker + faults.downgrade = 0 => Cardinality(Running) < MAIN_WORKERS
    BY <1>0, <1>1 DEF CapInv
  <2> QED
    BY <1>1, <1>3, <2>4, <2>6, <2>9, <2>10, <2>11, <2>12, QuietStep
<1> QED
  BY <1>1, <1>2, <1>3

\* A batch reaches down to its last range without a gap: the ranges in it descend,
\* and a height in its span lies in the first of them that begins at or below it.
LEMMA BatchFacts ==
  ASSUME NEW cs \in SUBSET RawRanges, NEW n \in Nat \ {0}, NEW b \in [1..n -> cs],
         \A i \in 2..n : Follows(b[i], b[i - 1]),
         NEW target \in Nat, b[1][1] <= target, target <= b[1][2]
  PROVE  /\ b[n][1] \in Nat /\ b[n][1] <= target
         /\ FinalizedRawCoverage(cs, b[n][1], target)
<1>1. \A i \in 1..n : /\ b[i] \in cs /\ b[i][1] \in Nat /\ b[i][2] \in Nat /\ b[i][1] <= b[i][2]
  BY ConstFacts
<1>2. \A i \in 2..n : b[i][2] = b[i - 1][1] - 1 /\ i - 1 \in 1..n
  BY DEF Follows
<1>3. 1 \in 1..n /\ n \in 1..n
  OBVIOUS
<1>4. \A i \in 1..n : b[i][1] <= b[1][1]
  <2> DEFINE Bad == {i \in 1..n : ~(b[i][1] <= b[1][1])}
  <2>1. SUFFICES Bad = {}
    OBVIOUS
  <2>2. SUFFICES ASSUME Bad # {} PROVE FALSE
    OBVIOUS
  <2>3. Bad \in SUBSET Nat
    OBVIOUS
  <2> DEFINE m == Min(Bad)
  <2>4. m \in Bad /\ \A x \in Bad : m <= x
    BY <2>2, <2>3, NatMin
  <2> HIDE DEF m
  <2>5. m \in 2..n
    BY <1>1, <1>3, <2>4
  <2>6. m - 1 \in 1..n /\ m - 1 \notin Bad
    BY <2>4, <2>5
  <2>7. b[m - 1][1] <= b[1][1] /\ b[m][2] = b[m - 1][1] - 1
    BY <1>2, <2>5, <2>6
  <2>8. b[m][1] <= b[1][1]
    BY <1>1, <1>3, <2>5, <2>6, <2>7
  <2> QED
    BY <2>4, <2>8
<1>5. b[n][1] \in Nat /\ b[n][1] <= target
  BY <1>1, <1>3, <1>4
<1>6. ASSUME NEW h \in b[n][1]..target PROVE \E q \in cs : h \in Heights(q)
  <2> DEFINE Below == {i \in 1..n : b[i][1] <= h}
             m == Min(Below)
  <2>1. h \in Nat /\ h <= target /\ n \in Below
    BY <1>1, <1>3, <1>5, <1>6
  <2>2. m \in Below /\ \A x \in Below : m <= x
    <3>1. Below \in SUBSET Nat /\ Below # {}
      BY <2>1
    <3> HIDE DEF Below
    <3> QED
      BY <3>1, NatMin
  <2> HIDE DEF m
  <2>3. m \in 1..n /\ b[m][1] <= h
    BY <2>2
  <2>4. CASE m = 1
    BY <1>1, <2>1, <2>3, <2>4 DEF Heights
  <2>5. CASE m # 1
    <3>1. m \in 2..n
      BY <2>3, <2>5
    <3>2. m - 1 \in 1..n /\ m - 1 \notin Below
      BY <2>2, <3>1
    <3>3. h < b[m - 1][1]
      BY <1>1, <2>1, <3>2
    <3>4. h <= b[m][2]
      BY <1>1, <1>2, <2>1, <3>1, <3>2, <3>3
    <3> QED
      BY <1>1, <2>1, <2>3, <3>4 DEF Heights
  <2> QED
    BY <2>4, <2>5
<1> QED
  BY <1>5, <1>6, CoverageDecided

LEMMA FindBatchKeeps == ASSUME IInv, FindBatch PROVE IInv'
<1>0. TypeOK /\ LoopInv /\ HoleInv /\ DisjointInv /\ CapInv
  BY DEF IInv
<1>1. /\ at = "ranges" /\ Counted /\ Claiming
      /\ UNCHANGED <<blocks, checkpoints, completed, box, todo, dropped, faults>>
  BY DEF FindBatch, Counted, rawVars, Claiming
<1>2. frontier \in 1..Top /\ frontier - 1 \in Nat /\ completed \in SUBSET RawRanges
      /\ frontier \in 0..Top
  BY <1>0, <1>1, ConstFacts DEF LoopInv, TypeOK
<1>3. CASE Leave
  BY <1>1, <1>3, LeaveKeeps
<1>4. CASE ~Leave
  <2>1. PICK top \in completed, n \in 1..MAIN_MAX_RANGES : \E b \in [1..n -> completed] :
          /\ top[1] <= frontier - 1 /\ top[2] >= frontier - 1
          /\ IsBatch(b, n, top)
          /\ at' = "links" /\ cur' = <<b[n][1], frontier - 1>> /\ frontier' = frontier
    BY <1>4 DEF FindBatch
  <2>2. PICK b \in [1..n -> completed] :
          /\ top[1] <= frontier - 1 /\ top[2] >= frontier - 1
          /\ IsBatch(b, n, top)
          /\ at' = "links" /\ cur' = <<b[n][1], frontier - 1>> /\ frontier' = frontier
    BY <2>1
  <2>3. n \in Nat \ {0} /\ b[1] = top /\ \A i \in 2..n : Follows(b[i], b[i - 1])
    BY <2>2, ConstFacts DEF IsBatch
  <2>4. top[1] \in Nat /\ top[2] \in Nat
    BY <1>2, ConstFacts
  <2>5. b[1][1] <= frontier - 1 /\ frontier - 1 <= b[1][2]
    BY <1>2, <2>2, <2>3, <2>4
  <2>6. /\ b[n][1] \in Nat /\ b[n][1] <= frontier - 1
        /\ FinalizedRawCoverage(completed, b[n][1], frontier - 1)
    BY <1>2, <2>3, <2>5, BatchFacts
  <2>7. cur' \in Claims /\ cur'[1] = b[n][1] /\ cur'[2] = frontier - 1
    <3>1. frontier - 1 < Top
      BY <1>2, ConstFacts
    <3> QED
      BY <1>2, <2>2, <2>6, <3>1, ClaimMade
  <2>8. at' = "links" /\ frontier' = frontier
    BY <2>2
  <2>9. FinalizedRawCoverage(completed, cur'[1], cur'[2])
    BY <2>6, <2>7
  <2>10. blocks # {} /\ \A h \in frontier..Top : Accounted(h)
    BY <1>0, <1>1 DEF HoleInv
  <2>11. faults.docker = 0 => (\A r \in Names : frontier <= r[1]) /\ \A x \in blocks : frontier <= x
    BY <1>0, <1>1 DEF DisjointInv
  <2>12. faults.crash + faults.docker + faults.downgrade = 0 => Cardinality(Running) < MAIN_WORKERS
    BY <1>0, <1>1 DEF CapInv
  <2> QED
    BY <1>1, <1>2, <2>7, <2>8, <2>9, <2>10, <2>11, <2>12, QuietStep
<1> QED
  BY <1>3, <1>4

LEMMA CheckLinksKeeps == ASSUME IInv, CheckLinks PROVE IInv'
<1>0. TypeOK /\ LoopInv /\ HoleInv /\ DisjointInv /\ CapInv /\ CoverInv
  BY DEF IInv
<1>1. /\ at = "links" /\ Counted /\ Claiming /\ Holding
      /\ UNCHANGED <<blocks, checkpoints, completed, box, todo, dropped, faults>>
      /\ (Leave \/ (at' = "start" /\ cur' = cur /\ frontier' = frontier))
  BY DEF CheckLinks, Counted, rawVars, Claiming, Holding
<1>2. CASE Leave
  BY <1>1, <1>2, LeaveKeeps
<1>3. CASE at' = "start" /\ cur' = cur /\ frontier' = frontier
  <2>1. cur \in Claims /\ frontier \in 1..Top /\ cur[2] = frontier - 1 /\ frontier \in 0..Top
    BY <1>0, <1>1 DEF LoopInv, TypeOK
  <2>2. blocks # {} /\ \A h \in frontier..Top : Accounted(h)
    BY <1>0, <1>1 DEF HoleInv
  <2>3. faults.docker = 0 => (\A r \in Names : frontier <= r[1]) /\ \A x \in blocks : frontier <= x
    BY <1>0, <1>1 DEF DisjointInv
  <2>4. faults.crash + faults.docker + faults.downgrade = 0 => Cardinality(Running) < MAIN_WORKERS
    BY <1>0, <1>1 DEF CapInv
  <2>5. faults.downgrade = 0 => FinalizedRawCoverage(completed, cur[1], cur[2])
    BY <1>0, <1>1 DEF CoverInv
  <2> QED
    BY <1>1, <1>3, <2>1, <2>2, <2>3, <2>4, <2>5, QuietStep
<1> QED
  BY <1>1, <1>2, <1>3

LEMMA StartBatchKeeps == ASSUME IInv, StartBatch PROVE IInv'
<1>0. TypeOK /\ LoopInv /\ HoleInv /\ DisjointInv /\ CapInv /\ BoxInv
  BY DEF IInv
<1>1. /\ at = "start" /\ at' = "count" /\ cur' = NoRange /\ frontier' = Top /\ StartMainRange(cur)
      /\ UNCHANGED <<blocks, checkpoints, completed, todo, dropped, faults>>
  BY DEF StartBatch, rawVars
<1>2. /\ cur \in Claims /\ Claiming /\ Held = Names /\ todo = {}
      /\ cur[2] = frontier - 1 /\ frontier \in 1..Top /\ Top \in 0..Top
  BY <1>0, <1>1, ConstFacts DEF LoopInv, Holding, Claiming, Held
<1>3. /\ TypeOK' /\ BoxInv' /\ DropsExplained' /\ CoverInv'
      /\ Names' = Names \cup {cur} /\ Held' = Names \cup {cur}
      /\ Running' \subseteq Running \cup {cur} /\ ~Claiming' /\ ~Holding'
      /\ Running' \cap Names = Running
      /\ \A q \in Names : box'[q] = box[q]
      /\ cur \notin Names => box'[cur].status = "up"
  BY <1>1, <1>2, StartKeeps
<1>4. cur[1] \in Nat /\ cur[2] \in Nat /\ cur[1] <= cur[2] /\ Heights(cur) = cur[1]..cur[2]
  BY <1>2, ClaimFacts DEF Heights
<1>5. LoopInv'
  BY <1>1, <1>2, <1>3 DEF LoopInv
<1>6. HoleInv'
  <2>1. \A h : Accounted(h) => Accounted(h)'
    BY <1>1, <1>2, <1>3 DEF Accounted
  <2>2. blocks # {} /\ \A h \in frontier..Top : Accounted(h)
    BY <1>0, <1>2 DEF HoleInv
  <2>3. ASSUME NEW h \in 0..Top, cur[1] <= h PROVE Accounted(h)'
    <3>1. CASE h <= cur[2]
      BY <1>3, <1>4, <2>3, <3>1 DEF Accounted
    <3>2. CASE ~(h <= cur[2])
      <4>1. h \in frontier..Top
        BY <1>2, <1>4, <2>3, <3>2
      <4> QED
        BY <2>1, <2>2, <4>1
    <3> QED
      BY <3>1, <3>2
  <2> QED
    BY <1>0, <1>1, <1>2, <1>3, <2>1, <2>2, <2>3 DEF HoleInv
<1>7. DisjointInv'
  <2>1. faults.docker = 0 => \A r \in Names : Heights(r) \cap Heights(cur) = {}
    <3> SUFFICES ASSUME faults.docker = 0, NEW r \in Names PROVE Heights(r) \cap Heights(cur) = {}
      OBVIOUS
    <3>1. frontier <= r[1] /\ r \in Claims
      BY <1>0, <1>2 DEF DisjointInv, TypeOK
    <3> QED
      BY <1>2, <1>4, <3>1, ClaimFacts
  <2> QED
    BY <1>0, <1>1, <1>2, <1>3, <2>1 DEF DisjointInv
<1>8. CapInv'
  <2> SUFFICES ASSUME faults.crash + faults.docker + faults.downgrade = 0
               PROVE  /\ \A r \in Names' : box'[r].status # "exited1"
                      /\ Cardinality(Running)' <= MAIN_WORKERS
    BY <1>1, <1>3 DEF CapInv
  <2>1. Cardinality(Running) < MAIN_WORKERS /\ \A r \in Names : box[r].status # "exited1"
    BY <1>0, <1>2 DEF CapInv
  <2>2. IsFiniteSet(Running) /\ Cardinality(Running) \in Nat
    BY <1>0, RunningFinite
  <2>3. IsFiniteSet(Running \cup {cur}) /\ Cardinality(Running \cup {cur}) <= Cardinality(Running) + 1
        /\ Cardinality(Running \cup {cur}) \in Nat
    <3> HIDE DEF Running
    <3>1. IsFiniteSet(Running \cup {cur})
          /\ Cardinality(Running \cup {cur}) =
               IF cur \in Running THEN Cardinality(Running) ELSE Cardinality(Running) + 1
      BY <2>2, FS_AddElement
    <3> QED
      BY <2>2, <3>1
  <2>4. Cardinality(Running') <= Cardinality(Running \cup {cur}) /\ Cardinality(Running') \in Nat
    BY <1>3, <2>3, FS_Subset, FS_CardinalityType
  <2>5. Cardinality(Running)' <= MAIN_WORKERS
    BY <2>1, <2>2, <2>3, <2>4, ConstFacts
  <2> QED
    BY <1>3, <2>1, <2>5
<1> QED
  BY <1>3, <1>5, <1>6, <1>7, <1>8 DEF IInv

LEMMA ScriptCrashKeeps == ASSUME IInv, ScriptCrash PROVE IInv'
<1>0. TypeOK /\ LoopInv /\ BoxInv /\ HoleInv /\ DisjointInv /\ CoverInv /\ CapInv /\ DropsExplained
  BY DEF IInv
<1>1. /\ at' = "list" /\ cur' = NoRange /\ frontier' = Top /\ todo' = {} /\ Top \in 0..Top
      /\ dropped' = IF at = "restart" THEN dropped \cup (Heights(cur) \ blocks) ELSE dropped
      /\ UNCHANGED <<blocks, checkpoints, completed, box>>
  BY ConstFacts DEF ScriptCrash, Leave, Unpublished, rawVars
<1>2. Fault("script") /\ "script" \in FaultKinds /\ Counted
  BY DEF ScriptCrash, FaultKinds, Counted
<1>3. /\ faults' \in [FaultKinds -> 0..MaxFaults]
      /\ (faults.stop)' = 0 => faults.stop = 0
      /\ (faults.docker)' = 0 => faults.docker = 0
      /\ (faults.downgrade)' = 0 => faults.downgrade = 0
      /\ (faults.crash + faults.docker + faults.downgrade)' = 0 =>
           faults.crash + faults.docker + faults.downgrade = 0
      /\ (faults.script)' # 0
  BY <1>0, <1>2, CountedFacts, FaultsGrow
<1>4. /\ Names' = Names /\ Running' = Running /\ Held' = Names /\ Names \subseteq Held
      /\ ~Claiming' /\ ~Holding'
  BY <1>1 DEF Names, Running, Held, Claiming, Holding
<1>5. dropped' \subseteq 0..Top
  <2>1. CASE at = "restart"
    <3>1. cur \in Claims
      BY <1>0, <2>1 DEF LoopInv, Holding
    <3> QED
      BY <1>0, <1>1, <3>1, ClaimFacts DEF TypeOK
  <2>2. CASE at # "restart"
    BY <1>0, <1>1, <2>2 DEF TypeOK
  <2> QED
    BY <2>1, <2>2
<1>6. TypeOK'
  BY <1>0, <1>1, <1>3, <1>4, <1>5 DEF TypeOK
<1>7. LoopInv' /\ BoxInv' /\ DropsExplained'
  BY <1>0, <1>1, <1>3, <1>4 DEF LoopInv, BoxInv, DropsExplained
<1>8. HoleInv'
  <2>1. \A h : Accounted(h) => Accounted(h)'
    BY <1>1, <1>4 DEF Accounted, Held
  <2> QED
    BY <1>0, <1>1, <1>4, <2>1 DEF HoleInv
<1>9. DisjointInv' /\ CoverInv' /\ CapInv'
  BY <1>0, <1>1, <1>3, <1>4 DEF DisjointInv, CoverInv, CapInv
<1> QED
  BY <1>6, <1>7, <1>8, <1>9 DEF IInv

-----------------------------------------------------------------------------
(* The theorems.                                                           *)

LEMMA InitIInv == Init => IInv
<1> SUFFICES ASSUME Init PROVE IInv
  OBVIOUS
<1>1. Names = {} /\ Running = {} /\ Held = {} /\ ~Claiming /\ ~Holding
  BY DEF Init, Names, Running, Held, Claiming, Holding
<1>2. TypeOK
  BY <1>1, ConstFacts DEF Init, TypeOK
<1>3. LoopInv /\ BoxInv /\ HoleInv /\ DisjointInv /\ CoverInv /\ DropsExplained
  BY <1>1 DEF Init, LoopInv, BoxInv, HoleInv, DisjointInv, CoverInv, DropsExplained
<1>4. CapInv
  BY <1>1, FS_EmptySet, ConstFacts DEF Init, CapInv
<1> QED
  BY <1>2, <1>3, <1>4 DEF IInv

LEMMA NextKeeps == IInv /\ [Next]_vars => IInv'
BY WorkerKeeps, WorldKeeps, ListKeeps, CleanStoppedKeeps, RestartKeeps, CountActiveKeeps,
   ReadNamesKeeps, ReadMinKeeps, FindBatchKeeps, CheckLinksKeeps, StartBatchKeeps, ScriptCrashKeeps
DEF Next, Script

(* IInv holds in every reachable state of the price half of the loop and its
   containers: for any blocks, raw ranges, batch, chunk and worker limits, and
   any number of crashes, SIGTERMs, dead scripts, failed docker calls and raw
   rows taken back. *)
THEOREM MainBackfillInvariant == Spec => []IInv
BY InitIInv, NextKeeps, PTL DEF Spec

\* The price history has no silent hole above what is published or claimed, and
\* blocks are given up only after a SIGTERM or a death of the supervisor: for any
\* raw ranges, any batches and any number and order of faults.
THEOREM MainBackfillHoles == Spec => []HolesExplained
<1>1. IInv => HolesExplained
  <2> SUFFICES ASSUME IInv PROVE HolesAccounted
    BY DEF IInv, HolesExplained
  <2>0. TypeOK /\ HoleInv
    BY DEF IInv
  <2> SUFFICES ASSUME blocks # {},
                      NEW h \in Min({Min(blocks)} \cup {r[1] : r \in Names})..Top
               PROVE  h \in blocks \cup ((UNION {Heights(r) : r \in Names})
                                           \cup (IF at = "restart" THEN Heights(cur) ELSE {}))
                            \cup dropped
    BY DEF HolesAccounted
  <2> DEFINE S == {Min(blocks)} \cup {r[1] : r \in Names}
  <2>1. Min(blocks) \in blocks /\ blocks \subseteq Nat
    BY <2>0, NatMin, ConstFacts DEF TypeOK
  <2>2. S \in SUBSET Nat /\ S # {}
    BY <2>0, <2>1, ClaimFacts DEF TypeOK
  <2>3. Min(S) \in S
    BY <2>2, NatMin
  <2>4. Min(S) \in Nat /\ h \in Nat /\ Min(S) <= h /\ h <= Top
    BY <2>2, <2>3, ConstFacts
  <2>5. (\E b \in blocks : b <= h) \/ (\E r \in Held : r[1] <= h)
    <3>1. Min(S) = Min(blocks) \/ \E r \in Names : Min(S) = r[1]
      BY <2>3
    <3> HIDE DEF S
    <3> QED
      BY <2>1, <2>4, <3>1 DEF Held
  <2>6. Accounted(h)
    BY <2>0, <2>4, <2>5, ConstFacts DEF HoleInv
  <2> QED
    BY <2>6 DEF Accounted, Held
<1> QED
  BY <1>1, MainBackfillInvariant, PTL

\* Ranges are claimed over finished raw data, never twice and never over published
\* blocks while docker ps answers, however the batches overlap.
THEOREM MainBackfillClaims == Spec => []ClaimsSound
<1>1. IInv => ClaimsSound
  <2> SUFFICES ASSUME IInv PROVE ClaimsSound
    OBVIOUS
  <2>0. TypeOK /\ LoopInv /\ DisjointInv /\ CoverInv
    BY DEF IInv
  <2>1. ClaimsCovered
    BY <2>0 DEF ClaimsCovered, CoverInv, Holding
  <2>2. ASSUME faults.docker = 0, at = "start"
        PROVE  Heights(cur) \cap (blocks \cup UNION {Heights(r) : r \in Names}) = {}
    <3>1. cur \in Claims /\ cur[2] = frontier - 1 /\ frontier \in 1..Top /\ Claiming
      BY <2>0, <2>2 DEF LoopInv, Holding, Claiming
    <3>2. \A r \in Names : r \in Claims /\ frontier <= r[1]
      BY <2>0, <2>2, <3>1 DEF DisjointInv, TypeOK
    <3>3. \A b \in blocks : b \in Nat /\ frontier <= b
      BY <2>0, <2>2, <3>1, ConstFacts DEF DisjointInv, TypeOK
    <3>4. \A x \in Heights(cur) : x \in Nat /\ x < frontier
      BY <3>1, ClaimFacts, ConstFacts
    <3>5. \A r \in Names : \A x \in Heights(r) : x \in Nat /\ frontier <= x
      BY <3>1, <3>2, ClaimFacts, ConstFacts
    <3> QED
      BY <3>1, <3>3, <3>4, <3>5, ConstFacts
  <2>3. ClaimsDisjoint
    <3>1. Names \subseteq Held
      BY DEF Held
    <3>2. faults.docker = 0 =>
            \A r, s \in Names : r = s \/ Heights(r) \cap Heights(s) = {}
      BY <2>0, <3>1 DEF DisjointInv
    <3> QED
      BY <2>2, <3>2 DEF ClaimsDisjoint
  <2> QED
    BY <2>0, <2>1, <2>3 DEF ClaimsSound
<1> QED
  BY <1>1, MainBackfillInvariant, PTL

\* More containers than MAIN_WORKERS run only after a container failed, a completed
\* raw range was taken back or a docker ps call failed.
THEOREM MainBackfillCap == Spec => []CapExceededOnlyByFailures
<1>1. IInv => CapExceededOnlyByFailures
  BY DEF IInv, CapInv, CapExceededOnlyByFailures, MainWorkerCap
<1> QED
  BY <1>1, MainBackfillInvariant, PTL

\* The range arithmetic the price pipeline trusts is exact for every set of completed
\* raw ranges and every span: missingRawCoverage names the blocks that are missing and
\* no others, in order and each once, mergeRawRanges returns ranges that neither overlap
\* nor touch, and assertFinalizedRawCoverage refuses a span exactly when it is not
\* covered.
THEOREM MainBackfillCoverage == Spec => []CoverageExact
<1>1. IInv => CoverageExact
  <2>0. SUFFICES ASSUME IInv PROVE CoverageExact
    OBVIOUS
  <2>1. Rows(completed)
    BY <2>0, ConstFacts DEF IInv, TypeOK, Rows
  <2>2. SUFFICES ASSUME NEW from \in 0..Top, NEW to \in 0..Top, from <= to
                 PROVE  LET ranges  == getCompletedRawRanges(completed, from, to)
                            missing == missingRawCoverage(from, to, ranges)
                        IN  /\ HeightsOf(missing) = from..to \ UNION {Heights(q) : q \in completed}
                            /\ \A i \in DOMAIN missing : missing[i][1] <= missing[i][2]
                            /\ Apart(missing) /\ Apart(ranges)
                            /\ FinalizedRawCoverage(completed, from, to)
                                 <=> from..to \subseteq UNION {Heights(q) : q \in completed}
    BY DEF CoverageExact
  <2> DEFINE ranges  == getCompletedRawRanges(completed, from, to)
             missing == missingRawCoverage(from, to, ranges)
  <2>3. from \in Nat /\ to \in Nat
    BY ConstFacts
  <2>4. /\ ranges \in Seq(Spans) /\ Apart(ranges)
        /\ missing \in Seq(Spans) /\ Apart(missing)
        /\ HeightsOf(missing) = from..to \ UNION {Heights(q) : q \in completed}
        /\ FinalizedRawCoverage(completed, from, to)
             <=> from..to \subseteq UNION {Heights(q) : q \in completed}
    BY <2>1, <2>2, <2>3, CoverageFacts
  <2> HIDE DEF ranges, missing
  <2>5. \A i \in DOMAIN missing : missing[i][1] <= missing[i][2]
    BY <2>4, SpanFacts
  <2> QED
    BY <2>4, <2>5 DEF ranges, missing
<1> QED
  BY <1>1, MainBackfillInvariant, PTL
=============================================================================
