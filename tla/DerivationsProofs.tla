------------------------- MODULE DerivationsProofs -------------------------
(***************************************************************************)
(* Proofs about Derivations for every set of hours, months, rows, streams  *)
(* and void versions, every settle margin and every number of faults.      *)
(***************************************************************************)
EXTENDS Derivations, FiniteSetTheorems, NaturalsInduction, WellFoundedInduction, TLAPS

-----------------------------------------------------------------------------
(* The inductive invariant.                                                *)

Of(table, r) == {e \in table : e.row = r}

\* What version v of a row folds to.
FoldAt(r, v, fp, t) ==
    IF v = 0 \/ <<r, v>> \in Void THEN {}
    ELSE {[row |-> r, version |-> v, fp |-> fp, at |-> t]}

Yields(r) == seen[r].version # 0 /\ <<r, seen[r].version>> \notin Void

\* The process has read its clock and works on revenue_events.
Stamping == {"stale", "busy"} \cup HourPublication

States == InCycle \cup {"down", "idle", "exited"}

\* No stamp is ahead of the clock, a row not yet visible was stamped within the settle
\* margin, and no table is ahead of its source.
ClockInv ==
    /\ \A r \in Rows : /\ sent[r].at <= now /\ seen[r].at <= now
                       /\ seen[r].version <= sent[r].version
                       /\ InFlight(r) => now < sent[r].at + SETTLE
    /\ \A e \in live \cup twin : e.at <= now /\ e.version <= seen[e.row].version
    /\ \A m \in Months : months[m].at <= now /\ mtwin[m].at <= now
    /\ registry <= faults

\* The tables and their sources.
DataInv ==
    /\ now \in 1..(Horizon + LateTicks)
    /\ sent \in [Rows -> Stamped] /\ seen \in [Rows -> Stamped]
    /\ cut \in Nat /\ registry \in 0..MaxFaults
    /\ live \subseteq Folded /\ twin \subseteq Folded
    /\ months \in [Months -> Summaries] /\ mtwin \in [Months -> Summaries]
    /\ faults \in 0..MaxFaults
    /\ overlap \in BOOLEAN /\ together \in BOOLEAN /\ emptied \subseteq Months
    /\ ClockInv

\* What each process keeps, by its domain.
ShapeInv ==
    /\ pc \in [Procs -> States] /\ slept \in [Procs -> BOOLEAN]
    /\ loaded \in [Procs -> Nat] /\ at \in [Procs -> Nat] /\ stream \in [Procs -> 1..Streams]
    /\ todo \in [Procs -> SUBSET [key : Nat, src : Nat]]
    /\ folded \in [Procs -> [Hours -> Int \X Int]]
    /\ rebuilt \in [Procs -> [Months -> Nat]]

\* A process's stamp, its next stream, its candidates and its marks: the watermark of
\* an hour was settled when the hour became a candidate.
ProcOK(p) ==
    /\ loaded[p] <= registry /\ at[p] <= now
    /\ todo[p] # {} <=> pc[p] \in HourPublication \cup MonthPublication \cup {"busy", "mbusy"}
    /\ pc[p] \in Stamping => 1 <= at[p]
    /\ pc[p] \notin {"write", "swap", "clear"} => stream[p] = 1
    /\ pc[p] \in HourPublication \cup {"busy"} =>
         \A c \in todo[p] : c.key \in Hours /\ c.src <= now - SETTLE
    /\ pc[p] \in MonthPublication \cup {"mbusy"} => \A c \in todo[p] : c.key \in Months
    /\ \A h \in Hours : folded[p][h][1] = -1 \/ folded[p][h][1] <= now - SETTLE

BaseInv == DataInv /\ ShapeInv /\ \A p \in Procs : ProcOK(p)

\* The history variables see every meeting of the two processes.
AloneInv ==
    /\ ~overlap => \A p, q \in Procs : pc[p] \in HourPublication /\ pc[q] \in HourPublication => p = q
    /\ ~together => \A p, q \in Procs : pc[p] \in InCycle /\ pc[q] \in InCycle => p = q

\* A published row tells what its hour's fold saw of every row of the hour, unless that
\* row changed after the fold's stamp, less the margin.
LiveRight ==
    \A e \in live, r \in Rows :
        HourOf[r] = HourOf[e.row] =>
            seen[r].at > e.at - SETTLE \/ Of(live, r) = FoldRow(r, e.fp, e.at)

\* The row was read by one of the INSERTs that the fold in progress has done.
Written(p, r) ==
    /\ HourOf[r] \in CurrentHours(p)
    /\ pc[p] = "swap" \/ StreamOf[r] < stream[p]

\* Version v is what the source shows, or the row changed so late that neither the fold's
\* stamp nor a mark passes for newer.
StillSeen(p, r, v) ==
    \/ v = seen[r].version
    \/ /\ seen[r].at > at[p] - SETTLE
       /\ \A q \in Procs : seen[r].at > folded[q][HourOf[r]][1]
       /\ \A c \in todo[p] : c.key = HourOf[r] => seen[r].at > c.src

\* The twin's month during a publication.
TwinRow(p, r) ==
    /\ HourOf[r] \notin CurrentHours(p) => Of(twin, r) = Of(live, r)
    /\ HourOf[r] \in CurrentHours(p) /\ ~Written(p, r) => Of(twin, r) = {}
    /\ Written(p, r) =>
         \E v \in 0..seen[r].version :
             /\ Of(twin, r) = FoldAt(r, v, loaded[p], at[p])
             /\ \A e \in Of(live, r) : e.version <= v
             /\ StillSeen(p, r, v)

TwinInv ==
    \A p \in Procs :
        /\ pc[p] = "keep" => RowsInMonth(twin, CurrentMonth(p)) = {}
        /\ pc[p] \in {"write", "swap"} =>
             \A r \in Rows : MonthOf[HourOf[r]] = CurrentMonth(p) => TwinRow(p, r)

\* An hour published with nothing in it folds to nothing, as far as its mark tells.
MarkInv ==
    /\ \A p \in Procs : pc[p] = "clear" =>
         \A c \in Current(p), r \in Rows :
             HourOf[r] = c.key => RowsIn(live, c.key) # {} \/ seen[r].at > c.src \/ ~Yields(r)
    /\ \A p \in Procs, r \in Rows :
         \/ RowsIn(live, HourOf[r]) # {}
         \/ seen[r].at > folded[p][HourOf[r]][1]
         \/ ~Yields(r)

\* While cycles do not meet, a fold is stamped after every month was, and a month's twin
\* holds what is published.
MonthInv ==
    /\ \A p \in Procs : pc[p] = "down" => slept[p]
    /\ ~together =>
         /\ (\A p \in Procs : pc[p] \notin InCycle /\ slept[p]) => \A m \in Months : months[m].at < now
         /\ \A p \in Procs :
              /\ pc[p] = "clock" => \A m \in Months : months[m].at < now
              /\ pc[p] \in Stamping => \A m \in Months : months[m].at < at[p]
              /\ pc[p] = "mfill" => mtwin[Month(p)] = EmptyMonth
              /\ pc[p] = "mswap" => \/ mtwin[Month(p)].at = 0
                                    \/ mtwin[Month(p)].rows = Summed(Month(p))

FoldInv == ~overlap => LiveRight /\ TwinInv /\ MarkInv /\ OneVersion

IInv == BaseInv /\ AloneInv /\ FoldInv /\ MonthInv /\ MonthIsRight

-----------------------------------------------------------------------------
(* The constants, extremes of sets of naturals, and the two processes.     *)

LEMMA ConstFacts ==
    /\ Hours \subseteq Nat /\ Hours # {} /\ IsFiniteSet(Hours)
    /\ MonthOf \in [Hours -> Nat] /\ HourOf \in [Rows -> Hours]
    /\ Streams \in Nat \ {0} /\ StreamOf \in [Rows -> 1..Streams]
    /\ SETTLE \in Nat /\ SETTLE >= 2
    /\ LastIngest \in Nat /\ LateTicks \in Nat /\ MaxFaults \in Nat /\ Horizon \in Nat /\ Horizon >= 2
    /\ Months \subseteq Nat
BY DerivationsAssumption DEF Horizon, Months

LEMMA RowConst ==
    ASSUME NEW r \in Rows
    PROVE  HourOf[r] \in Hours /\ MonthOf[HourOf[r]] \in Months /\ StreamOf[r] \in 1..Streams
BY ConstFacts DEF Months

LEMMA OtherFacts ==
    ASSUME NEW p \in Procs
    PROVE  Other(p) \in Procs /\ Other(p) # p /\ \A q \in Procs : q = p \/ q = Other(p)
<1>1. \E q \in Procs : q # p
  BY DEF Procs
<1>2. Other(p) \in Procs /\ Other(p) # p
  BY <1>1 DEF Other
<1> QED
  BY <1>2 DEF Procs

\* A set of naturals has a least element, which is what Min denotes.
LEMMA NatMin ==
  ASSUME NEW S \in SUBSET Nat, S # {}
  PROVE  Min(S) \in S /\ \A x \in S : Min(S) <= x
<1> DEFINE Less == {z \in Nat \X Nat : z[1] < z[2]}
<1>1. IsWellFoundedOn(Less, Nat)
  BY NatLessThanWellFounded DEF OpToRel
<1>2. PICK m \in S : \A x \in S : <<x, m>> \notin Less
  <2> HIDE DEF Less
  <2> QED
    BY <1>1, WFMin
<1>3. ASSUME NEW x \in S PROVE m <= x
  <2>1. m \in Nat /\ x \in Nat /\ <<x, m>> \in Nat \X Nat /\ <<x, m>> \notin Less
    BY <1>2
  <2>2. ~(x < m)
    BY <2>1
  <2> QED
    BY <2>1, <2>2
<1> QED
  BY <1>3 DEF Min

\* A bounded one has a greatest.
LEMMA BoundMax ==
  ASSUME NEW S \in SUBSET Nat, S # {}, NEW n \in Nat, \A x \in S : x <= n
  PROVE  Max(S) \in S /\ \A x \in S : x <= Max(S)
<1> DEFINE T == {n - x : x \in S}
<1>1. T \in SUBSET Nat /\ T # {}
  <2>1. \A x \in S : n - x \in Nat /\ n - x \in T
    OBVIOUS
  <2>2. \A y \in T : y \in Nat
    BY <2>1
  <2> HIDE DEF T
  <2> QED
    BY <2>1, <2>2
<1>2. Min(T) \in T /\ \A y \in T : Min(T) <= y
  <2> HIDE DEF T
  <2> QED
    BY <1>1, NatMin
<1>3. PICK m \in S : Min(T) = n - m
  BY <1>2
<1>4. \A x \in S : n - m <= n - x
  BY <1>2, <1>3
<1>5. \A x \in S : m >= x
  BY <1>4
<1>6. Max(S) \in S /\ \A x \in S : Max(S) >= x
  BY <1>5 DEF Max
<1> QED
  BY <1>6

\* A finite nonempty set of naturals has a greatest element: a smallest set without one
\* would keep lacking it when an element is taken away.
LEMMA FiniteMax ==
  ASSUME NEW S \in SUBSET Nat, S # {}, IsFiniteSet(S)
  PROVE  Max(S) \in S
<1> DEFINE Bounded(T) == \E m \in T : \A x \in T : x <= m
           Bad == {T \in SUBSET S : T # {} /\ ~Bounded(T)}
           Sizes == {Cardinality(T) : T \in Bad}
<1>1. \A T \in SUBSET S : IsFiniteSet(T) /\ Cardinality(T) \in Nat
  BY FS_Subset, FS_CardinalityType
<1>2. Bad = {}
  <2> SUFFICES ASSUME Bad # {} PROVE FALSE
    OBVIOUS
  <2>1. Sizes \in SUBSET Nat /\ Sizes # {}
    <3>1. \A y \in Sizes : y \in Nat
      BY <1>1
    <3>2. PICK T \in Bad : TRUE
      OBVIOUS
    <3>3. Cardinality(T) \in Sizes
      BY <3>2
    <3> QED
      BY <3>1, <3>3
  <2>2. Min(Sizes) \in Sizes /\ \A y \in Sizes : Min(Sizes) <= y
    <3> HIDE DEF Sizes
    <3> QED
      BY <2>1, NatMin
  <2>3. PICK T \in Bad : Min(Sizes) = Cardinality(T)
    BY <2>2
  <2>4. T \in SUBSET S /\ T # {} /\ ~Bounded(T)
    BY <2>3
  <2>5. PICK x \in T : TRUE
    BY <2>4
  <2> DEFINE U == T \ {x}
  <2>6. U \in SUBSET S /\ IsFiniteSet(T)
    BY <1>1, <2>4
  <2>7. Cardinality(U) = Cardinality(T) - 1
    <3> HIDE DEF U
    <3>1. IsFiniteSet(T \ {x}) /\ Cardinality(T \ {x}) = IF x \in T THEN Cardinality(T) - 1 ELSE Cardinality(T)
      BY <2>6, FS_RemoveElement
    <3> QED
      BY <2>5, <3>1 DEF U
  <2>8. U \notin Bad
    <3> SUFFICES ASSUME U \in Bad PROVE FALSE
      OBVIOUS
    <3>1. Cardinality(U) \in Sizes
      OBVIOUS
    <3>2. Cardinality(T) <= Cardinality(U) /\ Cardinality(T) \in Nat
      BY <1>1, <2>2, <2>3, <2>4, <3>1
    <3> HIDE DEF U
    <3> QED
      BY <2>7, <3>2
  <2>9. x \in Nat /\ x \in T /\ \A y \in T : y \in Nat
    BY <2>4, <2>5
  <2>10. CASE U = {}
    <3>1. \A y \in T : y = x
      BY <2>10
    <3>2. \A y \in T : y <= x
      BY <2>9, <3>1
    <3> QED
      BY <2>4, <2>9, <3>2
  <2>11. CASE U # {}
    <3>1. PICK m \in U : \A y \in U : y <= m
      BY <2>6, <2>8, <2>11
    <3>2. m \in T /\ m \in Nat
      BY <2>9, <3>1
    <3>3. CASE x <= m
      <4>1. \A y \in T : y <= m
        BY <3>1, <3>3
      <4> QED
        BY <2>4, <3>2, <4>1
    <3>4. CASE ~(x <= m)
      <4>1. \A y \in T : y <= x
        <5> SUFFICES ASSUME NEW y \in T PROVE y <= x
          OBVIOUS
        <5>1. y = x \/ y <= m
          BY <3>1
        <5> QED
          BY <2>9, <3>2, <3>4, <5>1
      <4> QED
        BY <2>4, <2>9, <4>1
    <3> QED
      BY <3>3, <3>4
  <2> QED
    BY <2>10, <2>11
<1>3. PICK m \in S : \A x \in S : x <= m
  BY <1>2
<1>4. \A x \in S : m >= x
  BY <1>3
<1> QED
  BY <1>4 DEF Max

LEMMA FoldRowAt ==
    ASSUME NEW r, NEW fp, NEW t
    PROVE  FoldRow(r, fp, t) = FoldAt(r, seen[r].version, fp, t)
BY DEF FoldRow, FoldAt

-----------------------------------------------------------------------------
(* What the staleness queries and the month in hand are.                   *)

LEMMA RowTypes ==
    ASSUME BaseInv
    PROVE  /\ now \in Nat /\ 1 <= now /\ registry \in Nat /\ faults \in Nat
           /\ \A r \in Rows : /\ sent[r].at \in Nat /\ seen[r].at \in Nat
                              /\ sent[r].version \in Nat /\ seen[r].version \in Nat
           /\ \A e \in live \cup twin : /\ e.row \in Rows /\ e.version \in Nat \ {0}
                                        /\ e.at \in Nat \ {0} /\ e.fp \in 0..MaxFaults
BY ConstFacts DEF BaseInv, DataInv, Stamped, Folded

LEMMA HourMarks ==
    ASSUME BaseInv, NEW h \in Hours
    PROVE  /\ SrcIngest(h) \in Nat
           /\ \A r \in Rows : HourOf[r] = h => seen[r].at <= SrcIngest(h)
           /\ DerComputed(h) \in Nat
           /\ RowsIn(live, h) # {} => \E e \in RowsIn(live, h) : DerComputed(h) = e.at
<1> DEFINE S == {seen[r].at : r \in {x \in Rows : HourOf[x] = h}} \cup {0}
           D == {e.at : e \in RowsIn(live, h)} \cup {0}
<1>1. /\ now \in Nat /\ (\A r \in Rows : seen[r].at \in Nat /\ seen[r].at <= now)
      /\ \A e \in RowsIn(live, h) : e.at \in Nat \ {0} /\ e.at <= now
  BY RowTypes DEF BaseInv, DataInv, ClockInv, RowsIn
<1>2. S \in SUBSET Nat /\ S # {} /\ \A x \in S : x <= now
  BY <1>1
<1>3. D \in SUBSET Nat /\ D # {} /\ \A x \in D : x <= now
  BY <1>1
<1>4. Max(S) \in S /\ \A x \in S : x <= Max(S)
  <2> HIDE DEF S
  <2> QED
    BY <1>1, <1>2, BoundMax
<1>5. Max(D) \in D /\ \A x \in D : x <= Max(D)
  <2> HIDE DEF D
  <2> QED
    BY <1>1, <1>3, BoundMax
<1>6. SrcIngest(h) \in Nat /\ \A r \in Rows : HourOf[r] = h => seen[r].at <= SrcIngest(h)
  BY <1>2, <1>4 DEF SrcIngest
<1>7. DerComputed(h) = Max(D)
  BY DEF DerComputed
<1>8. ASSUME RowsIn(live, h) # {} PROVE \E e \in RowsIn(live, h) : DerComputed(h) = e.at
  <2>1. PICK e \in RowsIn(live, h) : TRUE
    BY <1>8
  <2>2. e.at \in D /\ e.at \in Nat \ {0}
    BY <1>1, <2>1
  <2>3. Max(D) # 0
    <3> HIDE DEF D
    <3> QED
      BY <1>5, <2>2
  <2> QED
    BY <1>5, <1>7, <2>3
<1>9. DerComputed(h) \in Nat
  BY <1>3, <1>5, <1>7
<1> QED
  BY <1>6, <1>8, <1>9

\* The newest stamp of a set of published rows.
LEMMA StampMax ==
    ASSUME NEW T, NEW n \in Nat, \A e \in T : e.at \in Nat /\ e.at <= n
    PROVE  Max({e.at : e \in T} \cup {0}) \in Nat /\ \A x \in T : x.at <= Max({e.at : e \in T} \cup {0})
<1> DEFINE D == {e.at : e \in T} \cup {0}
<1>1. D \in SUBSET Nat /\ D # {} /\ \A x \in D : x <= n
  OBVIOUS
<1>2. Max(D) \in D /\ \A x \in D : x <= Max(D)
  <2> HIDE DEF D
  <2> QED
    BY <1>1, BoundMax
<1> QED
  BY <1>1, <1>2

LEMMA MonthMarks ==
    ASSUME BaseInv, NEW m \in Months
    PROVE  MonthIngest(m) \in Nat /\ \A e \in RowsInMonth(live, m) : e.at <= MonthIngest(m)
<1>1. now \in Nat /\ \A e \in RowsInMonth(live, m) : e.at \in Nat /\ e.at <= now
  BY RowTypes DEF BaseInv, DataInv, ClockInv, RowsInMonth
<1> QED
  BY <1>1, StampMax DEF MonthIngest

LEMMA CurrentFacts ==
    ASSUME BaseInv, NEW p \in Procs, pc[p] \in HourPublication \cup {"busy"}
    PROVE  /\ CurrentMonth(p) \in Months
           /\ Current(p) # {} /\ Current(p) \subseteq todo[p]
           /\ CurrentHours(p) \subseteq Hours
           /\ \A h \in CurrentHours(p) : MonthOf[h] = CurrentMonth(p)
           /\ \A c \in Current(p) : c.key \in CurrentHours(p) /\ c.src \in Nat /\ c.src <= now - SETTLE
<1> DEFINE S == {MonthOf[c.key] : c \in todo[p]}
<1>1. todo[p] # {} /\ (\A c \in todo[p] : c.key \in Hours /\ c.src <= now - SETTLE /\ c.src \in Nat)
  BY DEF BaseInv, ProcOK, ShapeInv
<1>2. S \in SUBSET Nat /\ S \subseteq Months /\ S # {}
  <2>1. \A h \in Hours : MonthOf[h] \in Months /\ MonthOf[h] \in Nat
    BY ConstFacts DEF Months
  <2>2. \A c \in todo[p] : MonthOf[c.key] \in Months /\ MonthOf[c.key] \in Nat
    BY <1>1, <2>1
  <2> QED
    BY <1>1, <2>2
<1>3. Min(S) \in S
  <2> HIDE DEF S
  <2> QED
    BY <1>2, NatMin
<1>4. CurrentMonth(p) = Min(S)
  BY DEF CurrentMonth
<1>5. Current(p) # {}
  <2>1. PICK c \in todo[p] : Min(S) = MonthOf[c.key]
    BY <1>3
  <2> QED
    BY <1>4, <2>1 DEF Current
<1> HIDE DEF S
<1> QED
  BY <1>1, <1>2, <1>3, <1>4, <1>5 DEF Current, CurrentHours

LEMMA MonthFacts ==
    ASSUME BaseInv, NEW p \in Procs, pc[p] \in MonthPublication
    PROVE  Month(p) \in Months /\ \E c \in todo[p] : c.key = Month(p)
<1> DEFINE S == {c.key : c \in todo[p]}
<1>1. todo[p] # {} /\ \A c \in todo[p] : c.key \in Months
  BY DEF BaseInv, ProcOK
<1>2. S \in SUBSET Nat /\ S \subseteq Months /\ S # {}
  BY <1>1, ConstFacts
<1>3. Min(S) \in S
  <2> HIDE DEF S
  <2> QED
    BY <1>2, NatMin
<1> QED
  BY <1>2, <1>3 DEF Month

LEMMA MarkFacts ==
    ASSUME BaseInv, NEW p \in Procs, pc[p] \in HourPublication
    PROVE  /\ Mark(p) \in [Hours -> Int \X Int]
           /\ \A h \in Hours : \/ h \notin CurrentHours(p) /\ Mark(p)[h] = folded[p][h]
                               \/ \E c \in Current(p) : c.key = h /\ Mark(p)[h] = <<c.src, loaded[p]>>
<1>1. folded[p] \in [Hours -> Int \X Int] /\ loaded[p] \in Nat
  BY DEF BaseInv, ShapeInv
<1>2. \A c \in Current(p) : c.src \in Nat
  BY CurrentFacts
<1>3. ASSUME NEW h \in Hours
      PROVE  \/ h \notin CurrentHours(p) /\ Mark(p)[h] = folded[p][h]
             \/ \E c \in Current(p) : c.key = h /\ Mark(p)[h] = <<c.src, loaded[p]>>
  <2>1. CASE h \in CurrentHours(p)
    <3>1. PICK c \in Current(p) : c.key = h
      BY <2>1 DEF CurrentHours
    <3> DEFINE d == CHOOSE x \in Current(p) : x.key = h
    <3>2. d \in Current(p) /\ d.key = h
      BY <3>1
    <3>3. Mark(p)[h] = <<d.src, loaded[p]>>
      BY <2>1 DEF Mark, EmptyMark
    <3> QED
      BY <3>2, <3>3
  <2>2. CASE h \notin CurrentHours(p)
    BY <2>2 DEF Mark
  <2> QED
    BY <2>1, <2>2
<1>4. ASSUME NEW h \in Hours PROVE Mark(p)[h] \in Int \X Int
  BY <1>1, <1>2, <1>3
<1>5. Mark(p) = [h \in Hours |-> Mark(p)[h]]
  BY DEF Mark
<1> QED
  BY <1>3, <1>4, <1>5

-----------------------------------------------------------------------------
(* Types, stamps and candidates.                                           *)

\* A step of p leaves alone what the other process keeps.
OthersKept(p) ==
    \A q \in Procs : q # p =>
        /\ pc'[q] = pc[q] /\ slept'[q] = slept[q] /\ loaded'[q] = loaded[q] /\ at'[q] = at[q]
        /\ todo'[q] = todo[q] /\ stream'[q] = stream[q]
        /\ folded'[q] = folded[q] /\ rebuilt'[q] = rebuilt[q]

LEMMA BaseType == BaseInv => TypeOK
BY ConstFacts DEF BaseInv, DataInv, ShapeInv, ProcOK, TypeOK, States

LEMMA InitBase == Init => BaseInv
<1> SUFFICES ASSUME Init PROVE BaseInv
  OBVIOUS
<1>1. Max(Hours) \in Nat
  BY ConstFacts, FiniteMax
<1>2. /\ sent \in [Rows -> Stamped] /\ seen = sent
      /\ \A r \in Rows : sent[r].at \in Nat /\ sent[r].at <= 1
  BY DEF Init, Stamped
<1>3. months \in [Months -> Summaries] /\ mtwin = months /\ \A m \in Months : months[m].at = 0
  BY DEF Init, Summaries, EmptyMonth
<1>4. ClockInv
  <2>1. /\ \A r \in Rows : sent[r].at <= now /\ seen[r].at <= now /\ seen[r].version <= sent[r].version /\ ~InFlight(r)
    BY <1>2 DEF Init, InFlight, Stamped
  <2>2. live \cup twin = {} /\ registry <= faults /\ now = 1
    BY DEF Init
  <2> QED
    BY <1>3, <2>1, <2>2 DEF ClockInv
<1>5. DataInv
  <2>1. 1 \in 1..(Horizon + LateTicks) /\ 0 \in 0..MaxFaults
    BY ConstFacts
  <2>2. /\ now = 1 /\ cut = Max(Hours) /\ registry = 0 /\ live = {} /\ twin = {} /\ faults = 0
        /\ overlap = FALSE /\ together = FALSE /\ emptied = {}
    BY DEF Init
  <2> QED
    BY <1>1, <1>2, <1>3, <1>4, <2>1, <2>2 DEF DataInv
<1>6. ShapeInv
  BY ConstFacts DEF Init, ShapeInv, States, NoMark
<1>7. ASSUME NEW p \in Procs PROVE ProcOK(p)
  <2>1. /\ loaded[p] = 0 /\ at[p] = 0 /\ todo[p] = {} /\ stream[p] = 1 /\ pc[p] \in {"idle", "down"}
        /\ registry = 0 /\ now = 1 /\ \A h \in Hours : folded[p][h][1] = -1
    BY DEF Init, NoMark
  <2> QED
    BY <2>1 DEF ProcOK, Stamping, HourPublication, MonthPublication
<1> QED
  BY <1>5, <1>6, <1>7 DEF BaseInv

\* A step of one process that writes neither table nor source.
LEMMA DataFrame ==
    ASSUME BaseInv, UNCHANGED <<now, source, tables>>, faults' \in {faults, faults + 1}, faults' <= MaxFaults,
           overlap' \in BOOLEAN, together' \in BOOLEAN, emptied' = emptied
    PROVE  DataInv'
<1>1. UNCHANGED <<now, sent, seen, cut, registry, live, twin, months, mtwin, emptied>>
  BY DEF source, tables
<1>2. faults \in Nat /\ faults' \in 0..MaxFaults /\ registry <= faults' /\ registry \in Nat
  BY <1>1, ConstFacts DEF BaseInv, DataInv, ClockInv
<1>3. ClockInv'
  BY <1>1, <1>2 DEF BaseInv, DataInv, ClockInv, InFlight
<1> QED
  BY <1>1, <1>2, <1>3 DEF BaseInv, DataInv

LEMMA ProcFrame ==
    ASSUME BaseInv, NEW p \in Procs, OthersKept(p), ShapeInv', DataInv', ProcOK(p)',
           UNCHANGED <<now, registry>>
    PROVE  BaseInv' /\ OthersKept(p)
<1>1. ASSUME NEW q \in Procs, q # p PROVE ProcOK(q)'
  BY <1>1 DEF BaseInv, OthersKept, ProcOK
<1> QED
  BY <1>1 DEF BaseInv

LEMMA TickBase ==
    ASSUME BaseInv, Tick
    PROVE  BaseInv'
<1>1. /\ UNCHANGED <<sent, seen, cut, registry, live, twin, months, mtwin, pc, loaded, at, todo, stream>>
      /\ UNCHANGED <<folded, rebuilt, faults, overlap, together, emptied>>
      /\ now' = now + 1 /\ slept' = [p \in Procs |-> TRUE]
      /\ \A r \in Rows : InFlight(r) => now + 1 < sent[r].at + SETTLE
      /\ now < Horizon \/ now < Horizon + LateTicks
  BY DEF Tick, source, tables, history
<1>2. now \in Nat /\ now' \in 1..(Horizon + LateTicks)
  BY <1>1, RowTypes, ConstFacts
<1>3. ClockInv'
  <2>1. \A r \in Rows : sent[r].at <= now' /\ seen[r].at <= now'
    BY <1>1, <1>2, RowTypes DEF BaseInv, DataInv, ClockInv
  <2>2. \A e \in live \cup twin : e.at <= now'
    BY <1>1, <1>2, RowTypes DEF BaseInv, DataInv, ClockInv
  <2>3. \A m \in Months : months[m].at <= now' /\ mtwin[m].at <= now'
    <3>1. \A m \in Months : months[m].at \in Nat /\ mtwin[m].at \in Nat
      BY DEF BaseInv, DataInv, Summaries
    <3> QED
      BY <1>1, <1>2, <3>1 DEF BaseInv, DataInv, ClockInv
  <2> QED
    BY <1>1, <2>1, <2>2, <2>3 DEF BaseInv, DataInv, ClockInv, InFlight
<1>4. DataInv' /\ ShapeInv'
  BY <1>1, <1>2, <1>3 DEF BaseInv, DataInv, ShapeInv
<1>5. ASSUME NEW p \in Procs PROVE ProcOK(p)'
  <2>1. \A h \in Hours : folded[p][h][1] \in Int
    BY DEF BaseInv, ShapeInv
  <2>2. at[p] \in Nat /\ \A c \in todo[p] : c.src \in Nat
    BY DEF BaseInv, ShapeInv
  <2>3. ProcOK(p)
    BY DEF BaseInv
  <2>4. at[p] <= now' /\ (\A h \in Hours : folded[p][h][1] = -1 \/ folded[p][h][1] <= now' - SETTLE)
    BY <1>1, <1>2, <2>1, <2>2, <2>3, ConstFacts DEF ProcOK
  <2>5. \A c \in todo[p] : c.src <= now - SETTLE => c.src <= now' - SETTLE
    BY <1>1, <1>2, <2>2, ConstFacts
  <2> QED
    BY <1>1, <2>3, <2>4, <2>5 DEF ProcOK
<1> QED
  BY <1>4, <1>5 DEF BaseInv

LEMMA WorldBase ==
    ASSUME BaseInv, (\E r \in Rows : Ingest(r) \/ Land(r)) \/ CloseHour \/ ChangeRegistry
    PROVE  BaseInv'
<1>1. UNCHANGED <<now, live, twin, months, mtwin, pc, slept, loaded, at, todo, stream, folded,
                  rebuilt, overlap, together, emptied>>
  BY DEF Ingest, Land, CloseHour, ChangeRegistry, tables, process, history
<1>2. ShapeInv'
  BY <1>1 DEF BaseInv, ShapeInv
<1>3. DataInv' /\ registry \in Nat /\ registry' \in Nat /\ registry <= registry'
  <2>1. CASE \E r \in Rows : Ingest(r)
    <3>1. PICK r \in Rows : Ingest(r)
      BY <2>1
    <3>2. /\ sent' = [sent EXCEPT ![r] = [version |-> sent[r].version + 1, at |-> now]]
          /\ UNCHANGED <<seen, cut, registry, faults>> /\ ~InFlight(r)
      BY <3>1 DEF Ingest, history
    <3>3. sent[r].version \in Nat /\ now \in Nat
      BY RowTypes
    <3>4. /\ sent'[r].version = sent[r].version + 1 /\ sent'[r].at = now
          /\ \A q \in Rows : q # r => sent'[q] = sent[q]
          /\ sent' \in [Rows -> Stamped]
      BY <3>2, <3>3 DEF BaseInv, DataInv, Stamped
    <3>5. ClockInv'
      <4>1. ASSUME NEW q \in Rows
            PROVE  /\ sent'[q].at <= now /\ seen[q].version <= sent'[q].version
                   /\ sent'[q] # seen[q] => now < sent'[q].at + SETTLE
        <5>1. CASE q = r
          BY <3>3, <3>4, <5>1, ConstFacts, RowTypes DEF BaseInv, DataInv, ClockInv
        <5>2. CASE q # r
          BY <3>4, <5>2 DEF BaseInv, DataInv, ClockInv, InFlight
        <5> QED
          BY <5>1, <5>2
      <4> QED
        BY <1>1, <3>2, <4>1 DEF BaseInv, DataInv, ClockInv, InFlight
    <3> QED
      BY <1>1, <3>2, <3>4, <3>5, RowTypes DEF BaseInv, DataInv
  <2>2. CASE \E r \in Rows : Land(r)
    <3>1. PICK r \in Rows : Land(r)
      BY <2>2
    <3>2. /\ seen' = [seen EXCEPT ![r] = sent[r]]
          /\ UNCHANGED <<sent, cut, registry, faults>>
      BY <3>1 DEF Land, history
    <3>3. /\ seen'[r] = sent[r] /\ \A q \in Rows : q # r => seen'[q] = seen[q]
          /\ seen' \in [Rows -> Stamped]
      BY <3>2 DEF BaseInv, DataInv
    <3>4. \A q \in Rows : seen[q].version <= seen'[q].version
      BY <3>3, RowTypes DEF BaseInv, DataInv, ClockInv
    <3>5. ClockInv'
      <4>1. ASSUME NEW q \in Rows
            PROVE  /\ seen'[q].at <= now /\ seen'[q].version <= sent[q].version
                   /\ sent[q] # seen'[q] => now < sent[q].at + SETTLE
        <5>1. CASE q = r
          BY <3>3, <5>1, RowTypes DEF BaseInv, DataInv, ClockInv
        <5>2. CASE q # r
          BY <3>3, <5>2 DEF BaseInv, DataInv, ClockInv, InFlight
        <5> QED
          BY <5>1, <5>2
      <4>2. ASSUME NEW e \in live \cup twin PROVE e.version <= seen'[e.row].version
        <5>1. e.row \in Rows /\ e.version \in Nat /\ e.version <= seen[e.row].version
              /\ seen[e.row].version \in Nat
          BY RowTypes DEF BaseInv, DataInv, ClockInv
        <5>2. seen'[e.row].version \in Nat
          BY <3>3, <5>1 DEF Stamped
        <5> QED
          BY <3>4, <5>1, <5>2
      <4> QED
        BY <1>1, <3>2, <4>1, <4>2 DEF BaseInv, DataInv, ClockInv, InFlight
    <3> QED
      BY <1>1, <3>2, <3>3, <3>5, RowTypes DEF BaseInv, DataInv
  <2>3. CASE CloseHour
    <3>1. cut' = cut + 1 /\ UNCHANGED <<sent, seen, registry, faults>>
      BY <2>3 DEF CloseHour, history
    <3> QED
      BY <1>1, <3>1, RowTypes DEF BaseInv, DataInv, ClockInv, InFlight
  <2>4. CASE ChangeRegistry
    <3>1. /\ faults < MaxFaults /\ faults' = faults + 1 /\ registry' = registry + 1
          /\ UNCHANGED <<sent, seen, cut>>
      BY <2>4 DEF ChangeRegistry, Fault
    <3>2. registry' \in 0..MaxFaults /\ faults' \in 0..MaxFaults /\ registry' <= faults' /\ registry <= registry'
          /\ registry' \in Nat
      BY <3>1, RowTypes, ConstFacts DEF BaseInv, DataInv, ClockInv
    <3>3. ClockInv'
      BY <1>1, <3>1, <3>2 DEF BaseInv, DataInv, ClockInv, InFlight
    <3> QED
      BY <1>1, <3>1, <3>2, <3>3, RowTypes DEF BaseInv, DataInv
  <2> QED
    BY <2>1, <2>2, <2>3, <2>4
<1>4. ASSUME NEW p \in Procs PROVE ProcOK(p)'
  <2>1. loaded[p] \in Nat /\ ProcOK(p)
    BY DEF BaseInv, ShapeInv
  <2>2. loaded[p] <= registry'
    BY <1>3, <2>1 DEF ProcOK
  <2> QED
    BY <1>1, <2>1, <2>2 DEF ProcOK
<1> QED
  BY <1>2, <1>3, <1>4 DEF BaseInv

\* The cycle's own steps: a process moves on, its tables and sources do not.
LEMMA StartBase ==
    ASSUME BaseInv, NEW p \in Procs, StartCycle(p) \/ StartWithoutAssets(p)
    PROVE  BaseInv' /\ OthersKept(p)
<1>1. /\ UNCHANGED <<now, source, tables, slept, at, todo, stream, folded, rebuilt, overlap, emptied>>
      /\ pc' = [pc EXCEPT ![p] = "clock"] \/ pc' = [pc EXCEPT ![p] = "mstale"]
      /\ pc[p] \in {"idle", "down"}
      /\ loaded' = [loaded EXCEPT ![p] = registry] \/ loaded' = loaded
      /\ together' = (together \/ Beside(p))
  BY DEF StartCycle, StartWithoutAssets, Step
<1>2. faults' \in {faults, faults + 1} /\ faults' <= MaxFaults
  <2>1. faults' = faults \/ (faults < MaxFaults /\ faults' = faults + 1)
    BY DEF StartCycle, StartWithoutAssets, Fault
  <2>2. faults \in Nat /\ faults <= MaxFaults /\ MaxFaults \in Nat
    BY RowTypes, ConstFacts DEF BaseInv, DataInv
  <2> QED
    BY <2>1, <2>2
<1>3. together' \in BOOLEAN
  BY <1>1
<1>4. DataInv'
  BY <1>1, <1>2, <1>3, DataFrame DEF BaseInv, DataInv
<1>5. OthersKept(p) /\ ShapeInv' /\ pc'[p] \in {"clock", "mstale"} /\ loaded'[p] \in {registry, loaded[p]}
  BY <1>1, RowTypes DEF BaseInv, ShapeInv, OthersKept, States, InCycle, HourJob, MonthJob
<1>6. ProcOK(p)'
  <2>1. ProcOK(p) /\ UNCHANGED <<now, registry>> /\ registry \in Nat
    BY <1>1, RowTypes DEF BaseInv, source
  <2> QED
    BY <1>1, <1>5, <2>1 DEF ProcOK, Stamping, HourPublication, MonthPublication
<1> QED
  BY <1>1, <1>4, <1>5, <1>6, ProcFrame DEF source

\* A job ends, by itself or because it threw, its twin is taken, or the process dies.
LEMMA EndBase ==
    ASSUME BaseInv, NEW p \in Procs, UNCHANGED <<now, source, tables, loaded, overlap, together, emptied>>,
           faults' = faults \/ Fault,
           AfterHours(p) \/ AfterMonths(p)
             \/ /\ pc' = [pc EXCEPT ![p] = IF p = "oneshot" THEN "exited" ELSE "idle"]
                /\ slept' = [slept EXCEPT ![p] = FALSE]
                /\ todo' = [todo EXCEPT ![p] = {}]
                /\ at' = [at EXCEPT ![p] = 0]
                /\ stream' = [stream EXCEPT ![p] = 1],
           stream[p] = 1 \/ stream'[p] = 1,
           folded' = folded \/ folded' = [folded EXCEPT ![p] = [h \in Hours |-> NoMark]],
           rebuilt' = rebuilt \/ rebuilt' = [rebuilt EXCEPT ![p] = [m \in Months |-> 0]]
    PROVE  BaseInv' /\ OthersKept(p)
<1>1. faults' \in {faults, faults + 1} /\ faults' <= MaxFaults
  <2>1. faults \in Nat /\ faults <= MaxFaults /\ MaxFaults \in Nat
    BY RowTypes, ConstFacts DEF BaseInv, DataInv
  <2> QED
    BY <2>1 DEF Fault
<1>2. DataInv'
  BY <1>1, DataFrame DEF BaseInv, DataInv
<1>3. /\ pc' = [pc EXCEPT ![p] = pc'[p]] /\ pc'[p] \in {"mstale", "idle", "exited"}
      /\ todo' = [todo EXCEPT ![p] = {}] /\ at' \in {at, [at EXCEPT ![p] = 0]}
      /\ stream' \in {stream, [stream EXCEPT ![p] = 1]} /\ slept' \in {slept, [slept EXCEPT ![p] = FALSE]}
  BY DEF AfterHours, AfterMonths, BaseInv, ShapeInv
<1>4. [h \in Hours |-> NoMark] \in [Hours -> Int \X Int] /\ [m \in Months |-> 0] \in [Months -> Nat]
  BY DEF NoMark
<1>5. ShapeInv'
  <2>1. ShapeInv
    BY DEF BaseInv
  <2>2. {"mstale", "idle", "exited"} \subseteq States
    BY DEF States, InCycle, MonthJob
  <2>3. pc' \in [Procs -> States] /\ slept' \in [Procs -> BOOLEAN] /\ at' \in [Procs -> Nat]
    <3>1. pc' \in [Procs -> States]
      <4>1. pc'[p] \in States
        BY <1>3, <2>2
      <4> DEFINE x == pc'[p]
      <4>2. pc' = [pc EXCEPT ![p] = x] /\ x \in States /\ pc \in [Procs -> States]
        BY <1>3, <2>1, <4>1 DEF ShapeInv
      <4> HIDE DEF x
      <4> QED
        BY <4>2
    <3>2. slept' \in [Procs -> BOOLEAN]
      BY <1>3, <2>1 DEF ShapeInv
    <3>3. at' \in [Procs -> Nat]
      BY <1>3, <2>1 DEF ShapeInv
    <3> QED
      BY <3>1, <3>2, <3>3
  <2>4. loaded' \in [Procs -> Nat] /\ stream' \in [Procs -> 1..Streams]
    BY <1>3, <2>1, ConstFacts DEF ShapeInv
  <2>5. todo' \in [Procs -> SUBSET [key : Nat, src : Nat]]
    BY <1>3, <2>1 DEF ShapeInv
  <2>6. folded' \in [Procs -> [Hours -> Int \X Int]]
    <3> DEFINE Marks == [Hours -> Int \X Int]
               blank == [h \in Hours |-> NoMark]
    <3>1. folded \in [Procs -> Marks] /\ blank \in Marks
      BY <1>4, <2>1 DEF ShapeInv
    <3>2. folded' = folded \/ folded' = [folded EXCEPT ![p] = blank]
      OBVIOUS
    <3> HIDE DEF Marks, blank
    <3>3. folded' \in [Procs -> Marks]
      BY <3>1, <3>2
    <3> QED
      BY <3>3 DEF Marks
  <2>7. rebuilt' \in [Procs -> [Months -> Nat]]
    <3> DEFINE Watermarks == [Months -> Nat]
               blank == [m \in Months |-> 0]
    <3>1. rebuilt \in [Procs -> Watermarks] /\ blank \in Watermarks
      BY <1>4, <2>1 DEF ShapeInv
    <3>2. rebuilt' = rebuilt \/ rebuilt' = [rebuilt EXCEPT ![p] = blank]
      OBVIOUS
    <3> HIDE DEF Watermarks, blank
    <3>3. rebuilt' \in [Procs -> Watermarks]
      BY <3>1, <3>2
    <3> QED
      BY <3>3 DEF Watermarks
  <2> QED
    BY <2>3, <2>4, <2>5, <2>6, <2>7 DEF ShapeInv
<1>6. OthersKept(p)
  BY <1>3 DEF BaseInv, ShapeInv, OthersKept
<1>7. /\ todo'[p] = {} /\ at'[p] \in {at[p], 0} /\ stream'[p] = 1 /\ UNCHANGED <<now, registry, loaded>>
      /\ \A h \in Hours : folded'[p][h] = folded[p][h] \/ folded'[p][h] = NoMark
  BY <1>3 DEF BaseInv, ShapeInv, source
<1>8. \A h \in Hours : folded'[p][h][1] = folded[p][h][1] \/ folded'[p][h][1] = -1
  BY <1>7 DEF NoMark
<1>9. ProcOK(p)'
  <2>1. ProcOK(p) /\ now \in Nat /\ at[p] \in Nat
    BY RowTypes DEF BaseInv, ShapeInv
  <2>2. at'[p] <= now
    BY <1>7, <2>1 DEF ProcOK
  <2> QED
    BY <1>3, <1>7, <1>8, <2>1, <2>2 DEF ProcOK, Stamping, HourPublication, MonthPublication
<1> QED
  BY <1>2, <1>5, <1>6, <1>7, <1>9, ProcFrame

LEMMA EndSteps ==
    ASSUME BaseInv, NEW p \in Procs,
           \/ TwinBusy(p) \/ JobThrows(p) \/ Crash(p)
           \/ ReadStaleHours(p) /\ StaleHours(p) = {}
           \/ ReadStaleMonths(p) /\ StaleMonths(p) = {}
    PROVE  BaseInv' /\ OthersKept(p)
<1>1. ProcOK(p) /\ stream \in [Procs -> 1..Streams]
  BY DEF BaseInv, ShapeInv
<1>2. AfterHours(p) => stream'[p] = 1
  BY <1>1 DEF AfterHours
<1>3. pc[p] \in MonthJob \cup {"stale", "busy"} => stream[p] = 1
  BY <1>1 DEF ProcOK, MonthJob, MonthPublication
<1>4. CASE TwinBusy(p)
  BY <1>2, <1>3, <1>4, EndBase DEF TwinBusy, history, MonthJob
<1>5. CASE JobThrows(p)
  BY <1>2, <1>3, <1>5, EndBase DEF JobThrows
<1>6. CASE Crash(p)
  <2>1. stream'[p] = 1
    BY <1>1, <1>6 DEF Crash
  <2> QED
    BY <1>6, <2>1, EndBase DEF Crash
<1>7. CASE ReadStaleHours(p) /\ StaleHours(p) = {}
  BY <1>2, <1>7, EndBase DEF ReadStaleHours, history
<1>8. CASE ReadStaleMonths(p) /\ StaleMonths(p) = {}
  BY <1>3, <1>8, EndBase DEF ReadStaleMonths, history, MonthJob
<1> QED
  BY <1>4, <1>5, <1>6, <1>7, <1>8

\* The clock is read, candidates are taken, the twin looks free.
LEMMA ReadBase ==
    ASSUME BaseInv, NEW p \in Procs,
           \/ ReadClock(p) \/ TwinFree(p)
           \/ ReadStaleHours(p) /\ StaleHours(p) # {}
           \/ ReadStaleMonths(p) /\ StaleMonths(p) # {}
    PROVE  BaseInv' /\ OthersKept(p)
<1>1. UNCHANGED <<now, source, tables, slept, loaded, stream, folded, rebuilt, faults, together, emptied>>
  BY DEF ReadClock, TwinFree, ReadStaleHours, ReadStaleMonths, history, AfterHours, AfterMonths
<1>2. overlap' \in BOOLEAN
  BY DEF ReadClock, TwinFree, ReadStaleHours, ReadStaleMonths, history, BaseInv, DataInv
<1>3. DataInv'
  <2>1. faults' \in {faults, faults + 1} /\ faults' <= MaxFaults
    BY <1>1, ConstFacts DEF BaseInv, DataInv
  <2> QED
    BY <1>1, <1>2, <2>1, DataFrame DEF BaseInv, DataInv
<1>4. ProcOK(p) /\ now \in Nat /\ 1 <= now /\ UNCHANGED <<now, registry>>
      /\ (\A q \in Procs : pc[q] \in States)
  BY <1>1, RowTypes DEF BaseInv, source, ShapeInv
<1>5. CASE ReadClock(p)
  <2>1. pc[p] = "clock" /\ pc' = [pc EXCEPT ![p] = "stale"] /\ at' = [at EXCEPT ![p] = now] /\ todo' = todo
    BY <1>5 DEF ReadClock, Step
  <2>2. OthersKept(p) /\ ShapeInv' /\ pc'[p] = "stale" /\ at'[p] = now
    BY <1>1, <1>4, <2>1 DEF BaseInv, ShapeInv, OthersKept, States, InCycle, HourJob
  <2>3. ProcOK(p)'
    BY <1>1, <1>4, <2>1, <2>2 DEF ProcOK, Stamping, HourPublication, MonthPublication
  <2> QED
    BY <1>3, <1>4, <2>2, <2>3, ProcFrame
<1>6. CASE TwinFree(p)
  <2>1. /\ UNCHANGED <<at, todo>>
        /\ \/ pc[p] = "busy" /\ pc' = [pc EXCEPT ![p] = "drop"]
           \/ pc[p] = "mbusy" /\ pc' = [pc EXCEPT ![p] = "mdrop"]
    BY <1>6 DEF TwinFree, Step
  <2>2. OthersKept(p) /\ ShapeInv'
        /\ ((pc[p] = "busy" /\ pc'[p] = "drop") \/ (pc[p] = "mbusy" /\ pc'[p] = "mdrop"))
    BY <1>1, <1>4, <2>1 DEF BaseInv, ShapeInv, OthersKept, States, InCycle, HourJob, MonthJob,
                            HourPublication, MonthPublication
  <2>3. ProcOK(p)'
    BY <1>1, <1>4, <2>1, <2>2 DEF ProcOK, Stamping, HourPublication, MonthPublication
  <2> QED
    BY <1>3, <1>4, <2>2, <2>3, ProcFrame
<1>7. CASE ReadStaleHours(p) /\ StaleHours(p) # {}
  <2>1. /\ pc[p] = "stale" /\ pc' = [pc EXCEPT ![p] = "busy"] /\ at' = at
        /\ todo' = [todo EXCEPT ![p] = HourCandidates(p)]
    BY <1>7 DEF ReadStaleHours, Step
  <2>2. \A h \in StaleHours(p) : h \in Hours /\ h \in Nat /\ SrcIngest(h) \in Nat /\ SrcIngest(h) <= now - SETTLE
    BY HourMarks, ConstFacts DEF StaleHours, Gate, Settled
  <2>3. /\ HourCandidates(p) \in SUBSET [key : Nat, src : Nat] /\ HourCandidates(p) # {}
        /\ \A c \in HourCandidates(p) : c.key \in Hours /\ c.src <= now - SETTLE
    <3>1. ASSUME NEW c \in HourCandidates(p)
          PROVE  c \in [key : Nat, src : Nat] /\ c.key \in Hours /\ c.src <= now - SETTLE
      <4>1. PICK h \in StaleHours(p) : c = [key |-> h, src |-> SrcIngest(h)]
        BY DEF HourCandidates
      <4> QED
        BY <2>2, <4>1
    <3>2. PICK h \in StaleHours(p) : TRUE
      BY <1>7
    <3>3. [key |-> h, src |-> SrcIngest(h)] \in HourCandidates(p)
      BY <3>2 DEF HourCandidates
    <3> QED
      BY <3>1, <3>3
  <2>4. OthersKept(p) /\ ShapeInv' /\ pc'[p] = "busy" /\ todo'[p] = HourCandidates(p)
    BY <1>1, <1>4, <2>1, <2>3 DEF BaseInv, ShapeInv, OthersKept, States, InCycle, HourJob
  <2>5. ProcOK(p)'
    BY <1>1, <1>4, <2>1, <2>3, <2>4 DEF ProcOK, Stamping, HourPublication, MonthPublication
  <2> QED
    BY <1>3, <1>4, <2>4, <2>5, ProcFrame
<1>8. CASE ReadStaleMonths(p) /\ StaleMonths(p) # {}
  <2>1. /\ pc[p] = "mstale" /\ pc' = [pc EXCEPT ![p] = "mbusy"] /\ at' = at
        /\ todo' = [todo EXCEPT ![p] = MonthCandidates(p)]
    BY <1>8 DEF ReadStaleMonths, Step
  <2>2. \A m \in StaleMonths(p) : m \in Months /\ m \in Nat /\ MonthIngest(m) \in Nat
    BY MonthMarks, ConstFacts DEF StaleMonths
  <2>3. /\ MonthCandidates(p) \in SUBSET [key : Nat, src : Nat] /\ MonthCandidates(p) # {}
        /\ \A c \in MonthCandidates(p) : c.key \in Months
    <3>1. ASSUME NEW c \in MonthCandidates(p)
          PROVE  c \in [key : Nat, src : Nat] /\ c.key \in Months
      <4>1. PICK m \in StaleMonths(p) : c = [key |-> m, src |-> MonthIngest(m)]
        BY DEF MonthCandidates
      <4> QED
        BY <2>2, <4>1
    <3>2. PICK m \in StaleMonths(p) : TRUE
      BY <1>8
    <3>3. [key |-> m, src |-> MonthIngest(m)] \in MonthCandidates(p)
      BY <3>2 DEF MonthCandidates
    <3> QED
      BY <3>1, <3>3
  <2>4. OthersKept(p) /\ ShapeInv' /\ pc'[p] = "mbusy" /\ todo'[p] = MonthCandidates(p)
    BY <1>1, <1>4, <2>1, <2>3 DEF BaseInv, ShapeInv, OthersKept, States, InCycle, MonthJob
  <2>5. ProcOK(p)'
    BY <1>1, <1>4, <2>1, <2>3, <2>4 DEF ProcOK, Stamping, HourPublication, MonthPublication
  <2> QED
    BY <1>3, <1>4, <2>4, <2>5, ProcFrame
<1> QED
  BY <1>5, <1>6, <1>7, <1>8

\* A publication's step writes rows of its fold, or rows that are there already.
LEMMA TableBase ==
    ASSUME BaseInv, UNCHANGED <<now, source, faults, overlap, together>>,
           \A e \in live' \cup twin' :
              e \in live \cup twin \/ (e \in Folded /\ e.at <= now /\ e.version <= seen[e.row].version),
           months' \in [Months -> Summaries], mtwin' \in [Months -> Summaries],
           \A m \in Months : months'[m].at <= now /\ mtwin'[m].at <= now,
           emptied' \subseteq Months
    PROVE  DataInv'
<1>1. UNCHANGED <<now, sent, seen, cut, registry, faults, overlap, together>>
  BY DEF source
<1>2. live' \subseteq Folded /\ twin' \subseteq Folded
  BY DEF BaseInv, DataInv
<1>3. \A e \in live' \cup twin' : e.at <= now /\ e.version <= seen[e.row].version
  BY DEF BaseInv, DataInv, ClockInv
<1>4. ClockInv'
  BY <1>1, <1>3 DEF BaseInv, DataInv, ClockInv, InFlight
<1> QED
  BY <1>1, <1>2, <1>4 DEF BaseInv, DataInv

LEMMA MonthStamps ==
    ASSUME BaseInv
    PROVE  /\ months \in [Months -> Summaries] /\ mtwin \in [Months -> Summaries]
           /\ \A m \in Months : /\ months[m].at <= now /\ mtwin[m].at <= now
                                /\ months[m].at \in Nat /\ mtwin[m].at \in Nat
BY DEF BaseInv, DataInv, ClockInv, Summaries

LEMMA FoldRowBase ==
    ASSUME BaseInv, NEW p \in Procs, pc[p] = "write", NEW r \in Rows,
           NEW e \in FoldRow(r, loaded[p], at[p])
    PROVE  e \in Folded /\ e.at <= now /\ e.version <= seen[e.row].version /\ e.row = r /\ e.at = at[p]
<1>1. e = [row |-> r, version |-> seen[r].version, fp |-> loaded[p], at |-> at[p]]
      /\ seen[r].version # 0
  BY DEF FoldRow
<1>2. seen[r].version \in Nat
  BY RowTypes
<1>3. loaded[p] \in 0..MaxFaults
  <2>1. loaded[p] \in Nat /\ loaded[p] <= registry /\ registry \in 0..MaxFaults
    BY DEF BaseInv, ShapeInv, ProcOK, DataInv
  <2> QED
    BY <2>1, ConstFacts
<1>4. at[p] \in Nat /\ 1 <= at[p] /\ at[p] <= now
  BY DEF BaseInv, ShapeInv, ProcOK, Stamping, HourPublication
<1> QED
  BY <1>1, <1>2, <1>3, <1>4 DEF Folded

LEMMA HourTableBase ==
    ASSUME BaseInv, NEW p \in Procs, DropTwin(p) \/ KeepRows(p) \/ WriteStream(p) \/ Swap(p)
    PROVE  BaseInv' /\ OthersKept(p)
<1>1. /\ UNCHANGED <<now, source, months, mtwin, slept, loaded, at, todo, folded, rebuilt, faults,
                     overlap, together>>
      /\ pc[p] \in {"drop", "keep", "write", "swap"}
  BY DEF DropTwin, KeepRows, WriteStream, Swap, Step, history
<1>2. emptied' \subseteq Months
  <2>1. CurrentMonth(p) \in Months
    BY <1>1, CurrentFacts DEF HourPublication
  <2> QED
    BY <2>1 DEF DropTwin, KeepRows, WriteStream, Swap, history, BaseInv, DataInv
<1>3. \A e \in live' \cup twin' :
         e \in live \cup twin \/ (e \in Folded /\ e.at <= now /\ e.version <= seen[e.row].version)
  <2>1. CASE DropTwin(p)
    BY <2>1 DEF DropTwin
  <2>2. CASE KeepRows(p)
    BY <2>2 DEF KeepRows, KeptRows, RowsInMonth
  <2>3. CASE WriteStream(p)
    <3>1. pc[p] = "write" /\ live' = live
      BY <2>3 DEF WriteStream
    <3>2. \A e \in twin' : e \in twin \/ \E r \in Rows : e \in FoldRow(r, loaded[p], at[p])
      BY <2>3 DEF WriteStream
    <3> QED
      BY <3>1, <3>2, FoldRowBase
  <2>4. CASE Swap(p)
    BY <2>4 DEF Swap, RowsInMonth
  <2> QED
    BY <2>1, <2>2, <2>3, <2>4
<1>4. DataInv'
  BY <1>1, <1>2, <1>3, MonthStamps, TableBase
<1>5. /\ \/ pc[p] = "drop" /\ pc' = [pc EXCEPT ![p] = "keep"] /\ stream' = stream
         \/ pc[p] = "keep" /\ pc' = [pc EXCEPT ![p] = "write"] /\ stream' = stream
         \/ pc[p] = "write" /\ pc' = pc /\ stream[p] < Streams /\ stream' = [stream EXCEPT ![p] = stream[p] + 1]
         \/ pc[p] = "write" /\ pc' = [pc EXCEPT ![p] = "swap"] /\ stream' = stream
         \/ pc[p] = "swap" /\ pc' = [pc EXCEPT ![p] = "clear"] /\ stream' = stream
  BY DEF DropTwin, KeepRows, WriteStream, Swap, Step
<1>6. /\ OthersKept(p) /\ ShapeInv'
      /\ pc'[p] \in {"keep", "write", "swap", "clear"}
      /\ pc'[p] = "keep" => stream'[p] = stream[p] /\ pc[p] = "drop"
  <2>1. stream[p] \in 1..Streams /\ (stream[p] < Streams => stream[p] + 1 \in 1..Streams)
    BY ConstFacts DEF BaseInv, ShapeInv
  <2> QED
    BY <1>1, <1>5, <2>1 DEF BaseInv, ShapeInv, OthersKept, States, InCycle, HourJob, HourPublication
<1>7. ProcOK(p)'
  <2>1. ProcOK(p) /\ UNCHANGED <<now, registry>>
    BY <1>1 DEF BaseInv, source
  <2> QED
    BY <1>1, <1>6, <2>1 DEF ProcOK, Stamping, HourPublication, MonthPublication
<1> QED
  BY <1>1, <1>4, <1>6, <1>7, ProcFrame DEF source

LEMMA ClearBase ==
    ASSUME BaseInv, NEW p \in Procs, ClearTwin(p)
    PROVE  BaseInv' /\ OthersKept(p)
<1>1. /\ UNCHANGED <<now, source, live, months, mtwin, loaded, rebuilt, faults, overlap, together, emptied>>
      /\ pc[p] = "clear" /\ twin' \subseteq twin /\ folded' = [folded EXCEPT ![p] = Mark(p)]
  BY DEF ClearTwin, history
<1>2. DataInv'
  BY <1>1, MonthStamps, TableBase DEF BaseInv, DataInv
<1>3. /\ Mark(p) \in [Hours -> Int \X Int]
      /\ \A h \in Hours : Mark(p)[h][1] = -1 \/ Mark(p)[h][1] <= now - SETTLE
  <2>1. \A c \in Current(p) : c.src <= now - SETTLE
    BY <1>1, CurrentFacts DEF HourPublication
  <2>2. \A h \in Hours : folded[p][h][1] = -1 \/ folded[p][h][1] <= now - SETTLE
    BY DEF BaseInv, ProcOK
  <2>3. ASSUME NEW h \in Hours PROVE Mark(p)[h][1] = -1 \/ Mark(p)[h][1] <= now - SETTLE
    <3>1. CASE Mark(p)[h] = folded[p][h]
      BY <2>2, <3>1
    <3>2. CASE \E c \in Current(p) : Mark(p)[h] = <<c.src, loaded[p]>>
      BY <2>1, <3>2
    <3> QED
      BY <1>1, <3>1, <3>2, MarkFacts DEF HourPublication
  <2> QED
    BY <1>1, <2>3, MarkFacts DEF HourPublication
<1>4. \/ AfterHours(p)
      \/ /\ pc' = [pc EXCEPT ![p] = "drop"] /\ todo[p] # Current(p)
         /\ todo' = [todo EXCEPT ![p] = todo[p] \ Current(p)]
         /\ stream' = [stream EXCEPT ![p] = 1] /\ UNCHANGED <<slept, at>>
  BY DEF ClearTwin, Step
<1>5. /\ slept' = slept /\ at' \in {at, [at EXCEPT ![p] = 0]} /\ stream' = [stream EXCEPT ![p] = 1]
      /\ \/ pc' = [pc EXCEPT ![p] = "mstale"] /\ todo' = [todo EXCEPT ![p] = {}]
         \/ /\ pc' = [pc EXCEPT ![p] = "drop"] /\ todo[p] # Current(p) /\ at' = at
            /\ todo' = [todo EXCEPT ![p] = todo[p] \ Current(p)]
  BY <1>4 DEF AfterHours
<1>6. ShapeInv /\ ProcOK(p) /\ Current(p) \subseteq todo[p]
  BY <1>1, CurrentFacts DEF BaseInv, HourPublication
<1>7. ShapeInv'
  <2>1. pc' \in [Procs -> States]
    BY <1>5, <1>6 DEF ShapeInv, States, InCycle, HourJob, MonthJob, HourPublication
  <2>2. at' \in [Procs -> Nat] /\ stream' \in [Procs -> 1..Streams]
    BY <1>5, <1>6, ConstFacts DEF ShapeInv
  <2>3. todo' \in [Procs -> SUBSET [key : Nat, src : Nat]]
    <3> DEFINE Lists == SUBSET [key : Nat, src : Nat]
    <3>1. todo \in [Procs -> Lists]
      BY <1>6 DEF ShapeInv
    <3>2. todo[p] \in Lists
      BY <3>1
    <3>3. {} \in Lists /\ todo[p] \ Current(p) \in Lists
      BY <3>2
    <3>4. \E ls \in Lists : todo' = [todo EXCEPT ![p] = ls]
      BY <1>5, <3>3
    <3> HIDE DEF Lists
    <3>5. todo' \in [Procs -> Lists]
      BY <3>1, <3>4
    <3> QED
      BY <3>5 DEF Lists
  <2>4. folded' \in [Procs -> [Hours -> Int \X Int]]
    BY <1>1, <1>3, <1>6 DEF ShapeInv
  <2> QED
    BY <1>1, <1>5, <1>6, <2>1, <2>2, <2>3, <2>4 DEF ShapeInv
<1>8. OthersKept(p)
  BY <1>1, <1>5, <1>6 DEF ShapeInv, OthersKept
<1>9. /\ at'[p] \in {at[p], 0} /\ stream'[p] = 1 /\ folded'[p] = Mark(p) /\ UNCHANGED <<now, registry, loaded>>
      /\ \/ pc'[p] = "mstale" /\ todo'[p] = {}
         \/ pc'[p] = "drop" /\ todo'[p] = todo[p] \ Current(p) /\ todo[p] # Current(p) /\ at'[p] = at[p]
  BY <1>1, <1>5, <1>6 DEF ShapeInv, source
<1>10. ProcOK(p)'
  <2>1. at'[p] <= now
    BY <1>6, <1>9, RowTypes DEF ProcOK
  <2>2. CASE pc'[p] = "mstale" /\ todo'[p] = {}
    BY <1>3, <1>6, <1>9, <2>1, <2>2 DEF ProcOK, Stamping, HourPublication, MonthPublication
  <2>3. CASE pc'[p] = "drop" /\ todo'[p] = todo[p] \ Current(p) /\ todo[p] # Current(p) /\ at'[p] = at[p]
    <3>1. todo'[p] # {} /\ todo'[p] \subseteq todo[p]
      BY <1>6, <2>3
    <3> QED
      BY <1>1, <1>3, <1>6, <1>9, <2>1, <2>3, <3>1 DEF ProcOK, Stamping, HourPublication, MonthPublication
  <2> QED
    BY <1>9, <2>2, <2>3
<1> QED
  BY <1>2, <1>7, <1>8, <1>9, <1>10, ProcFrame

LEMMA MonthTableBase ==
    ASSUME BaseInv, NEW p \in Procs,
           DropMonthTwin(p) \/ FillMonth(p) \/ SwapMonth(p) \/ ClearMonthTwin(p)
    PROVE  BaseInv' /\ OthersKept(p)
<1>1. /\ UNCHANGED <<now, source, live, twin, loaded, folded, faults, overlap, together>>
      /\ pc[p] \in {"mdrop", "mfill", "mswap", "mclear"}
  BY DEF DropMonthTwin, FillMonth, SwapMonth, ClearMonthTwin, Step, history
<1>2. Month(p) \in Months /\ (\E c \in todo[p] : c.key = Month(p))
  BY <1>1, MonthFacts DEF MonthPublication
<1> DEFINE m == Month(p)
           done == CHOOSE c \in todo[p] : c.key = Month(p)
<1>3. done \in todo[p] /\ done.key = m
  BY <1>2
<1>4. EmptyMonth \in Summaries /\ EmptyMonth.at = 0
  BY DEF EmptyMonth, Summaries
<1>5. ShapeInv /\ ProcOK(p) /\ now \in Nat /\ UNCHANGED registry
  BY <1>1, RowTypes DEF BaseInv, source
<1> HIDE DEF m, done
<1>6. /\ months' \in [Months -> Summaries] /\ mtwin' \in [Months -> Summaries]
      /\ \A x \in Months : months'[x].at <= now /\ mtwin'[x].at <= now
  <2>1. CASE DropMonthTwin(p) \/ ClearMonthTwin(p)
    <3>1. months' = months /\ mtwin' = [mtwin EXCEPT ![m] = EmptyMonth]
      BY <1>3, <2>1 DEF DropMonthTwin, ClearMonthTwin, m, done
    <3> QED
      BY <1>2, <1>4, <1>5, <3>1, MonthStamps DEF m
  <2>2. CASE FillMonth(p)
    <3> DEFINE new == [rows |-> mtwin[m].rows \cup Summed(m),
                       at |-> IF Summed(m) = {} THEN mtwin[m].at ELSE now]
    <3>1. months' = months /\ mtwin' = [mtwin EXCEPT ![m] = new]
      BY <2>2 DEF FillMonth, m
    <3>2. mtwin[m] \in Summaries /\ m \in Months
      BY <1>2, MonthStamps DEF m
    <3>3. Summed(m) \subseteq Rows \X Nat \X Nat
      BY RowTypes, ConstFacts DEF Summed, RowsInMonth
    <3>4. new \in Summaries /\ new.at \in {mtwin[m].at, now}
      BY <1>5, <3>2, <3>3 DEF Summaries
    <3> HIDE DEF new
    <3>5. mtwin' \in [Months -> Summaries] /\ mtwin'[m] = new /\ \A x \in Months : x # m => mtwin'[x] = mtwin[x]
      BY <3>1, <3>2, <3>4, MonthStamps
    <3>6. new.at <= now
      BY <1>5, <3>2, <3>4, MonthStamps
    <3> QED
      BY <3>1, <3>5, <3>6, MonthStamps
  <2>3. CASE SwapMonth(p)
    <3>1. months' = [months EXCEPT ![m] = mtwin[m]] /\ mtwin' = mtwin
      BY <2>3 DEF SwapMonth, m
    <3> QED
      BY <1>2, <3>1, MonthStamps DEF m
  <2> QED
    BY <2>1, <2>2, <2>3
<1>7. emptied' \subseteq Months
  BY DEF DropMonthTwin, FillMonth, SwapMonth, ClearMonthTwin, history, BaseInv, DataInv
<1>8. DataInv'
  BY <1>1, <1>6, <1>7, TableBase
<1>9. CASE DropMonthTwin(p) \/ FillMonth(p) \/ SwapMonth(p)
  <2>1. /\ UNCHANGED <<slept, at, todo, stream, rebuilt>>
        /\ \E x \in {"mfill", "mswap", "mclear"} : pc' = [pc EXCEPT ![p] = x]
    BY <1>9 DEF DropMonthTwin, FillMonth, SwapMonth, Step
  <2>2. OthersKept(p) /\ ShapeInv' /\ pc'[p] \in {"mfill", "mswap", "mclear"}
    BY <1>1, <1>5, <2>1 DEF ShapeInv, OthersKept, States, InCycle, MonthJob, MonthPublication
  <2>3. ProcOK(p)'
    BY <1>1, <1>5, <2>1, <2>2 DEF ProcOK, Stamping, HourPublication, MonthPublication
  <2> QED
    BY <1>1, <1>5, <1>8, <2>2, <2>3, ProcFrame
<1>10. CASE ClearMonthTwin(p)
  <2>1. /\ rebuilt' = [rebuilt EXCEPT ![p][m] = done.src] /\ pc[p] = "mclear"
        /\ \/ AfterMonths(p)
           \/ /\ pc' = [pc EXCEPT ![p] = "mdrop"] /\ todo[p] # {done}
              /\ todo' = [todo EXCEPT ![p] = todo[p] \ {done}] /\ UNCHANGED <<slept, at, stream>>
    BY <1>3, <1>10 DEF ClearMonthTwin, Step, m, done
  <2>2. /\ UNCHANGED <<at, stream>> /\ slept' \in {slept, [slept EXCEPT ![p] = FALSE]}
        /\ \/ (\E x \in {"idle", "exited"} : pc' = [pc EXCEPT ![p] = x]) /\ todo' = [todo EXCEPT ![p] = {}]
           \/ /\ pc' = [pc EXCEPT ![p] = "mdrop"] /\ todo[p] # {done}
              /\ todo' = [todo EXCEPT ![p] = todo[p] \ {done}]
    BY <2>1 DEF AfterMonths
  <2>3. done.src \in Nat /\ m \in Months
    BY <1>2, <1>3, <1>5 DEF ShapeInv, m
  <2>4. rebuilt' \in [Procs -> [Months -> Nat]] /\ \A q \in Procs : q # p => rebuilt'[q] = rebuilt[q]
    BY <1>5, <2>1, <2>3 DEF ShapeInv
  <2>5. todo' \in [Procs -> SUBSET [key : Nat, src : Nat]] /\ pc' \in [Procs -> States]
        /\ slept' \in [Procs -> BOOLEAN]
    BY <1>5, <2>2 DEF ShapeInv, States, InCycle, MonthJob, MonthPublication
  <2>6. OthersKept(p) /\ ShapeInv'
    BY <1>1, <1>5, <2>2, <2>4, <2>5 DEF ShapeInv, OthersKept
  <2>7. \/ pc'[p] \in {"idle", "exited"} /\ todo'[p] = {}
        \/ pc'[p] = "mdrop" /\ todo'[p] # {} /\ todo'[p] \subseteq todo[p]
    BY <1>3, <1>5, <2>2 DEF ShapeInv
  <2>8. ProcOK(p)'
    BY <1>1, <1>5, <2>1, <2>2, <2>7 DEF ProcOK, Stamping, HourPublication, MonthPublication
  <2> QED
    BY <1>1, <1>5, <1>8, <2>6, <2>8, ProcFrame
<1> QED
  BY <1>9, <1>10

\* The steps of a process.
ProcStep(p) ==
    StartCycle(p) \/ Run(p) \/ TwinBusy(p) \/ StartWithoutAssets(p) \/ JobThrows(p) \/ Crash(p)

LEMMA ProcSteps ==
    ASSUME BaseInv, NEW p \in Procs, ProcStep(p)
    PROVE  BaseInv' /\ OthersKept(p)
BY StartBase, EndSteps, ReadBase, HourTableBase, ClearBase, MonthTableBase DEF ProcStep, Run

LEMMA BaseStep == BaseInv /\ [Next]_vars => BaseInv'
<1> SUFFICES ASSUME BaseInv, [Next]_vars PROVE BaseInv'
  OBVIOUS
<1>1. CASE UNCHANGED vars
  BY <1>1 DEF vars, source, tables, process, history, BaseInv, DataInv, ClockInv, InFlight, ShapeInv, ProcOK
<1>2. CASE Tick \/ CloseHour \/ ChangeRegistry \/ \E r \in Rows : Ingest(r) \/ Land(r)
  BY <1>2, TickBase, WorldBase
<1>3. CASE \E p \in Procs : ProcStep(p)
  BY <1>3, ProcSteps
<1> QED
  BY <1>1, <1>2, <1>3 DEF Next, ProcStep

-----------------------------------------------------------------------------
(* Meetings of the two processes are recorded.                             *)

\* A process enters a publication, or a cycle, in one step only.
LEMMA Entering ==
    ASSUME BaseInv, NEW p \in Procs, ProcStep(p)
    PROVE  /\ overlap => overlap'
           /\ together => together'
           /\ pc'[p] \in HourPublication =>
                pc[p] \in HourPublication \/ overlap' \/ pc[Other(p)] \notin HourPublication
           /\ pc'[p] \in InCycle =>
                pc[p] \in InCycle \/ together' \/ pc[Other(p)] \notin InCycle
<1>1. pc \in [Procs -> States]
  BY DEF BaseInv, ShapeInv
<1> USE <1>1 DEF HourPublication, MonthPublication, HourJob, MonthJob, InCycle
<1>2. CASE StartCycle(p)
  <2>1. pc' = [pc EXCEPT ![p] = "clock"] /\ together' = (together \/ Beside(p)) /\ overlap' = overlap
    BY <1>2 DEF StartCycle, Step
  <2> QED
    BY <2>1 DEF Beside
<1>8. CASE StartWithoutAssets(p)
  <2>1. pc' = [pc EXCEPT ![p] = "mstale"] /\ together' = (together \/ Beside(p)) /\ overlap' = overlap
    BY <1>8 DEF StartWithoutAssets, Step
  <2> QED
    BY <2>1 DEF Beside
<1>3. CASE TwinBusy(p) \/ JobThrows(p) \/ Crash(p)
  BY <1>3 DEF TwinBusy, JobThrows, Crash, AfterHours, AfterMonths, history
<1>4. CASE ReadClock(p) \/ ReadStaleHours(p) \/ ReadStaleMonths(p)
  BY <1>4 DEF ReadClock, ReadStaleHours, ReadStaleMonths, Step, AfterHours, AfterMonths, history
<1>5. CASE TwinFree(p)
  BY <1>5 DEF TwinFree, Step
<1>6. CASE DropTwin(p) \/ KeepRows(p) \/ WriteStream(p) \/ Swap(p) \/ ClearTwin(p)
  BY <1>6 DEF DropTwin, KeepRows, WriteStream, Swap, ClearTwin, Step, AfterHours, history
<1>7. CASE DropMonthTwin(p) \/ FillMonth(p) \/ SwapMonth(p) \/ ClearMonthTwin(p)
  BY <1>7 DEF DropMonthTwin, FillMonth, SwapMonth, ClearMonthTwin, Step, AfterMonths, history
<1> QED
  BY <1>2, <1>3, <1>4, <1>5, <1>6, <1>7, <1>8 DEF ProcStep, Run

LEMMA WorldFrame ==
    ASSUME Tick \/ CloseHour \/ ChangeRegistry \/ (\E r \in Rows : Ingest(r) \/ Land(r)) \/ UNCHANGED vars
    PROVE  UNCHANGED <<live, twin, months, mtwin, pc, loaded, at, todo, stream, folded, rebuilt,
                       overlap, together, emptied>>
BY DEF Tick, CloseHour, ChangeRegistry, Ingest, Land, vars, source, tables, process, history

LEMMA AloneStep ==
    ASSUME BaseInv, AloneInv, [Next]_vars
    PROVE  AloneInv' /\ (overlap => overlap') /\ (together => together')
<1>1. CASE Tick \/ CloseHour \/ ChangeRegistry \/ (\E r \in Rows : Ingest(r) \/ Land(r)) \/ UNCHANGED vars
  BY <1>1, WorldFrame DEF AloneInv
<1>2. ASSUME NEW p \in Procs, ProcStep(p)
      PROVE  AloneInv' /\ (overlap => overlap') /\ (together => together')
  <2>1. OthersKept(p)
    BY <1>2, ProcSteps
  <2>2. pc'[Other(p)] = pc[Other(p)] /\ Other(p) \in Procs /\ \A q \in Procs : q = p \/ q = Other(p)
    BY <2>1, OtherFacts DEF OthersKept
  <2>3. /\ overlap => overlap'
        /\ together => together'
        /\ pc'[p] \in HourPublication =>
             pc[p] \in HourPublication \/ overlap' \/ pc[Other(p)] \notin HourPublication
        /\ pc'[p] \in InCycle =>
             pc[p] \in InCycle \/ together' \/ pc[Other(p)] \notin InCycle
    BY <1>2, Entering
  <2>4. Other(p) # p
    BY OtherFacts
  <2>5. ~overlap' => ~(pc'[p] \in HourPublication /\ pc'[Other(p)] \in HourPublication)
    BY <2>2, <2>3, <2>4 DEF AloneInv
  <2>6. ~together' => ~(pc'[p] \in InCycle /\ pc'[Other(p)] \in InCycle)
    BY <2>2, <2>3, <2>4 DEF AloneInv
  <2>7. AloneInv'
    BY <2>2, <2>5, <2>6 DEF AloneInv
  <2> QED
    BY <2>3, <2>7
<1> QED
  BY <1>1, <1>2 DEF Next, ProcStep

-----------------------------------------------------------------------------
(* The fold: what is published is what the source showed.                  *)

LEMMA CurrentKept ==
    ASSUME NEW q, todo'[q] = todo[q]
    PROVE  /\ CurrentMonth(q)' = CurrentMonth(q) /\ Current(q)' = Current(q)
           /\ CurrentHours(q)' = CurrentHours(q) /\ Month(q)' = Month(q)
<1>1. CurrentMonth(q)' = CurrentMonth(q) /\ Month(q)' = Month(q)
  BY DEF CurrentMonth, Month
<1>2. Current(q)' = Current(q)
  BY <1>1 DEF Current
<1> QED
  BY <1>1, <1>2 DEF CurrentHours

\* A row that becomes visible was stamped less than the margin ago.
SeenStep(r) ==
    \/ seen'[r] = seen[r]
    \/ seen'[r].at > now - SETTLE /\ seen[r].version <= seen'[r].version

\* A publication in progress goes on with the same candidates, stamp and registry.
SameFold(q) ==
    /\ pc'[q] = pc[q] /\ todo'[q] = todo[q] /\ stream'[q] = stream[q]
    /\ loaded'[q] = loaded[q] /\ at'[q] = at[q]

\* Marks stay, or are lost with their process.
MarksKept == \A q \in Procs, h \in Hours : folded'[q][h] = folded[q][h] \/ folded'[q][h] = NoMark

LEMMA TwinRowKept ==
    ASSUME BaseInv, BaseInv', NEW q \in Procs, pc[q] \in HourPublication, NEW r \in Rows, UNCHANGED <<live, twin>>,
           SeenStep(r), SameFold(q), MarksKept, TwinRow(q, r)
    PROVE  TwinRow(q, r)'
<1>1. CurrentHours(q)' = CurrentHours(q) /\ (Written(q, r)' <=> Written(q, r))
  <2>1. CurrentHours(q)' = CurrentHours(q)
    BY CurrentKept DEF SameFold
  <2> QED
    BY <2>1 DEF Written, SameFold
<1>2. Of(twin, r)' = Of(twin, r) /\ Of(live, r)' = Of(live, r)
  BY DEF Of
<1>3. ASSUME Written(q, r), NEW v \in 0..seen[r].version, StillSeen(q, r, v)
      PROVE  v \in 0..seen'[r].version /\ StillSeen(q, r, v)'
  <2>1. /\ seen[r].version \in Nat /\ seen'[r].version \in Nat /\ seen'[r].at \in Nat /\ now \in Nat
        /\ HourOf[r] \in Hours
    BY RowTypes, RowConst DEF BaseInv, DataInv, Stamped
  <2>2. \A p \in Procs : folded'[p][HourOf[r]][1] = folded[p][HourOf[r]][1] \/ folded'[p][HourOf[r]][1] = -1
    BY <2>1 DEF MarksKept, NoMark
  <2>3. CASE seen'[r] = seen[r]
    <3>1. CASE v = seen[r].version
      BY <2>3, <3>1 DEF StillSeen
    <3>2. CASE v # seen[r].version
      <4>1. seen'[r].at > at'[q] - SETTLE /\ \A c \in todo'[q] : c.key = HourOf[r] => seen'[r].at > c.src
        BY <1>3, <2>3, <3>2 DEF StillSeen, SameFold
      <4>2. \A p \in Procs : seen'[r].at > folded'[p][HourOf[r]][1]
        BY <1>3, <2>1, <2>2, <2>3, <3>2 DEF StillSeen
      <4> QED
        BY <2>3, <4>1, <4>2 DEF StillSeen
    <3> QED
      BY <3>1, <3>2
  <2>4. CASE seen'[r].at > now - SETTLE /\ seen[r].version <= seen'[r].version
    <3>1. at[q] \in Nat /\ at[q] <= now /\ \A c \in todo[q] : c.src \in Nat /\ c.src <= now - SETTLE
      BY DEF BaseInv, ShapeInv, ProcOK
    <3>2. seen'[r].at > at'[q] - SETTLE /\ \A c \in todo'[q] : seen'[r].at > c.src
      BY <2>1, <2>4, <3>1, ConstFacts DEF SameFold
    <3>3. \A p \in Procs : /\ folded[p][HourOf[r]][1] \in Int
                           /\ folded[p][HourOf[r]][1] = -1 \/ folded[p][HourOf[r]][1] <= now - SETTLE
      BY <2>1 DEF BaseInv, ShapeInv, ProcOK
    <3>4. \A p \in Procs : seen'[r].at > folded'[p][HourOf[r]][1]
      BY <2>1, <2>2, <2>4, <3>3, ConstFacts
    <3>5. v \in 0..seen'[r].version
      BY <2>1, <2>4
    <3> QED
      BY <3>2, <3>4, <3>5 DEF StillSeen
  <2> QED
    BY <2>3, <2>4 DEF SeenStep
<1>4. ASSUME Written(q, r)
      PROVE  \E v \in 0..seen'[r].version :
                 /\ Of(twin, r) = FoldAt(r, v, loaded'[q], at'[q])
                 /\ \A e \in Of(live, r) : e.version <= v
                 /\ StillSeen(q, r, v)'
  <2>1. PICK v \in 0..seen[r].version :
            /\ Of(twin, r) = FoldAt(r, v, loaded[q], at[q])
            /\ \A e \in Of(live, r) : e.version <= v
            /\ StillSeen(q, r, v)
    BY <1>4 DEF TwinRow
  <2>2. v \in 0..seen'[r].version /\ StillSeen(q, r, v)'
    BY <1>3, <1>4, <2>1
  <2> QED
    BY <2>1, <2>2 DEF SameFold
<1> QED
  BY <1>1, <1>2, <1>4 DEF TwinRow, FoldAt

\* What is known of an hour's rows when the tables stand and only the source moves.
LEMMA LiveKept ==
    ASSUME BaseInv, BaseInv', LiveRight, UNCHANGED live, \A r \in Rows : SeenStep(r)
    PROVE  LiveRight'
<1> SUFFICES ASSUME NEW e \in live, NEW r \in Rows, HourOf[r] = HourOf[e.row]
             PROVE  seen'[r].at > e.at - SETTLE \/ Of(live, r) = FoldRow(r, e.fp, e.at)'
  BY DEF LiveRight, Of
<1>1. CASE seen'[r] = seen[r]
  <2>1. FoldRow(r, e.fp, e.at)' = FoldRow(r, e.fp, e.at)
    BY <1>1 DEF FoldRow
  <2> QED
    BY <1>1, <2>1 DEF LiveRight
<1>2. CASE seen'[r].at > now - SETTLE
  <2>1. e.at \in Nat /\ e.at <= now /\ now \in Nat /\ seen'[r].at \in Nat
    BY RowTypes DEF BaseInv, DataInv, ClockInv, Stamped
  <2> QED
    BY <1>2, <2>1, ConstFacts
<1> QED
  BY <1>1, <1>2 DEF SeenStep

LEMMA MarkKept ==
    ASSUME BaseInv, BaseInv', MarkInv, UNCHANGED live, \A r \in Rows : SeenStep(r), MarksKept,
           \A q \in Procs : pc'[q] # "clear" \/ SameFold(q)
    PROVE  MarkInv'
<1>1. \A r \in Rows : /\ seen'[r].at \in Nat /\ seen[r].at \in Nat /\ now \in Nat
                      /\ seen'[r] = seen[r] \/ seen'[r].at > now - SETTLE
                      /\ HourOf[r] \in Hours
  BY RowTypes, RowConst DEF SeenStep, BaseInv, DataInv, Stamped
<1>2. \A r \in Rows : seen'[r] = seen[r] => (Yields(r)' <=> Yields(r))
  BY DEF Yields
<1>3. ASSUME NEW p \in Procs, pc'[p] = "clear", NEW c \in Current(p)', NEW r \in Rows, HourOf[r] = c.key
      PROVE  RowsIn(live, c.key)' # {} \/ seen'[r].at > c.src \/ ~Yields(r)'
  <2>1. pc[p] = "clear" /\ c \in Current(p)
    BY <1>3, CurrentKept DEF SameFold
  <2>2. c.src \in Nat /\ c.src <= now - SETTLE
    BY <2>1, CurrentFacts DEF HourPublication
  <2>3. RowsIn(live, c.key) # {} \/ seen[r].at > c.src \/ ~Yields(r)
    BY <1>3, <2>1 DEF MarkInv
  <2>4. CASE seen'[r] = seen[r]
    BY <1>2, <2>3, <2>4 DEF RowsIn
  <2>5. CASE seen'[r].at > now - SETTLE
    BY <1>1, <2>2, <2>5, ConstFacts
  <2> QED
    BY <1>1, <2>4, <2>5
<1>4. ASSUME NEW p \in Procs, NEW r \in Rows
      PROVE  RowsIn(live, HourOf[r])' # {} \/ seen'[r].at > folded'[p][HourOf[r]][1] \/ ~Yields(r)'
  <2> DEFINE f == folded[p][HourOf[r]][1]
             g == folded'[p][HourOf[r]][1]
  <2>1. f \in Int /\ (f = -1 \/ f <= now - SETTLE)
    BY <1>1 DEF BaseInv, ShapeInv, ProcOK
  <2>2. g = f \/ g = -1
    BY <1>1 DEF MarksKept, NoMark
  <2>3. RowsIn(live, HourOf[r]) # {} \/ seen[r].at > f \/ ~Yields(r)
    BY DEF MarkInv
  <2> HIDE DEF f, g
  <2>4. RowsIn(live, HourOf[r])' # {} \/ seen'[r].at > g \/ ~Yields(r)'
    <3>1. CASE g = -1
      BY <1>1, <3>1
    <3>2. CASE g = f /\ seen'[r] = seen[r]
      BY <1>2, <2>3, <3>2 DEF RowsIn
    <3>3. CASE g = f /\ seen'[r].at > now - SETTLE
      BY <1>1, <2>1, <3>3, ConstFacts
    <3> QED
      BY <1>1, <2>2, <3>1, <3>2, <3>3
  <2> QED
    BY <2>4 DEF g
<1> QED
  BY <1>3, <1>4 DEF MarkInv

\* The source, or a process that is in no publication of revenue_events, moves.
LEMMA FoldKept ==
    ASSUME BaseInv, BaseInv', FoldInv, overlap => overlap', UNCHANGED <<live, twin>>,
           \A r \in Rows : SeenStep(r), MarksKept,
           \A q \in Procs : pc'[q] \notin {"keep", "write", "swap", "clear"} \/ SameFold(q)
    PROVE  FoldInv'
<1> SUFFICES ASSUME ~overlap' PROVE (LiveRight /\ TwinInv /\ MarkInv /\ OneVersion)'
  BY DEF FoldInv
<1>1. LiveRight /\ TwinInv /\ MarkInv /\ OneVersion /\ ~overlap
  BY DEF FoldInv
<1>2. LiveRight'
  BY <1>1, LiveKept
<1>3. MarkInv'
  BY <1>1, MarkKept
<1>4. OneVersion'
  BY <1>1 DEF OneVersion
<1>5. ASSUME NEW p \in Procs, pc'[p] \in {"keep", "write", "swap"}
      PROVE  /\ pc'[p] = "keep" => RowsInMonth(twin, CurrentMonth(p))' = {}
             /\ pc'[p] \in {"write", "swap"} =>
                  \A r \in Rows : MonthOf[HourOf[r]] = CurrentMonth(p)' => TwinRow(p, r)'
  <2>1. SameFold(p) /\ pc[p] \in HourPublication
    BY <1>5 DEF SameFold, HourPublication
  <2>2. CurrentMonth(p)' = CurrentMonth(p)
    BY <2>1, CurrentKept DEF SameFold
  <2>3. pc'[p] = pc[p]
    BY <2>1 DEF SameFold
  <2>4. CASE pc[p] = "keep"
    BY <1>1, <2>2, <2>3, <2>4 DEF TwinInv, RowsInMonth
  <2>5. CASE pc[p] \in {"write", "swap"}
    <3>1. ASSUME NEW r \in Rows, MonthOf[HourOf[r]] = CurrentMonth(p) PROVE TwinRow(p, r)'
      BY <1>1, <2>1, <2>5, <3>1, TwinRowKept DEF TwinInv
    <3> QED
      BY <2>2, <2>3, <2>5, <3>1
  <2> QED
    BY <1>5, <2>3, <2>4, <2>5
<1>6. TwinInv'
  BY <1>5 DEF TwinInv
<1> QED
  BY <1>2, <1>3, <1>4, <1>6

\* The world's steps: the source moves, nothing else.
LEMMA FoldWorld ==
    ASSUME BaseInv, BaseInv', FoldInv,
           Tick \/ CloseHour \/ ChangeRegistry \/ (\E r \in Rows : Ingest(r) \/ Land(r)) \/ UNCHANGED vars
    PROVE  FoldInv'
<1>1. \A q \in Procs : SameFold(q)
  BY WorldFrame DEF SameFold
<1>2. MarksKept
  BY WorldFrame DEF MarksKept
<1>3. UNCHANGED <<live, twin, overlap>>
  BY WorldFrame
<1>4. ASSUME NEW r \in Rows PROVE SeenStep(r)
  <2>1. CASE \E x \in Rows : Land(x)
    <3>1. PICK x \in Rows : InFlight(x) /\ seen' = [seen EXCEPT ![x] = sent[x]]
      BY <2>1 DEF Land
    <3>2. seen \in [Rows -> Stamped] /\ now < sent[x].at + SETTLE /\ seen[x].version <= sent[x].version
      BY <3>1 DEF BaseInv, DataInv, ClockInv
    <3>3. now \in Nat /\ sent[x].at \in Nat
      BY RowTypes
    <3>4. CASE r = x
      <4>1. seen'[r] = sent[x]
        BY <3>1, <3>2, <3>4
      <4>2. sent[x].at > now - SETTLE
        BY <3>2, <3>3, ConstFacts
      <4> QED
        BY <3>2, <3>4, <4>1, <4>2 DEF SeenStep
    <3>5. CASE r # x
      BY <3>1, <3>2, <3>5 DEF SeenStep
    <3> QED
      BY <3>4, <3>5
  <2>2. CASE ~ \E x \in Rows : Land(x)
    BY <2>2 DEF SeenStep, Tick, CloseHour, ChangeRegistry, Ingest, vars, source
  <2> QED
    BY <2>1, <2>2
<1> QED
  BY <1>1, <1>2, <1>3, <1>4, FoldKept

\* The steps of a process that write neither revenue_events nor its twin.
LEMMA FoldControl ==
    ASSUME BaseInv, BaseInv', FoldInv, NEW p \in Procs, ProcStep(p), overlap => overlap',
           ~(DropTwin(p) \/ KeepRows(p) \/ WriteStream(p) \/ Swap(p) \/ ClearTwin(p))
    PROVE  FoldInv'
<1>1. OthersKept(p) /\ pc \in [Procs -> States] /\ folded \in [Procs -> [Hours -> Int \X Int]]
  BY ProcSteps DEF BaseInv, ShapeInv
<1>2. UNCHANGED <<seen, live, twin>>
  BY DEF ProcStep, Run, StartCycle, StartWithoutAssets, JobThrows, Crash, TwinBusy, ReadClock,
         ReadStaleHours, TwinFree, ReadStaleMonths, DropMonthTwin, FillMonth, SwapMonth, ClearMonthTwin,
         source, tables
<1>3. pc'[p] \notin {"keep", "write", "swap", "clear"}
  <2>1. \E x \in {"clock", "stale", "busy", "drop", "mstale", "mbusy", "mdrop", "mfill", "mswap", "mclear",
                  "idle", "exited"} : pc' = [pc EXCEPT ![p] = x]
    <3>1. CASE StartCycle(p) \/ StartWithoutAssets(p) \/ ReadClock(p) \/ TwinFree(p)
      BY <3>1 DEF StartCycle, StartWithoutAssets, ReadClock, TwinFree, Step
    <3>2. CASE JobThrows(p) \/ Crash(p) \/ TwinBusy(p)
      BY <3>2 DEF JobThrows, Crash, TwinBusy, AfterHours, AfterMonths
    <3>3. CASE ReadStaleHours(p) \/ ReadStaleMonths(p)
      BY <3>3 DEF ReadStaleHours, ReadStaleMonths, Step, AfterHours, AfterMonths
    <3>4. CASE DropMonthTwin(p) \/ FillMonth(p) \/ SwapMonth(p) \/ ClearMonthTwin(p)
      BY <3>4 DEF DropMonthTwin, FillMonth, SwapMonth, ClearMonthTwin, Step, AfterMonths
    <3> QED
      BY <3>1, <3>2, <3>3, <3>4 DEF ProcStep, Run
  <2> QED
    BY <1>1, <2>1
<1>4. MarksKept
  <2>1. folded' = folded \/ folded' = [folded EXCEPT ![p] = [h \in Hours |-> NoMark]]
    BY DEF ProcStep, Run, StartCycle, StartWithoutAssets, JobThrows, Crash, TwinBusy, ReadClock,
           ReadStaleHours, TwinFree, ReadStaleMonths, DropMonthTwin, FillMonth, SwapMonth, ClearMonthTwin
  <2> QED
    BY <1>1, <2>1 DEF MarksKept
<1>5. \A q \in Procs : pc'[q] \notin {"keep", "write", "swap", "clear"} \/ SameFold(q)
  BY <1>1, <1>3 DEF OthersKept, SameFold
<1> QED
  BY <1>2, <1>4, <1>5, FoldKept DEF SeenStep

\* While one process publishes the other does not, so the invariant speaks of one.
LEMMA AlonePublishing ==
    ASSUME BaseInv, AloneInv, ~overlap, NEW p \in Procs, OthersKept(p), pc[p] \in HourPublication,
           NEW q \in Procs, pc'[q] \in HourPublication
    PROVE  q = p
BY DEF AloneInv, OthersKept

LEMMA FoldDrop ==
    ASSUME BaseInv, BaseInv', AloneInv, FoldInv, NEW p \in Procs, DropTwin(p), OthersKept(p)
    PROVE  FoldInv'
<1>1. /\ UNCHANGED <<now, seen, live, todo, folded, overlap>> /\ pc[p] = "drop" /\ pc'[p] = "keep"
      /\ twin' = twin \ RowsInMonth(twin, CurrentMonth(p))
  BY DEF DropTwin, Step, source, history, BaseInv, ShapeInv
<1> SUFFICES ASSUME ~overlap' PROVE (LiveRight /\ TwinInv /\ MarkInv /\ OneVersion)'
  BY DEF FoldInv
<1>2. LiveRight /\ TwinInv /\ MarkInv /\ OneVersion /\ ~overlap
  BY <1>1 DEF FoldInv
<1>3. \A q \in Procs : pc'[q] \in HourPublication => q = p
  BY <1>1, <1>2, AlonePublishing DEF HourPublication
<1>4. LiveRight' /\ MarkInv' /\ OneVersion'
  <2>1. \A r \in Rows : SeenStep(r)
    BY <1>1 DEF SeenStep
  <2>2. MarksKept
    BY <1>1 DEF MarksKept
  <2>3. \A q \in Procs : pc'[q] # "clear"
    BY <1>1, <1>3 DEF HourPublication
  <2> QED
    BY <1>1, <1>2, <2>1, <2>2, <2>3, LiveKept, MarkKept DEF OneVersion
<1>5. CurrentMonth(p)' = CurrentMonth(p)
  BY <1>1, CurrentKept
<1>6. TwinInv'
  BY <1>1, <1>3, <1>5 DEF TwinInv, RowsInMonth, HourPublication
<1> QED
  BY <1>4, <1>6

LEMMA FoldKeep ==
    ASSUME BaseInv, BaseInv', AloneInv, FoldInv, NEW p \in Procs, KeepRows(p), OthersKept(p)
    PROVE  FoldInv'
<1>1. /\ UNCHANGED <<now, seen, live, todo, stream, folded, overlap>> /\ pc[p] = "keep" /\ pc'[p] = "write"
      /\ twin' = twin \cup KeptRows(p)
  BY DEF KeepRows, Step, source, history, BaseInv, ShapeInv
<1> SUFFICES ASSUME ~overlap' PROVE (LiveRight /\ TwinInv /\ MarkInv /\ OneVersion)'
  BY DEF FoldInv
<1>2. LiveRight /\ TwinInv /\ MarkInv /\ OneVersion /\ ~overlap
  BY <1>1 DEF FoldInv
<1>3. \A q \in Procs : pc'[q] \in HourPublication => q = p
  BY <1>1, <1>2, AlonePublishing DEF HourPublication
<1>4. LiveRight' /\ MarkInv' /\ OneVersion'
  <2>1. \A r \in Rows : SeenStep(r)
    BY <1>1 DEF SeenStep
  <2>2. MarksKept
    BY <1>1 DEF MarksKept
  <2>3. \A q \in Procs : pc'[q] # "clear"
    BY <1>1, <1>3 DEF HourPublication
  <2> QED
    BY <1>1, <1>2, <2>1, <2>2, <2>3, LiveKept, MarkKept DEF OneVersion
<1>5. CurrentMonth(p)' = CurrentMonth(p) /\ CurrentHours(p)' = CurrentHours(p)
  BY <1>1, CurrentKept
<1>6. RowsInMonth(twin, CurrentMonth(p)) = {} /\ stream'[p] = 1
  BY <1>1, <1>2 DEF TwinInv, BaseInv, ProcOK
<1>7. ASSUME NEW r \in Rows, MonthOf[HourOf[r]] = CurrentMonth(p) PROVE TwinRow(p, r)'
  <2>1. Of(twin, r) = {}
    BY <1>6, <1>7 DEF RowsInMonth, Of
  <2>2. HourOf[r] \notin CurrentHours(p) => Of(twin', r) = Of(live, r)
    BY <1>1, <1>7, <2>1 DEF Of, KeptRows, RowsInMonth
  <2>3. HourOf[r] \in CurrentHours(p) => Of(twin', r) = {}
    BY <1>1, <2>1 DEF Of, KeptRows
  <2>4. ~Written(p, r)'
    BY <1>1, <1>6, RowConst, ConstFacts DEF Written
  <2> QED
    BY <1>1, <1>5, <2>2, <2>3, <2>4 DEF TwinRow, Of
<1>8. TwinInv'
  BY <1>1, <1>3, <1>5, <1>7 DEF TwinInv, HourPublication
<1> QED
  BY <1>4, <1>8

LEMMA FoldWrite ==
    ASSUME BaseInv, BaseInv', AloneInv, FoldInv, NEW p \in Procs, WriteStream(p), OthersKept(p)
    PROVE  FoldInv'
<1> DEFINE new == UNION {FoldRow(r, loaded[p], at[p]) :
                    r \in {x \in Rows : StreamOf[x] = stream[p] /\ HourOf[x] \in CurrentHours(p)}}
<1>1. /\ UNCHANGED <<now, seen, live, todo, loaded, at, folded, overlap>>
      /\ pc[p] = "write" /\ twin' = twin \cup new
      /\ \/ pc'[p] = "write" /\ stream'[p] = stream[p] + 1
         \/ pc'[p] = "swap" /\ stream'[p] = stream[p] /\ ~(stream[p] < Streams)
  BY DEF WriteStream, Step, source, history, BaseInv, ShapeInv
<1> HIDE DEF new
<1> SUFFICES ASSUME ~overlap' PROVE (LiveRight /\ TwinInv /\ MarkInv /\ OneVersion)'
  BY DEF FoldInv
<1>2. LiveRight /\ TwinInv /\ MarkInv /\ OneVersion /\ ~overlap
  BY <1>1 DEF FoldInv
<1>3. \A q \in Procs : pc'[q] \in HourPublication => q = p
  BY <1>1, <1>2, AlonePublishing DEF HourPublication
<1>4. LiveRight' /\ MarkInv' /\ OneVersion'
  <2>1. \A r \in Rows : SeenStep(r)
    BY <1>1 DEF SeenStep
  <2>2. MarksKept
    BY <1>1 DEF MarksKept
  <2>3. \A q \in Procs : pc'[q] # "clear"
    BY <1>1, <1>3 DEF HourPublication
  <2> QED
    BY <1>1, <1>2, <2>1, <2>2, <2>3, LiveKept, MarkKept DEF OneVersion
<1>5. CurrentMonth(p)' = CurrentMonth(p) /\ CurrentHours(p)' = CurrentHours(p)
  BY <1>1, CurrentKept
<1>6. stream[p] \in 1..Streams /\ Streams \in Nat
  BY ConstFacts DEF BaseInv, ShapeInv
<1>7. ASSUME NEW r \in Rows, MonthOf[HourOf[r]] = CurrentMonth(p) PROVE TwinRow(p, r)'
  <2> DEFINE mine == StreamOf[r] = stream[p] /\ HourOf[r] \in CurrentHours(p)
  <2>1. Of(new, r) = IF mine THEN FoldRow(r, loaded[p], at[p]) ELSE {}
    <3>1. \A x \in Rows : \A e \in FoldRow(x, loaded[p], at[p]) : e.row = x
      BY DEF FoldRow
    <3> QED
      BY <3>1 DEF Of, new
  <2>2. Of(twin', r) = Of(twin, r) \cup Of(new, r)
    BY <1>1 DEF Of
  <2>3. TwinRow(p, r) /\ StreamOf[r] \in 1..Streams
    BY <1>1, <1>2, <1>7, RowConst DEF TwinInv
  <2>4. Written(p, r)' <=> (Written(p, r) \/ mine)
    BY <1>1, <1>5, <1>6, <2>3 DEF Written
  <2>5. mine => ~Written(p, r)
    BY <1>1, <1>6, <2>3 DEF Written
  <2>6. ASSUME Written(p, r)'
        PROVE  \E v \in 0..seen[r].version :
                 /\ Of(twin', r) = FoldAt(r, v, loaded[p], at[p])
                 /\ \A e \in Of(live, r) : e.version <= v
                 /\ StillSeen(p, r, v)
    <3>1. CASE mine
      <4>1. Of(twin, r) = {}
        BY <2>3, <2>5, <3>1 DEF TwinRow
      <4>2. Of(twin', r) = FoldAt(r, seen[r].version, loaded[p], at[p])
        BY <2>1, <2>2, <3>1, <4>1, FoldRowAt
      <4>3. seen[r].version \in 0..seen[r].version
        BY RowTypes
      <4>4. \A e \in Of(live, r) : e.version <= seen[r].version
        BY DEF Of, BaseInv, DataInv, ClockInv
      <4> QED
        BY <4>2, <4>3, <4>4 DEF StillSeen
    <3>2. CASE ~mine
      <4>1. Of(twin', r) = Of(twin, r) /\ Written(p, r)
        BY <2>1, <2>2, <2>4, <2>6, <3>2
      <4> QED
        BY <2>3, <4>1 DEF TwinRow
    <3> QED
      BY <3>1, <3>2
  <2>7. \A v : StillSeen(p, r, v)' <=> StillSeen(p, r, v)
    BY <1>1 DEF StillSeen
  <2>8. HourOf[r] \notin CurrentHours(p) => Of(twin', r) = Of(live, r)
    BY <2>1, <2>2, <2>3 DEF TwinRow
  <2>9. HourOf[r] \in CurrentHours(p) /\ ~Written(p, r)' => Of(twin', r) = {}
    BY <2>1, <2>2, <2>3, <2>4 DEF TwinRow
  <2>10. Of(twin, r)' = Of(twin', r) /\ Of(live, r)' = Of(live, r)
    BY <1>1 DEF Of
  <2>11. \A v : FoldAt(r, v, loaded[p], at[p])' = FoldAt(r, v, loaded[p], at[p])
    BY <1>1 DEF FoldAt
  <2> HIDE DEF mine
  <2> QED
    BY <1>1, <1>5, <2>6, <2>7, <2>8, <2>9, <2>10, <2>11 DEF TwinRow
<1>8. TwinInv'
  BY <1>1, <1>3, <1>5, <1>7 DEF TwinInv, HourPublication
<1> QED
  BY <1>4, <1>8

\* What the swap puts in place, row by row.
LEMMA SwapRows ==
    ASSUME BaseInv, FoldInv, ~overlap, NEW p \in Procs, Swap(p)
    PROVE  /\ \A e \in live' : e.row \in Rows /\ e \in Of(live', e.row)
           /\ \A r \in Rows :
                \/ HourOf[r] \notin CurrentHours(p) /\ Of(live', r) = Of(live, r)
                \/ /\ HourOf[r] \in CurrentHours(p)
                   /\ \E v \in 0..seen[r].version :
                        /\ Of(live', r) = FoldAt(r, v, loaded[p], at[p])
                        /\ \A e \in Of(live, r) : e.version <= v
                        /\ StillSeen(p, r, v)
<1> DEFINE m == CurrentMonth(p)
<1>1. live' = (live \ RowsInMonth(live, m)) \cup RowsInMonth(twin, m) /\ pc[p] = "swap"
  BY DEF Swap, Step
<1>2. TwinInv /\ (\A h \in CurrentHours(p) : MonthOf[h] = m)
  BY <1>1, CurrentFacts DEF FoldInv, HourPublication
<1> HIDE DEF m
<1>3. \A e \in live' : e.row \in Rows /\ e \in Of(live', e.row)
  BY <1>1, RowTypes DEF Of, RowsInMonth
<1>4. ASSUME NEW r \in Rows
      PROVE  \/ HourOf[r] \notin CurrentHours(p) /\ Of(live', r) = Of(live, r)
             \/ /\ HourOf[r] \in CurrentHours(p)
                /\ \E v \in 0..seen[r].version :
                     /\ Of(live', r) = FoldAt(r, v, loaded[p], at[p])
                     /\ \A e \in Of(live, r) : e.version <= v
                     /\ StillSeen(p, r, v)
  <2>1. CASE MonthOf[HourOf[r]] = m
    <3>1. Of(live', r) = Of(twin, r)
      BY <1>1, <2>1 DEF Of, RowsInMonth
    <3>2. TwinRow(p, r)
      BY <1>1, <1>2, <2>1 DEF TwinInv, m
    <3>3. HourOf[r] \in CurrentHours(p) => Written(p, r)
      BY <1>1 DEF Written
    <3> QED
      BY <3>1, <3>2, <3>3 DEF TwinRow
  <2>2. CASE MonthOf[HourOf[r]] # m
    <3>1. Of(live', r) = Of(live, r)
      BY <1>1, <2>2 DEF Of, RowsInMonth
    <3> QED
      BY <1>2, <2>2, <3>1
  <2> QED
    BY <2>1, <2>2
<1> QED
  BY <1>3, <1>4

\* A row that the fold put in carries its stamp and registry.
LEMMA SwapStamps ==
    ASSUME BaseInv, FoldInv, ~overlap, NEW p \in Procs, Swap(p), NEW e \in live',
           HourOf[e.row] \in CurrentHours(p)
    PROVE  e.fp = loaded[p] /\ e.at = at[p]
<1>1. e.row \in Rows /\ e \in Of(live', e.row)
  BY SwapRows
<1>2. PICK v : Of(live', e.row) = FoldAt(e.row, v, loaded[p], at[p])
  BY <1>1, SwapRows
<1> QED
  BY <1>1, <1>2 DEF FoldAt

LEMMA FoldSwap ==
    ASSUME BaseInv, BaseInv', AloneInv, FoldInv, NEW p \in Procs, Swap(p), OthersKept(p)
    PROVE  FoldInv'
<1>1. /\ UNCHANGED <<now, seen, twin, todo, loaded, at, folded, overlap>>
      /\ pc[p] = "swap" /\ pc'[p] = "clear"
  BY DEF Swap, Step, source, BaseInv, ShapeInv
<1> SUFFICES ASSUME ~overlap' PROVE (LiveRight /\ TwinInv /\ MarkInv /\ OneVersion)'
  BY DEF FoldInv
<1>2. LiveRight /\ TwinInv /\ MarkInv /\ OneVersion /\ ~overlap
  BY <1>1 DEF FoldInv
<1>3. \A q \in Procs : pc'[q] \in HourPublication => q = p
  BY <1>1, <1>2, AlonePublishing DEF HourPublication
<1>4. /\ \A e \in live' : e.row \in Rows /\ e \in Of(live', e.row)
      /\ \A r \in Rows :
           \/ HourOf[r] \notin CurrentHours(p) /\ Of(live', r) = Of(live, r)
           \/ /\ HourOf[r] \in CurrentHours(p)
              /\ \E v \in 0..seen[r].version :
                   /\ Of(live', r) = FoldAt(r, v, loaded[p], at[p])
                   /\ \A e \in Of(live, r) : e.version <= v
                   /\ StillSeen(p, r, v)
  BY <1>2, SwapRows
<1>5. \A e \in live' : HourOf[e.row] \in CurrentHours(p) => e.fp = loaded[p] /\ e.at = at[p]
  BY <1>2, SwapStamps
<1>6. \A e \in live' : HourOf[e.row] \notin CurrentHours(p) => e \in live
  BY <1>4 DEF Of
<1>7. LiveRight'
  <2> SUFFICES ASSUME NEW e \in live', NEW r \in Rows, HourOf[r] = HourOf[e.row]
               PROVE  seen[r].at > e.at - SETTLE \/ Of(live', r) = FoldRow(r, e.fp, e.at)
    BY <1>1 DEF LiveRight, Of, FoldRow
  <2>1. CASE HourOf[r] \in CurrentHours(p)
    <3>1. e.fp = loaded[p] /\ e.at = at[p]
      BY <1>5, <2>1
    <3>2. PICK v \in 0..seen[r].version : Of(live', r) = FoldAt(r, v, loaded[p], at[p]) /\ StillSeen(p, r, v)
      BY <1>4, <2>1
    <3>3. CASE v = seen[r].version
      BY <3>1, <3>2, <3>3, FoldRowAt
    <3>4. CASE v # seen[r].version
      BY <3>1, <3>2, <3>4 DEF StillSeen
    <3> QED
      BY <3>3, <3>4
  <2>2. CASE HourOf[r] \notin CurrentHours(p)
    BY <1>2, <1>4, <1>6, <2>2 DEF LiveRight
  <2> QED
    BY <2>1, <2>2
<1>8. OneVersion'
  <2> SUFFICES ASSUME NEW a \in live', NEW b \in live', a.row = b.row PROVE a = b
    BY DEF OneVersion
  <2>1. CASE HourOf[a.row] \in CurrentHours(p)
    <3>1. PICK v : Of(live', a.row) = FoldAt(a.row, v, loaded[p], at[p])
      BY <1>4, <2>1
    <3>2. a \in Of(live', a.row) /\ b \in Of(live', a.row)
      BY <1>4
    <3> QED
      BY <3>1, <3>2 DEF FoldAt
  <2>2. CASE HourOf[a.row] \notin CurrentHours(p)
    BY <1>2, <1>6, <2>2 DEF OneVersion
  <2> QED
    BY <2>1, <2>2
<1>9. TwinInv'
  BY <1>1, <1>3 DEF TwinInv, HourPublication
<1>10. ASSUME NEW r \in Rows, RowsIn(live', HourOf[r]) = {}, HourOf[r] \in CurrentHours(p), Yields(r)
       PROVE  /\ \A q \in Procs : seen[r].at > folded[q][HourOf[r]][1]
              /\ \A c \in todo[p] : c.key = HourOf[r] => seen[r].at > c.src
  <2>1. PICK v \in 0..seen[r].version : Of(live', r) = FoldAt(r, v, loaded[p], at[p]) /\ StillSeen(p, r, v)
    BY <1>4, <1>10
  <2>2. Of(live', r) = {}
    BY <1>10 DEF Of, RowsIn
  <2>3. v # seen[r].version
    BY <1>10, <2>1, <2>2 DEF FoldAt, Yields
  <2> QED
    BY <2>1, <2>3 DEF StillSeen
<1>11. ASSUME NEW h \in Hours, h \notin CurrentHours(p) PROVE RowsIn(live', h) = RowsIn(live, h)
  <2>1. \A e \in live : e.row \in Rows
    BY RowTypes
  <2> QED
    BY <1>4, <1>6, <1>11, <2>1 DEF RowsIn, Of
<1>12. ASSUME NEW c \in Current(p), NEW r \in Rows, HourOf[r] = c.key
       PROVE  RowsIn(live', c.key) # {} \/ seen[r].at > c.src \/ ~Yields(r)
  <2>1. c \in todo[p] /\ c.key \in CurrentHours(p)
    BY <1>12 DEF Current, CurrentHours
  <2> QED
    BY <1>10, <1>12, <2>1
<1>13. ASSUME NEW q \in Procs, NEW r \in Rows
       PROVE  RowsIn(live', HourOf[r]) # {} \/ seen[r].at > folded[q][HourOf[r]][1] \/ ~Yields(r)
  <2>1. CASE HourOf[r] \in CurrentHours(p)
    BY <1>10, <2>1
  <2>2. CASE HourOf[r] \notin CurrentHours(p)
    BY <1>2, <1>11, <2>2, RowConst DEF MarkInv
  <2> QED
    BY <2>1, <2>2
<1>14. MarkInv'
  <2>1. Current(p)' = Current(p) /\ \A r : Yields(r)' <=> Yields(r)
    BY <1>1, CurrentKept DEF Yields
  <2>2. \A h : RowsIn(live, h)' = RowsIn(live', h)
    BY DEF RowsIn
  <2>3. \A q \in Procs : pc'[q] = "clear" => q = p
    BY <1>3 DEF HourPublication
  <2> QED
    BY <1>1, <1>12, <1>13, <2>1, <2>2, <2>3 DEF MarkInv
<1> QED
  BY <1>7, <1>8, <1>9, <1>14

LEMMA FoldClear ==
    ASSUME BaseInv, BaseInv', AloneInv, FoldInv, NEW p \in Procs, ClearTwin(p), OthersKept(p)
    PROVE  FoldInv'
<1>1. /\ UNCHANGED <<now, seen, live, overlap>> /\ pc[p] = "clear" /\ pc'[p] \in {"mstale", "drop"}
      /\ folded'[p] = Mark(p)
  BY DEF ClearTwin, AfterHours, Step, source, history, BaseInv, ShapeInv
<1> SUFFICES ASSUME ~overlap' PROVE (LiveRight /\ TwinInv /\ MarkInv /\ OneVersion)'
  BY DEF FoldInv
<1>2. LiveRight /\ TwinInv /\ MarkInv /\ OneVersion /\ ~overlap
  BY <1>1 DEF FoldInv
<1>3. \A q \in Procs : pc'[q] \notin {"keep", "write", "swap", "clear"}
  BY <1>1, <1>2, AlonePublishing DEF HourPublication
<1>4. LiveRight' /\ OneVersion'
  <2>1. \A r \in Rows : SeenStep(r)
    BY <1>1 DEF SeenStep
  <2> QED
    BY <1>1, <1>2, <2>1, LiveKept DEF OneVersion
<1>5. TwinInv'
  BY <1>3 DEF TwinInv
<1>6. ASSUME NEW q \in Procs, NEW r \in Rows
      PROVE  RowsIn(live, HourOf[r]) # {} \/ seen[r].at > folded'[q][HourOf[r]][1] \/ ~Yields(r)
  <2>1. CASE q # p
    BY <1>2, <2>1 DEF OthersKept, MarkInv
  <2>2. CASE q = p
    <3>1. HourOf[r] \in Hours /\ pc[p] \in HourPublication
      BY <1>1, RowConst DEF HourPublication
    <3>2. CASE Mark(p)[HourOf[r]] = folded[p][HourOf[r]]
      BY <1>1, <1>2, <2>2, <3>2 DEF MarkInv
    <3>3. CASE \E c \in Current(p) : c.key = HourOf[r] /\ Mark(p)[HourOf[r]] = <<c.src, loaded[p]>>
      <4>1. PICK c \in Current(p) : c.key = HourOf[r] /\ Mark(p)[HourOf[r]] = <<c.src, loaded[p]>>
        BY <3>3
      <4>2. RowsIn(live, c.key) # {} \/ seen[r].at > c.src \/ ~Yields(r)
        BY <1>1, <1>2, <4>1 DEF MarkInv
      <4> QED
        BY <1>1, <2>2, <4>1, <4>2
    <3> QED
      BY <3>1, <3>2, <3>3, MarkFacts
  <2> QED
    BY <2>1, <2>2
<1>7. MarkInv'
  <2>1. \A r : Yields(r)' <=> Yields(r)
    BY <1>1 DEF Yields
  <2>2. \A h : RowsIn(live, h)' = RowsIn(live, h)
    BY <1>1 DEF RowsIn
  <2> QED
    BY <1>1, <1>3, <1>6, <2>1, <2>2 DEF MarkInv
<1> QED
  BY <1>4, <1>5, <1>7

LEMMA FoldStep ==
    ASSUME BaseInv, AloneInv, FoldInv, [Next]_vars
    PROVE  FoldInv'
<1>1. BaseInv' /\ (overlap => overlap')
  BY BaseStep, AloneStep
<1>2. CASE Tick \/ CloseHour \/ ChangeRegistry \/ (\E r \in Rows : Ingest(r) \/ Land(r)) \/ UNCHANGED vars
  BY <1>1, <1>2, FoldWorld
<1>3. ASSUME NEW p \in Procs, ProcStep(p) PROVE FoldInv'
  <2>1. OthersKept(p)
    BY <1>3, ProcSteps
  <2>2. CASE DropTwin(p) \/ KeepRows(p) \/ WriteStream(p) \/ Swap(p) \/ ClearTwin(p)
    BY <1>1, <2>1, <2>2, FoldDrop, FoldKeep, FoldWrite, FoldSwap, FoldClear
  <2>3. CASE ~(DropTwin(p) \/ KeepRows(p) \/ WriteStream(p) \/ Swap(p) \/ ClearTwin(p))
    BY <1>1, <1>3, <2>3, FoldControl
  <2> QED
    BY <2>2, <2>3
<1> QED
  BY <1>2, <1>3 DEF Next, ProcStep

-----------------------------------------------------------------------------
(* The months: a fold is stamped after every month it makes stale.         *)

\* While cycles do not meet, the process that steps is the only one in a cycle.
LEMMA AloneCycle ==
    ASSUME BaseInv, AloneInv, AloneInv', together => together', ~together',
           NEW p \in Procs, ProcStep(p), NEW q \in Procs, q # p
    PROVE  pc'[q] \notin InCycle
<1>1. OthersKept(p) /\ pc \in [Procs -> States]
  BY ProcSteps DEF BaseInv, ShapeInv
<1>2. pc[p] \in InCycle \/ pc'[p] \in InCycle
  BY <1>1 DEF ProcStep, Run, StartCycle, StartWithoutAssets, JobThrows, Crash, TwinBusy, ReadClock,
              ReadStaleHours, TwinFree, ReadStaleMonths, DropMonthTwin, FillMonth, SwapMonth, ClearMonthTwin,
              DropTwin, KeepRows, WriteStream, Swap, ClearTwin, Step,
              InCycle, HourJob, MonthJob, HourPublication, MonthPublication
<1> QED
  BY <1>1, <1>2 DEF OthersKept, AloneInv

\* What MonthInv says of one process.
MonthProc(p) ==
    /\ pc[p] = "clock" => \A m \in Months : months[m].at < now
    /\ pc[p] \in Stamping => \A m \in Months : months[m].at < at[p]
    /\ pc[p] = "mfill" => mtwin[Month(p)] = EmptyMonth
    /\ pc[p] = "mswap" => \/ mtwin[Month(p)].at = 0
                          \/ mtwin[Month(p)].rows = Summed(Month(p))

LEMMA SummedKept ==
    ASSUME UNCHANGED live, NEW m
    PROVE  /\ RowsInMonth(live, m)' = RowsInMonth(live, m) /\ Summed(m)' = Summed(m)
           /\ MonthIngest(m)' = MonthIngest(m)
<1>1. RowsInMonth(live, m)' = RowsInMonth(live, m)
  BY DEF RowsInMonth
<1> QED
  BY <1>1 DEF Summed, MonthIngest

LEMMA MonthWorld ==
    ASSUME BaseInv, MonthInv,
           Tick \/ CloseHour \/ ChangeRegistry \/ (\E r \in Rows : Ingest(r) \/ Land(r)) \/ UNCHANGED vars
    PROVE  MonthInv'
<1>1. UNCHANGED <<live, twin, months, mtwin, pc, loaded, at, todo, stream, folded, rebuilt,
                  overlap, together, emptied>>
  BY WorldFrame
<1>2. \/ now' = now /\ slept' = slept
      \/ now' = now + 1 /\ slept' = [p \in Procs |-> TRUE]
  BY DEF Tick, CloseHour, ChangeRegistry, Ingest, Land, vars, process
<1>3. \A p \in Procs : pc[p] = "down" => slept'[p]
  BY <1>2 DEF MonthInv
<1>4. now \in Nat /\ \A m \in Months : months[m].at \in Nat /\ months[m].at <= now
  BY RowTypes, MonthStamps
<1>5. \A p \in Procs : Month(p)' = Month(p) /\ Summed(Month(p))' = Summed(Month(p))
  <2>1. ASSUME NEW p \in Procs PROVE Month(p)' = Month(p)
    BY <1>1, CurrentKept
  <2> QED
    BY <1>1, <2>1 DEF Summed, RowsInMonth
<1>6. CASE now' = now /\ slept' = slept
  BY <1>1, <1>3, <1>5, <1>6 DEF MonthInv
<1>7. CASE now' = now + 1
  <2>1. \A m \in Months : months'[m].at < now'
    BY <1>1, <1>4, <1>7
  <2> QED
    BY <1>1, <1>3, <1>5, <2>1 DEF MonthInv
<1> QED
  BY <1>2, <1>6, <1>7

\* A step that ends a cycle leaves the process asleep.
LEMMA SleepAfter ==
    ASSUME BaseInv, NEW p \in Procs, ProcStep(p)
    PROVE  /\ pc'[p] # "down"
           /\ pc'[p] \in InCycle \/ ~slept'[p]
<1>1. pc \in [Procs -> States] /\ slept \in [Procs -> BOOLEAN]
  BY DEF BaseInv, ShapeInv
<1> USE <1>1 DEF InCycle, HourJob, MonthJob, HourPublication, MonthPublication
<1>2. CASE StartCycle(p) \/ StartWithoutAssets(p) \/ ReadClock(p) \/ TwinFree(p)
  BY <1>2 DEF StartCycle, StartWithoutAssets, ReadClock, TwinFree, Step
<1>3. CASE JobThrows(p) \/ Crash(p) \/ TwinBusy(p)
  BY <1>3 DEF JobThrows, Crash, TwinBusy, AfterHours, AfterMonths
<1>4. CASE ReadStaleHours(p) \/ ReadStaleMonths(p)
  BY <1>4 DEF ReadStaleHours, ReadStaleMonths, Step, AfterHours, AfterMonths
<1>5. CASE DropMonthTwin(p) \/ FillMonth(p) \/ SwapMonth(p) \/ ClearMonthTwin(p)
  BY <1>5 DEF DropMonthTwin, FillMonth, SwapMonth, ClearMonthTwin, Step, AfterMonths
<1>6. CASE DropTwin(p) \/ KeepRows(p) \/ WriteStream(p) \/ Swap(p) \/ ClearTwin(p)
  BY <1>6 DEF DropTwin, KeepRows, WriteStream, Swap, ClearTwin, Step, AfterHours
<1> QED
  BY <1>2, <1>3, <1>4, <1>5, <1>6 DEF ProcStep, Run

LEMMA MonthMine ==
    ASSUME BaseInv, BaseInv', MonthInv, NEW p \in Procs, ProcStep(p), together => together', ~together'
    PROVE  MonthProc(p)'
<1>1. pc \in [Procs -> States] /\ at \in [Procs -> Nat] /\ MonthProc(p)
  BY DEF BaseInv, ShapeInv, MonthInv, MonthProc
<1>2. CASE StartCycle(p)
  <2>1. /\ pc' = [pc EXCEPT ![p] = "clock"] /\ UNCHANGED <<now, months>> /\ ~Beside(p)
        /\ pc[p] \in {"idle", "down"} /\ (pc[p] = "idle" => slept[p])
    BY <1>2 DEF StartCycle, Step, tables
  <2>2. slept[p] /\ pc[p] \notin InCycle
    BY <2>1 DEF MonthInv, InCycle, HourJob, MonthJob, HourPublication, MonthPublication
  <2>3. \A q \in Procs : pc[q] \notin InCycle /\ slept[q]
    BY <2>1, <2>2, OtherFacts DEF Beside
  <2>4. \A m \in Months : months[m].at < now
    BY <2>3 DEF MonthInv
  <2>5. pc'[p] = "clock"
    BY <1>1, <2>1
  <2> QED
    BY <2>1, <2>4, <2>5 DEF MonthProc, Stamping, HourPublication
<1>3. CASE ReadClock(p)
  <2>1. pc[p] = "clock" /\ pc'[p] = "stale" /\ at'[p] = now /\ months' = months
    BY <1>1, <1>3 DEF ReadClock, Step, tables
  <2> QED
    BY <1>1, <2>1 DEF MonthProc
<1>4. CASE /\ pc'[p] \in Stamping /\ pc[p] \in Stamping /\ UNCHANGED months /\ at'[p] = at[p]
  BY <1>1, <1>4 DEF MonthProc, Stamping, HourPublication
<1>5. CASE pc'[p] \notin Stamping \cup {"clock", "mfill", "mswap"}
  BY <1>5 DEF MonthProc
<1>6. CASE DropMonthTwin(p)
  <2>1. pc[p] = "mdrop" /\ pc'[p] = "mfill" /\ mtwin' = [mtwin EXCEPT ![Month(p)] = EmptyMonth] /\ todo' = todo
    BY <1>1, <1>6 DEF DropMonthTwin, Step
  <2>2. Month(p)' = Month(p) /\ Month(p) \in Months
    BY <2>1, CurrentKept, MonthFacts DEF MonthPublication
  <2> QED
    BY <2>1, <2>2, MonthStamps DEF MonthProc, Stamping, HourPublication
<1>7. CASE FillMonth(p)
  <2>1. /\ pc[p] = "mfill" /\ pc'[p] = "mswap" /\ todo' = todo /\ live' = live
        /\ mtwin' = [mtwin EXCEPT ![Month(p)] =
                       [rows |-> mtwin[Month(p)].rows \cup Summed(Month(p)),
                        at |-> IF Summed(Month(p)) = {} THEN mtwin[Month(p)].at ELSE now]]
    BY <1>1, <1>7 DEF FillMonth, Step
  <2>2. Month(p)' = Month(p) /\ Month(p) \in Months
    BY <2>1, CurrentKept, MonthFacts DEF MonthPublication
  <2>3. mtwin[Month(p)].rows = {}
    BY <1>1, <2>1 DEF MonthProc, EmptyMonth
  <2>4. mtwin'[Month(p)].rows = Summed(Month(p))
    BY <2>1, <2>2, <2>3, MonthStamps
  <2>5. Summed(Month(p))' = Summed(Month(p))
    BY <2>1, <2>2 DEF Summed, RowsInMonth
  <2> QED
    BY <2>1, <2>2, <2>4, <2>5 DEF MonthProc, Stamping, HourPublication
<1>8. \/ StartCycle(p) \/ ReadClock(p) \/ DropMonthTwin(p) \/ FillMonth(p)
      \/ pc'[p] \in Stamping /\ pc[p] \in Stamping /\ UNCHANGED months /\ at'[p] = at[p]
      \/ pc'[p] \notin Stamping \cup {"clock", "mfill", "mswap"}
  <2> USE <1>1 DEF Stamping, HourPublication
  <2>1. CASE StartWithoutAssets(p) \/ JobThrows(p) \/ Crash(p) \/ TwinBusy(p)
    BY <2>1 DEF StartWithoutAssets, JobThrows, Crash, TwinBusy, Step, AfterHours, AfterMonths
  <2>2. CASE ReadStaleHours(p) \/ ReadStaleMonths(p) \/ TwinFree(p)
    BY <2>2 DEF ReadStaleHours, ReadStaleMonths, TwinFree, Step, AfterHours, AfterMonths, tables
  <2>3. CASE SwapMonth(p) \/ ClearMonthTwin(p)
    BY <2>3 DEF SwapMonth, ClearMonthTwin, Step, AfterMonths
  <2>4. CASE DropTwin(p) \/ KeepRows(p) \/ WriteStream(p) \/ Swap(p)
    BY <2>4 DEF DropTwin, KeepRows, WriteStream, Swap, Step
  <2>5. CASE ClearTwin(p)
    BY <2>5 DEF ClearTwin, Step, AfterHours
  <2> QED
    BY <2>1, <2>2, <2>3, <2>4, <2>5 DEF ProcStep, Run
<1> QED
  BY <1>2, <1>3, <1>4, <1>5, <1>6, <1>7, <1>8

LEMMA MonthStep ==
    ASSUME BaseInv, AloneInv, MonthInv, [Next]_vars
    PROVE  MonthInv'
<1>1. BaseInv' /\ AloneInv' /\ (together => together')
  BY BaseStep, AloneStep
<1>2. CASE Tick \/ CloseHour \/ ChangeRegistry \/ (\E r \in Rows : Ingest(r) \/ Land(r)) \/ UNCHANGED vars
  BY <1>2, MonthWorld
<1>3. ASSUME NEW p \in Procs, ProcStep(p) PROVE MonthInv'
  <2>1. OthersKept(p)
    BY <1>3, ProcSteps
  <2>2. pc'[p] # "down" /\ (pc'[p] \in InCycle \/ ~slept'[p])
    BY <1>3, SleepAfter
  <2>3. \A q \in Procs : pc'[q] = "down" => slept'[q]
    BY <2>1, <2>2 DEF OthersKept, MonthInv
  <2>4. ASSUME ~together', NEW q \in Procs PROVE MonthProc(q)'
    <3>1. CASE q = p
      BY <1>1, <1>3, <2>4, <3>1, MonthMine
    <3>2. CASE q # p
      <4>1. pc'[q] \notin InCycle
        BY <1>1, <1>3, <2>4, <3>2, AloneCycle
      <4> QED
        BY <4>1 DEF MonthProc, Stamping, InCycle, HourJob, MonthJob, HourPublication, MonthPublication
    <3> QED
      BY <3>1, <3>2
  <2> QED
    BY <2>2, <2>3, <2>4 DEF MonthInv, MonthProc
<1> QED
  BY <1>2, <1>3 DEF Next, ProcStep

\* A swap that leaves a month fresh has published nothing new in it.
LEMMA RightSwap ==
    ASSUME BaseInv, BaseInv', FoldInv, MonthInv, MonthIsRight, NEW p \in Procs, Swap(p)
    PROVE  MonthIsRight'
<1>1. /\ UNCHANGED <<months, overlap, together>> /\ emptied \subseteq emptied' /\ pc[p] = "swap"
      /\ \/ CurrentMonth(p) \in emptied'
         \/ \A h \in CurrentHours(p) : RowsIn(live, h) = {} \/ RowsIn(live', h) # {}
  BY DEF Swap, Step
<1> SUFFICES ASSUME NEW m \in Months, ~together, ~overlap, m \notin emptied', ~MonthStale(m)'
             PROVE  months[m].rows = Summed(m)'
  BY <1>1 DEF MonthIsRight
<1>2. /\ \A e \in live' : e.row \in Rows /\ e \in Of(live', e.row)
      /\ \A r \in Rows : HourOf[r] \notin CurrentHours(p) => Of(live', r) = Of(live, r)
  BY SwapRows
<1>3. \A h \in CurrentHours(p) : MonthOf[h] = CurrentMonth(p)
  BY <1>1, CurrentFacts DEF HourPublication
<1>4. ASSUME NEW h \in CurrentHours(p), MonthOf[h] = m PROVE RowsIn(live', h) = {} /\ RowsIn(live, h) = {}
  <2>1. ASSUME NEW e \in RowsIn(live', h) PROVE FALSE
    <3>1. e \in live' /\ HourOf[e.row] = h /\ e \in RowsInMonth(live, m)'
      BY <1>4, <2>1 DEF RowsIn, RowsInMonth
    <3>2. e.at = at[p]
      BY <3>1, SwapStamps
    <3>3. months[m].at < at[p]
      BY <1>1 DEF MonthInv, Stamping, HourPublication
    <3>4. e.at <= MonthIngest(m)' /\ MonthIngest(m)' \in Nat
      <4>1. now' \in Nat /\ \A x \in RowsInMonth(live, m)' : x.at \in Nat /\ x.at <= now'
        BY ConstFacts DEF RowsInMonth, BaseInv, DataInv, ClockInv, Folded
      <4> QED
        BY <3>1, <4>1, StampMax DEF MonthIngest
    <3>5. MonthIngest(m)' > months[m].at
      <4>1. months[m].at \in Nat /\ at[p] \in Nat
        BY MonthStamps DEF BaseInv, ShapeInv
      <4> QED
        BY <3>2, <3>3, <3>4, <4>1
    <3> QED
      BY <1>1, <3>5 DEF MonthStale
  <2>2. RowsIn(live', h) = {}
    BY <2>1
  <2> QED
    BY <1>1, <1>3, <1>4, <2>2
<1>5. RowsInMonth(live', m) = RowsInMonth(live, m)
  <2>1. ASSUME NEW e \in RowsInMonth(live', m) PROVE e \in RowsInMonth(live, m)
    <3>1. HourOf[e.row] \notin CurrentHours(p)
      BY <1>4, <2>1 DEF RowsIn, RowsInMonth
    <3> QED
      BY <1>2, <2>1, <3>1 DEF RowsInMonth, Of
  <2>2. ASSUME NEW e \in RowsInMonth(live, m) PROVE e \in RowsInMonth(live', m)
    <3>1. HourOf[e.row] \notin CurrentHours(p) /\ e.row \in Rows
      BY <1>4, <2>2, RowTypes DEF RowsIn, RowsInMonth
    <3> QED
      BY <1>2, <2>2, <3>1 DEF RowsInMonth, Of
  <2>3. RowsInMonth(live', m) \subseteq RowsInMonth(live, m)
    BY <2>1
  <2>4. RowsInMonth(live, m) \subseteq RowsInMonth(live', m)
    BY <2>2
  <2> QED
    BY <2>3, <2>4
<1>6. RowsInMonth(live, m)' = RowsInMonth(live, m)
  BY <1>5 DEF RowsInMonth
<1>7. Summed(m)' = Summed(m) /\ MonthIngest(m)' = MonthIngest(m)
  BY <1>6 DEF Summed, MonthIngest
<1>8. ~MonthStale(m)
  BY <1>1, <1>7 DEF MonthStale
<1> QED
  BY <1>1, <1>7, <1>8 DEF MonthIsRight

LEMMA RightStep ==
    ASSUME BaseInv, AloneInv, FoldInv, MonthInv, MonthIsRight, [Next]_vars
    PROVE  MonthIsRight'
<1>1. BaseInv' /\ (together => together') /\ (overlap => overlap')
  BY BaseStep, AloneStep
<1>2. CASE UNCHANGED <<live, months, emptied>>
  BY <1>1, <1>2, SummedKept DEF MonthIsRight, MonthStale
<1>3. ASSUME NEW p \in Procs, SwapMonth(p) PROVE MonthIsRight'
  <2>1. /\ UNCHANGED <<live, together, overlap>> /\ pc[p] = "mswap"
        /\ months' = [months EXCEPT ![Month(p)] = mtwin[Month(p)]] /\ emptied' = emptied \ {Month(p)}
    BY <1>3 DEF SwapMonth, Step
  <2> SUFFICES ASSUME NEW m \in Months, ~together, ~overlap, m \notin emptied', ~MonthStale(m)'
               PROVE  months'[m].rows = Summed(m)
    BY <2>1, SummedKept DEF MonthIsRight
  <2>2. CASE m = Month(p)
    <3>1. months'[m] = mtwin[m]
      BY <2>1, <2>2, MonthStamps
    <3>2. mtwin[m].at # 0
      BY <3>1 DEF MonthStale
    <3> QED
      BY <2>1, <2>2, <3>1, <3>2 DEF MonthInv
  <2>3. CASE m # Month(p)
    <3>1. months'[m] = months[m] /\ m \notin emptied
      BY <2>1, <2>3, MonthStamps
    <3>2. ~MonthStale(m)
      BY <2>1, <3>1, SummedKept DEF MonthStale
    <3> QED
      BY <3>1, <3>2 DEF MonthIsRight
  <2> QED
    BY <2>2, <2>3
<1>4. ASSUME NEW p \in Procs, Swap(p) PROVE MonthIsRight'
  BY <1>1, <1>4, RightSwap
<1>5. \/ UNCHANGED <<live, months, emptied>>
      \/ \E p \in Procs : SwapMonth(p) \/ Swap(p)
  <2>1. CASE Tick \/ CloseHour \/ ChangeRegistry \/ (\E r \in Rows : Ingest(r) \/ Land(r)) \/ UNCHANGED vars
    BY <2>1, WorldFrame
  <2>2. ASSUME NEW p \in Procs, ProcStep(p) PROVE UNCHANGED <<live, months, emptied>> \/ SwapMonth(p) \/ Swap(p)
    BY <2>2 DEF ProcStep, Run, StartCycle, StartWithoutAssets, JobThrows, Crash, TwinBusy, ReadClock,
              ReadStaleHours, TwinFree, ReadStaleMonths, DropMonthTwin, FillMonth, ClearMonthTwin,
              DropTwin, KeepRows, WriteStream, ClearTwin, tables, history
  <2> QED
    BY <2>1, <2>2 DEF Next, ProcStep
<1> QED
  BY <1>2, <1>3, <1>4, <1>5

-----------------------------------------------------------------------------
(* The theorems.                                                           *)

LEMMA InitInv == Init => IInv
<1> SUFFICES ASSUME Init PROVE IInv
  OBVIOUS
<1>1. BaseInv
  BY InitBase
<1>2. \A p \in Procs : pc[p] \in {"idle", "down"} /\ slept[p]
  BY DEF Init
<1>3. AloneInv
  BY <1>2 DEF AloneInv, InCycle, HourJob, MonthJob, HourPublication, MonthPublication
<1>4. FoldInv
  <2>1. LiveRight /\ OneVersion
    BY DEF Init, LiveRight, OneVersion
  <2>2. TwinInv
    BY <1>2 DEF TwinInv
  <2>3. \A r \in Rows : seen[r].at \in Nat /\ HourOf[r] \in Hours
    BY <1>1, RowTypes, RowConst
  <2>4. \A p \in Procs, h \in Hours : folded[p][h][1] = -1
    BY DEF Init, NoMark
  <2>5. MarkInv
    BY <1>2, <2>3, <2>4 DEF MarkInv
  <2> QED
    BY <2>1, <2>2, <2>5 DEF FoldInv
<1>5. \A m \in Months : months[m].at = 0
  BY DEF Init, EmptyMonth
<1>6. MonthInv
  BY <1>2, <1>5 DEF MonthInv, Init, Stamping, HourPublication
<1>7. MonthIsRight
  BY <1>5 DEF MonthIsRight, MonthStale
<1> QED
  BY <1>1, <1>3, <1>4, <1>6, <1>7 DEF IInv

LEMMA NextInv == IInv /\ [Next]_vars => IInv'
BY BaseStep, AloneStep, FoldStep, MonthStep, RightStep DEF IInv

(* The inductive invariant of the derivations worker: types and stamps, the record of   *)
(* meetings, what published rows, a twin in the making and remembered marks tell of the *)
(* source, and what the months were summed from.                                        *)
THEOREM DerivationsInvariant == Spec => []IInv
<1> QED
  BY InitInv, NextInv, PTL DEF Spec

(* Tables and processes stay in their domains, and revenue_events never holds two       *)
(* versions of a row, although every publication may be cut short.                      *)
THEOREM DerivationsTables == Spec => []TablesSound
<1>1. IInv => TablesSound
  BY BaseType DEF IInv, FoldInv, TablesSound, OneVersion
<1> QED
  BY <1>1, DerivationsInvariant, PTL

LEMMA UnmarkedRight ==
    ASSUME BaseInv, FoldInv, ~overlap, NEW h \in Hours, ~Marked(h, registry)
    PROVE  Held(h) = Fold(h, registry)
<1>1. /\ RowsIn(live, h) # {} /\ ~(SrcIngest(h) > DerComputed(h) - SETTLE)
      /\ \A e \in RowsIn(live, h) : e.fp = registry
  BY DEF Marked
<1>2. PICK d \in RowsIn(live, h) : DerComputed(h) = d.at
  BY <1>1, HourMarks
<1>3. d \in live /\ HourOf[d.row] = h /\ d.fp = registry /\ d.at \in Nat
  BY <1>1, <1>2, RowTypes DEF RowsIn
<1>4. ASSUME NEW r \in Rows, HourOf[r] = h PROVE Of(live, r) = FoldRow(r, registry, d.at)
  <2>1. seen[r].at <= SrcIngest(h) /\ SrcIngest(h) \in Nat /\ seen[r].at \in Nat
    BY <1>4, HourMarks, RowTypes
  <2>2. ~(seen[r].at > d.at - SETTLE)
    BY <1>1, <1>2, <1>3, <2>1, ConstFacts
  <2> QED
    BY <1>3, <1>4, <2>2 DEF FoldInv, LiveRight
<1>5. \A e \in RowsIn(live, h) : e.row \in Rows /\ HourOf[e.row] = h /\ e \in Of(live, e.row)
  BY RowTypes DEF RowsIn, Of
<1>6. ASSUME NEW e \in RowsIn(live, h) PROVE <<e.row, e.version, e.fp>> \in Fold(h, registry)
  <2>1. e \in FoldRow(e.row, registry, d.at)
    BY <1>4, <1>5
  <2>2. e.version = seen[e.row].version /\ e.fp = registry /\ FoldRow(e.row, registry, now) # {}
    <3>1. /\ ~(seen[e.row].version = 0 \/ <<e.row, seen[e.row].version>> \in Void)
          /\ e = [row |-> e.row, version |-> seen[e.row].version, fp |-> registry, at |-> d.at]
      BY <2>1 DEF FoldRow
    <3>2. FoldRow(e.row, registry, now) # {}
      BY <3>1 DEF FoldRow
    <3>3. e.version = seen[e.row].version /\ e.fp = registry
      BY <3>1
    <3> QED
      BY <3>2, <3>3
  <2> QED
    BY <1>5, <2>2 DEF Fold
<1>7. ASSUME NEW r \in Rows, HourOf[r] = h, FoldRow(r, registry, now) # {}
      PROVE  <<r, seen[r].version, registry>> \in Held(h)
  <2> DEFINE e == [row |-> r, version |-> seen[r].version, fp |-> registry, at |-> d.at]
  <2>1. e \in FoldRow(r, registry, d.at)
    BY <1>7 DEF FoldRow
  <2>2. e \in RowsIn(live, h)
    BY <1>4, <1>7, <2>1 DEF Of, RowsIn
  <2>3. <<r, seen[r].version, registry>> = <<e.row, e.version, e.fp>>
    OBVIOUS
  <2> HIDE DEF e
  <2> QED
    BY <2>2, <2>3 DEF Held
<1> QED
  BY <1>6, <1>7 DEF Held, Fold

(* An hour that the staleness test passes over holds what a fresh fold would give, and  *)
(* an hour skipped because a process remembers it empty folds to nothing.               *)
THEOREM DerivationsPassedOver == Spec => []PassedOverIsRight
<1>1. ASSUME IInv PROVE PassedOverIsRight
  <2>1. UnmarkedIsRight
    BY <1>1, UnmarkedRight DEF UnmarkedIsRight, IInv
  <2>2. ASSUME NEW p \in Procs, NEW h \in Hours, Remembered(p, h), ~overlap
        PROVE  Fold(h, registry) = {}
    <3>1. RowsIn(live, h) = {} /\ folded[p][h][1] = SrcIngest(h)
      BY <2>2 DEF Remembered, EmptyMark
    <3>2. ASSUME NEW r \in Rows, HourOf[r] = h PROVE FoldRow(r, registry, now) = {}
      <4>1. seen[r].at <= SrcIngest(h) /\ SrcIngest(h) \in Nat /\ seen[r].at \in Nat
        BY <1>1, <3>2, HourMarks, RowTypes DEF IInv
      <4>2. ~(seen[r].at > folded[p][h][1])
        BY <3>1, <4>1
      <4>3. ~Yields(r)
        BY <1>1, <2>2, <3>1, <3>2, <4>2 DEF IInv, FoldInv, MarkInv
      <4> QED
        BY <4>3 DEF Yields, FoldRow
    <3> QED
      BY <3>2 DEF Fold
  <2> QED
    BY <2>1, <2>2 DEF PassedOverIsRight, RememberedIsEmpty
<1> QED
  BY <1>1, DerivationsInvariant, PTL

(* A month that accountRevenueStaleMonthsSql passes over is summed from the revenue     *)
(* rows published now, while cycles do not meet and no hour folded to nothing.          *)
THEOREM DerivationsMonths == Spec => []MonthIsRight
<1>1. IInv => MonthIsRight
  BY DEF IInv
<1> QED
  BY <1>1, DerivationsInvariant, PTL

(* No step of any process empties an hour of revenue_events unless a newer version of   *)
(* its rows folds to nothing: readers never see a gap.                                  *)
THEOREM DerivationsNoGap == Spec => NoGap
<1> DEFINE Gapless == \A e \in live : RowsIn(live', HourOf[e.row]) = {} =>
                        overlap \/ \E v \in e.version..seen[e.row].version : <<e.row, v>> \in Void
<1>1. ASSUME IInv, [Next]_vars PROVE Gapless
  <2> SUFFICES ASSUME NEW e \in live, RowsIn(live', HourOf[e.row]) = {}, ~overlap
               PROVE  \E v \in e.version..seen[e.row].version : <<e.row, v>> \in Void
    OBVIOUS
  <2>1. e.row \in Rows /\ e.version \in Nat \ {0} /\ e \in Of(live, e.row) /\ seen[e.row].version \in Nat
    BY <1>1, RowTypes DEF IInv, Of
  <2>2. live' # live /\ Of(live', e.row) = {}
    BY DEF RowsIn, Of
  <2>3. PICK p \in Procs : Swap(p)
    <3>1. CASE Tick \/ CloseHour \/ ChangeRegistry \/ (\E r \in Rows : Ingest(r) \/ Land(r)) \/ UNCHANGED vars
      BY <2>2, <3>1, WorldFrame
    <3>2. ASSUME NEW p \in Procs, ProcStep(p) PROVE live' = live \/ Swap(p)
      BY <3>2 DEF ProcStep, Run, StartCycle, StartWithoutAssets, JobThrows, Crash, TwinBusy, ReadClock,
              ReadStaleHours, TwinFree, ReadStaleMonths, DropMonthTwin, FillMonth, SwapMonth, ClearMonthTwin,
              DropTwin, KeepRows, WriteStream, ClearTwin, tables
    <3> QED
      BY <1>1, <2>2, <3>1, <3>2 DEF Next, ProcStep
  <2>4. PICK v \in 0..seen[e.row].version :
            /\ Of(live', e.row) = FoldAt(e.row, v, loaded[p], at[p])
            /\ \A x \in Of(live, e.row) : x.version <= v
    BY <1>1, <2>1, <2>2, <2>3, SwapRows DEF IInv
  <2>5. e.version <= v
    BY <2>1, <2>4
  <2>6. <<e.row, v>> \in Void /\ v \in e.version..seen[e.row].version
    <3>1. v # 0
      BY <2>1, <2>5
    <3>2. FoldAt(e.row, v, loaded[p], at[p]) = {}
      BY <2>2, <2>4
    <3>3. <<e.row, v>> \in Void
      BY <3>1, <3>2 DEF FoldAt
    <3> QED
      BY <2>1, <2>5, <3>3
  <2> QED
    BY <2>6
<1> HIDE DEF Gapless
<1>2. IInv /\ [Next]_vars => [Gapless]_vars
  BY <1>1
<1>3. Spec => [][Gapless]_vars
  BY <1>2, DerivationsInvariant, PTL DEF Spec
<1> QED
  BY <1>3 DEF NoGap, Gapless
=============================================================================
