------------------------ MODULE PricePublisherProofs ------------------------
(***************************************************************************)
(* Proofs about PricePublisher, and about PriceRollback which composes it  *)
(* with the operator's rollback, for every set of disjoint ranges, every   *)
(* chain, every batch size and every number of crashes and rollbacks.      *)
(***************************************************************************)
EXTENDS PriceRollback, FiniteSetTheorems, TLAPS

\* What the pipelines keep at all times, a rollback beside them or not.
Core ==
  /\ TypeOK /\ PhaseInv /\ StartInv /\ HeldInv /\ OrderInv /\ FreshInv
  /\ PendingInv /\ CoverInv /\ LiveInv /\ RangeInv /\ WholeRangePriced

\* What a reader and a restart may rely on, at the heights S.
Healthy(S) ==
  \A h \in S :
    /\ Seen("blocks", h) /\ h \notin Quiet =>
         Seen("prices", h) /\ Seen("trade_volume_by_account", h)
    /\ \A p \in Pipelines :
         h \in Span(p) /\ h <= checkpoint[p] /\ (p = Live => origin <= h) => Seen("blocks", h)

\* Pipelines are disjoint intervals of heights.
LEMMA SpanFacts ==
  /\ Heights \subseteq Nat
  /\ Live \in Pipelines
  /\ \A b \in Backfills : b \in Pipelines /\ b # Live
  /\ \A p \in Pipelines : p # Live => p \in Backfills
  /\ \A p \in Pipelines : /\ From(p) \in Nat
                          /\ To(p) \in Nat
                          /\ From(p) <= To(p)
                          /\ Span(p) \subseteq Heights
                          /\ Span(p) = From(p)..To(p)
  /\ \A p, q \in Pipelines : \A h \in Span(p) : h \in Span(q) => p = q
<1>1. \A p \in Pipelines : From(p) \in Nat /\ To(p) \in Nat /\ From(p) <= To(p)
  BY SpansAssumption DEF From, To
<1>2. \A p \in Pipelines : Span(p) \subseteq Heights /\ Span(p) = From(p)..To(p)
  BY DEF Span, Heights
<1>3. Heights \subseteq Nat
  BY <1>1 DEF Heights, Span
<1>4. ASSUME NEW p \in Pipelines, NEW q \in Pipelines, NEW h \in Span(p), h \in Span(q)
      PROVE  p = q
  <2>1. From(p) <= h /\ h <= To(p) /\ From(q) <= h /\ h <= To(q) /\ h \in Nat
    BY <1>1, <1>4 DEF Span
  <2>2. p # q => To(p) < From(q) \/ To(q) < From(p)
    BY SpansAssumption
  <2> QED
    BY <1>1, <2>1, <2>2
<1>5. Live \in Pipelines /\ \A b \in Backfills : b \in Pipelines
  BY DEF Pipelines
<1>6. \A b \in Backfills : b # Live
  BY <1>1, <1>5, SpansAssumption
<1>7. \A p \in Pipelines : p # Live => p \in Backfills
  BY DEF Pipelines
<1> QED
  BY <1>1, <1>2, <1>3, <1>4, <1>5, <1>6, <1>7

\* The order of the tables, spelled out.
LEMMA OrderFacts ==
  /\ Len(FlushOrder) = 4
  /\ FlushOrder[1] = "prices"
  /\ FlushOrder[2] = "trade_volume_by_account"
  /\ FlushOrder[3] = "runtime_upgrades"
  /\ FlushOrder[4] = "blocks"
  /\ \A i \in 1..4 : FlushOrder[i] \in Tables
BY DEF FlushOrder, Tables

\* A chunk is taken from the bottom of what is held.
LEMMA ChunkFacts ==
  ASSUME NEW S, S \subseteq Nat
  PROVE  /\ Chunk(S) \subseteq S
         /\ \A h \in Chunk(S) : \A g \in S : g < h => g \in Chunk(S)
<1>1. ASSUME NEW h \in Chunk(S), NEW g \in S, g < h PROVE g \in Chunk(S)
  <2> DEFINE Below(k) == {x \in S : x < k}
  <2>1. h \in Nat /\ g \in Nat /\ Cardinality(Below(h)) < BATCH_SIZE
    BY <1>1 DEF Chunk
  <2>a. 0 \in Int /\ h \in Int
    BY <2>1
  <2>b. IsFiniteSet(0..h)
    BY <2>a, FS_Interval
  <2>c. \A x \in Below(h) : x \in 0..h
    BY <2>1
  <2>2. IsFiniteSet(0..h) /\ Below(h) \subseteq 0..h
    BY <2>b, <2>c
  <2>3. IsFiniteSet(Below(h))
    BY <2>2, FS_Subset
  <2>d. ASSUME NEW x \in S, x < g PROVE x < h
    <3>1. x \in Nat
      OBVIOUS
    <3> QED
      BY <1>1, <2>1, <2>d, <3>1
  <2>4. Below(g) \subseteq Below(h)
    BY <2>d
  <2>5. Cardinality(Below(g)) <= Cardinality(Below(h)) /\ IsFiniteSet(Below(g))
    BY <2>3, <2>4, FS_Subset
  <2>6. Cardinality(Below(g)) \in Nat /\ Cardinality(Below(h)) \in Nat
    BY <2>3, <2>5, FS_CardinalityType
  <2>7. Cardinality(Below(g)) < BATCH_SIZE
    BY <2>1, <2>5, <2>6, PublisherBoundsAssumption
  <2> QED
    BY <2>7 DEF Chunk
<1> QED
  BY <1>1 DEF Chunk
-----------------------------------------------------------------------------
(* What the steps do, point by point.                                      *)

Frame(p) ==
  \A q \in Pipelines : q # p =>
    /\ pc'[q] = pc[q] /\ pos'[q] = pos[q] /\ buf'[q] = buf[q]
    /\ new'[q] = new[q] /\ tbl'[q] = tbl[q] /\ checkpoint'[q] = checkpoint[q]

SameDb == rows' = rows /\ ohlc' = ohlc /\ checkpoint' = checkpoint

BeginFx(p) ==
  /\ pc[p] = "off" /\ pc'[p] \in {"index", "exit"}
  /\ pc'[p] = "index" => ~(pos'[p] > To(p))
  /\ buf'[p] = buf[p] /\ new'[p] = new[p] /\ tbl'[p] = tbl[p]
  /\ SameDb
  /\ p = Live => /\ LiveStart(pos'[p])
                 /\ pos'[p] \in From(Live)..To(Live) + 1
                 /\ origin' = IF \E g \in Span(Live) : Seen("blocks", g) THEN origin ELSE pos'[p]
  /\ p # Live => pos'[p] = BackfillStart(p) /\ origin' = origin

IndexFx(p) ==
  /\ pc[p] = "index" /\ pc'[p] = "index"
  /\ pos[p] <= To(p) /\ pos'[p] = pos[p] + 1
  /\ \A t \in Tables : buf'[p][t] = IF Adds(p, t) THEN buf[p][t] \cup {pos[p]} ELSE buf[p][t]
  /\ new'[p] = new[p] /\ tbl'[p] = tbl[p]
  /\ SameDb /\ origin' = origin

EndFx(p) ==
  /\ pc[p] = "index" /\ pc'[p] = "probe" /\ BatchPublishes(p)
  /\ pos'[p] = pos[p] /\ buf'[p] = buf[p] /\ new'[p] = new[p] /\ tbl'[p] = tbl[p]
  /\ SameDb /\ origin' = origin

ProbeFx(p) ==
  /\ pc[p] = "probe"
  /\ new'[p] = {h \in Chunk(buf[p][Table(p)]) : ~Seen(Table(p), h)}
  /\ \/ pc'[p] = "insert"
     \/ pc'[p] = "probe" /\ new'[p] = {}
  /\ \A t \in Tables :
       buf'[p][t] = IF t = Table(p) THEN buf[p][t] \ Chunk(buf[p][t]) ELSE buf[p][t]
  /\ pos'[p] = pos[p] /\ tbl'[p] = tbl[p]
  /\ SameDb /\ origin' = origin

InsertFx(p) ==
  /\ pc[p] = "insert" /\ pc'[p] = "probe"
  /\ new'[p] = {}
  /\ \A t \in Tables : \A h \in Heights :
       rows'[t][h] = IF t = Table(p) /\ h \in new[p] THEN More(rows[t][h]) ELSE rows[t][h]
  /\ \A h \in Heights :
       ohlc'[h] = IF Table(p) = "prices" /\ h \in new[p] THEN More(ohlc[h]) ELSE ohlc[h]
  /\ checkpoint' = checkpoint
  /\ pos'[p] = pos[p] /\ buf'[p] = buf[p] /\ tbl'[p] = tbl[p]
  /\ origin' = origin

NextTableFx(p) ==
  /\ pc[p] = "probe" /\ pc'[p] = "probe"
  /\ buf[p][Table(p)] = {}
  /\ tbl[p] < 4 /\ tbl'[p] = tbl[p] + 1
  /\ pos'[p] = pos[p] /\ buf'[p] = buf[p] /\ new'[p] = new[p]
  /\ SameDb /\ origin' = origin

FlushDoneFx(p) ==
  /\ pc[p] = "probe" /\ pc'[p] = "save"
  /\ buf[p][Table(p)] = {}
  /\ tbl[p] = 4 /\ tbl'[p] = tbl[p]
  /\ pos'[p] = pos[p] /\ buf'[p] = buf[p] /\ new'[p] = new[p]
  /\ SameDb /\ origin' = origin

SaveFx(p) ==
  /\ pc[p] = "save" /\ pc'[p] \in {"index", "exit"}
  /\ checkpoint'[p] = pos[p] - 1
  /\ rows' = rows /\ ohlc' = ohlc
  /\ pos'[p] = pos[p] /\ buf'[p] = buf[p] /\ new'[p] = new[p] /\ tbl'[p] = 1
  /\ origin' = origin

FinishFx(p) ==
  /\ pc[p] = "exit" /\ pc'[p] = "done"
  /\ pos'[p] = pos[p] /\ buf'[p] = buf[p] /\ new'[p] = new[p] /\ tbl'[p] = tbl[p]
  /\ SameDb /\ origin' = origin

CrashFx(p) ==
  /\ pc[p] \notin {"off", "done"} /\ pc'[p] = "off"
  /\ buf'[p] = NoRows /\ new'[p] = {} /\ tbl'[p] = 1
  /\ SameDb /\ origin' = origin

Effect(p) ==
  /\ Frame(p)
  /\ \/ BeginFx(p) \/ IndexFx(p) \/ EndFx(p) \/ ProbeFx(p) \/ InsertFx(p)
     \/ NextTableFx(p) \/ FlushDoneFx(p) \/ SaveFx(p) \/ FinishFx(p) \/ CrashFx(p)

\* Every step has one of these effects, on one pipeline.
LEMMA Effects ==
  ASSUME TypeOK, Next
  PROVE  \E p \in Pipelines : Effect(p)
<1>1. PICK p \in Pipelines : Begin(p) \/ Step(p) \/ Crash(p)
  BY DEF Next
<1> USE DEF TypeOK, Goto, Effect, Frame, SameDb, db, memory
<1>2. CASE p = Live /\ BeginLive
  BY <1>2, SpanFacts, ZenonT(60) DEF BeginLive, BeginFx
<1>3. CASE p # Live /\ BeginBackfill(p)
  BY <1>3 DEF BeginBackfill, BeginFx
<1>4. CASE IndexBlock(p)
  BY <1>4 DEF IndexBlock, IndexFx
<1>5. CASE EndBatch(p)
  BY <1>5 DEF EndBatch, EndFx
<1>6. CASE Probe(p)
  <2>1. Table(p) \in Tables
    BY OrderFacts DEF Table
  <2> QED
    BY <1>6, <2>1 DEF Probe, ProbeFx, Unseen
<1>7. CASE Insert(p)
  <2>1. Table(p) \in Tables
    BY OrderFacts DEF Table
  <2> QED
    BY <1>7, <2>1 DEF Insert, InsertFx
<1>8. CASE NextTable(p)
  BY <1>8, OrderFacts DEF NextTable, NextTableFx
<1>9. CASE FlushDone(p)
  BY <1>9, OrderFacts DEF FlushDone, FlushDoneFx
<1>10. CASE SaveCheckpoint(p)
  BY <1>10 DEF SaveCheckpoint, SaveFx
<1>11. CASE Finish(p)
  BY <1>11 DEF Finish, FinishFx
<1>12. CASE Crash(p)
  BY <1>12 DEF Crash, CrashFx
<1> QED
  BY <1>1, <1>2, <1>3, <1>4, <1>5, <1>6, <1>7, <1>8, <1>9, <1>10, <1>11, <1>12
  DEF Begin, Step
\* Every step keeps the variables in their types.
LEMMA TypeStep == Core /\ [Next]_vars => TypeOK'
<1> SUFFICES ASSUME Core, [Next]_vars PROVE TypeOK'
  OBVIOUS
<1>0. TypeOK
  BY DEF Core
<1> USE <1>0, SpanFacts, OrderFacts, PublisherBoundsAssumption DEF TypeOK
<1>1. CASE BeginLive
  <2>1. PICK h \in From(Live)..To(Live) + 1 :
          /\ Goto(Live, "off", IF h > To(Live) THEN "exit" ELSE "index")
          /\ pos' = [pos EXCEPT ![Live] = h]
          /\ origin' = IF \E g \in Span(Live) : Seen("blocks", g) THEN origin ELSE h
          /\ UNCHANGED <<db, first, buf, tbl, new, faults>>
    BY <1>1 DEF BeginLive
  <2>2. h \in Nat /\ h \in Span(Live) \cup {To(Live) + 1}
    OBVIOUS
  <2> QED
    BY <2>1, <2>2 DEF Goto, db
<1>2. ASSUME NEW p \in Pipelines, BeginBackfill(p) PROVE TypeOK'
  <2>1. BackfillStart(p) \in Nat
    BY SMTT(30) DEF BackfillStart, ResumeHead, NoCheckpoint
  <2> QED
    BY <1>2, <2>1 DEF BeginBackfill, Goto, db
<1>3. ASSUME NEW p \in Pipelines, IndexBlock(p) PROVE TypeOK'
  <2>1. pos[p] \in Heights
    <3>1. Indexing(p) /\ pc[p] # "off"
      BY <1>3 DEF IndexBlock, Indexing
    <3>2. From(p) <= pos[p]
      BY <1>3, <3>1 DEF Core, StartInv
    <3> QED
      BY <1>3, <3>2 DEF IndexBlock
  <2> DEFINE added == [t \in Tables |-> IF Adds(p, t) THEN buf[p][t] \cup {pos[p]} ELSE buf[p][t]]
  <2>a. \A t \in Tables : buf[p][t] \in SUBSET Heights
    OBVIOUS
  <2>b. ASSUME NEW t \in Tables
        PROVE  (IF Adds(p, t) THEN buf[p][t] \cup {pos[p]} ELSE buf[p][t]) \in SUBSET Heights
    BY <2>1, <2>a
  <2>2. added \in [Tables -> SUBSET Heights]
    BY <2>b, Zenon
  <2>3. buf' = [buf EXCEPT ![p] = added]
    BY <1>3 DEF IndexBlock
  <2> HIDE DEF added
  <2>4. buf' \in [Pipelines -> [Tables -> SUBSET Heights]]
    BY <2>2, <2>3
  <2>5. first' \in [Pipelines -> BOOLEAN]
    BY <1>3, Zenon DEF IndexBlock
  <2>6. pos' \in [Pipelines -> Nat]
    BY <1>3 DEF IndexBlock
  <2> QED
    BY <1>3, <2>4, <2>5, <2>6 DEF IndexBlock, db
<1>4. ASSUME NEW p \in Pipelines, EndBatch(p) \/ FlushDone(p) \/ Finish(p) PROVE TypeOK'
  BY <1>4 DEF EndBatch, FlushDone, Finish, Goto, db, memory
<1>5. ASSUME NEW p \in Pipelines, Probe(p) PROVE TypeOK'
  <2>1. Table(p) \in Tables
    BY DEF Table
  <2>2. Chunk(buf[p][Table(p)]) \subseteq buf[p][Table(p)] /\ buf[p][Table(p)] \subseteq Heights
    BY <2>1 DEF Chunk
  <2>3. new' \in [Pipelines -> SUBSET Heights]
    BY <1>5, <2>2 DEF Probe, Unseen
  <2>4. buf' \in [Pipelines -> [Tables -> SUBSET Heights]]
    BY <1>5, <2>1, SMTT(30) DEF Probe
  <2> QED
    BY <1>5, <2>3, <2>4 DEF Probe, Goto, db
<1>6. ASSUME NEW p \in Pipelines, Insert(p) PROVE TypeOK'
  <2>1. Table(p) \in Tables
    BY DEF Table
  <2>2. \A n \in 0..Many : More(n) \in 0..Many
    BY DEF More, Many
  <2>3. rows' \in [Tables -> [Heights -> 0..Many]]
    BY <1>6, <2>1, <2>2, ZenonT(60) DEF Insert
  <2>4. ohlc' \in [Heights -> 0..Many]
    BY <1>6, <2>2 DEF Insert
  <2> QED
    BY <1>6, <2>3, <2>4 DEF Insert, Goto
<1>7. ASSUME NEW p \in Pipelines, NextTable(p) PROVE TypeOK'
  <2>0. tbl[p] \in 1..4 /\ tbl[p] < 4
    BY <1>7 DEF NextTable
  <2> HIDE <1>0, SpanFacts, OrderFacts DEF TypeOK
  <2>1. tbl[p] + 1 \in 1..4
    BY <2>0
  <2> USE <1>0, SpanFacts, OrderFacts DEF TypeOK
  <2>2. tbl' \in [Pipelines -> 1..Len(FlushOrder)]
    BY <1>7, <2>1 DEF NextTable
  <2> QED
    BY <1>7, <2>2 DEF NextTable, db
<1>8. ASSUME NEW p \in Pipelines, SaveCheckpoint(p) PROVE TypeOK'
  <2>1. checkpoint' \in [Pipelines -> Nat \cup {NoCheckpoint}]
    <3>1. pos[p] - 1 \in Nat \cup {NoCheckpoint}
      BY DEF NoCheckpoint
    <3> QED
      BY <1>8, <3>1 DEF SaveCheckpoint
  <2>2. tbl' \in [Pipelines -> 1..Len(FlushOrder)]
    BY <1>8 DEF SaveCheckpoint
  <2>3. pc' \in [Pipelines -> {"off", "index", "probe", "insert", "save", "exit", "done"}]
    BY <1>8 DEF SaveCheckpoint, Goto
  <2> QED
    BY <1>8, <2>1, <2>2, <2>3 DEF SaveCheckpoint
<1>9. ASSUME NEW p \in Pipelines, Crash(p) PROVE TypeOK'
  <2>1. NoRows \in [Tables -> SUBSET Heights]
    BY DEF NoRows
  <2> QED
    BY <1>9, <2>1 DEF Crash, db
<1>10. CASE UNCHANGED vars
  BY <1>10 DEF vars, db, memory
<1> QED
  BY <1>1, <1>2, <1>3, <1>4, <1>5, <1>6, <1>7, <1>8, <1>9, <1>10 DEF Next, Begin, Step
-----------------------------------------------------------------------------
(* The parts of the invariant, one by one.                                 *)

\* What is visible stays visible, and a step changes only its own heights.
LEMMA SeenGrows ==
  ASSUME Core, NEW p \in Pipelines, Effect(p), NEW t \in Tables, NEW h \in Heights
  PROVE  /\ Seen(t, h) => Seen(t, h)'
         /\ h \notin Span(p) => rows'[t][h] = rows[t][h]
         /\ rows'[t][h] # rows[t][h] =>
              InsertFx(p) /\ t = Table(p) /\ h \in new[p] /\ h \in Span(p)
         /\ InsertFx(p) /\ t = Table(p) /\ h \in new[p] => Seen(t, h)'
<1>1. rows[t][h] \in 0..Many
  BY DEF Core, TypeOK
<1>2. \A n \in 0..Many : More(n) > 0
  BY DEF More, Many
<1>3. CASE InsertFx(p)
  <2>1. h \in new[p] => h \in Span(p)
    BY DEF Core, HeldInv
  <2>2. rows'[t][h] = IF t = Table(p) /\ h \in new[p] THEN More(rows[t][h]) ELSE rows[t][h]
    BY <1>3 DEF InsertFx
  <2> QED
    BY <1>1, <1>2, <1>3, <2>1, <2>2 DEF Seen
<1>4. CASE ~InsertFx(p)
  <2>1. rows' = rows
    BY <1>4 DEF Effect, BeginFx, IndexFx, EndFx, ProbeFx, NextTableFx, FlushDoneFx,
                SaveFx, FinishFx, CrashFx, SameDb
  <2> QED
    BY <1>4, <2>1 DEF Seen
<1> QED
  BY <1>3, <1>4

\* A row once held stays held until it is visible, unless the process dies ...
LEMMA HeldKept ==
  ASSUME Core, NEW p \in Pipelines, Effect(p), NEW q \in Pipelines,
         NEW t \in Tables, NEW h \in Heights, Held(q, t, h), pc'[q] # "off"
  PROVE  Held(q, t, h)' \/ Seen(t, h)'
<1>0. PhaseInv /\ HeldInv
  BY DEF Core
<1>1. CASE q # p
  BY <1>1 DEF Effect, Frame, Held, Table
<1>2. CASE q = p /\ ProbeFx(p)
  <2>1. pc[p] = "probe" /\ h \in buf[p][t]
    BY <1>2 DEF ProbeFx, Held
  <2>2. CASE t # Table(p)
    BY <1>2, <2>1, <2>2 DEF ProbeFx, Held
  <2>3. CASE t = Table(p) /\ h \notin Chunk(buf[p][t])
    BY <1>2, <2>1, <2>3 DEF ProbeFx, Held
  <2>4. CASE t = Table(p) /\ h \in Chunk(buf[p][t]) /\ Seen(t, h)
    BY <2>4, SeenGrows
  <2>5. CASE t = Table(p) /\ h \in Chunk(buf[p][t]) /\ ~Seen(t, h)
    <3>1. h \in new'[p]
      BY <1>2, <2>5 DEF ProbeFx
    <3>2. pc'[p] = "insert" /\ Table(p)' = Table(p)
      BY <1>2, <3>1 DEF ProbeFx, Table
    <3> QED
      BY <1>2, <2>5, <3>1, <3>2 DEF Held
  <2> QED
    BY <2>2, <2>3, <2>4, <2>5
<1>3. CASE q = p /\ InsertFx(p)
  <2>1. CASE h \in buf[p][t]
    BY <1>3, <2>1 DEF InsertFx, Held
  <2>2. CASE Table(p) = t /\ h \in new[p]
    BY <1>3, <2>2, SeenGrows
  <2> QED
    BY <1>3, <2>1, <2>2 DEF Held
<1>4. CASE q = p /\ IndexFx(p)
  BY <1>4 DEF IndexFx, Held
<1>5. CASE q = p /\ (BeginFx(p) \/ EndFx(p) \/ NextTableFx(p) \/ FlushDoneFx(p)
                       \/ SaveFx(p) \/ FinishFx(p))
  <2>1. pc[p] # "insert" /\ buf'[p] = buf[p]
    BY <1>5 DEF BeginFx, EndFx, NextTableFx, FlushDoneFx, SaveFx, FinishFx
  <2> QED
    BY <1>5, <2>1 DEF Held
<1>6. CASE q = p /\ CrashFx(p)
  BY <1>6 DEF CrashFx
<1> QED
  BY <1>1, <1>2, <1>3, <1>4, <1>5, <1>6 DEF Effect

\* ... and only indexing adds one.
LEMMA HeldNew ==
  ASSUME Core, NEW p \in Pipelines, Effect(p), NEW q \in Pipelines,
         NEW t \in Tables, NEW h \in Heights, Held(q, t, h)'
  PROVE  /\ pc'[q] # "off"
         /\ Held(q, t, h) \/ (q = p /\ IndexFx(p) /\ h = pos[p] /\ Adds(p, t))
<1>0. PhaseInv /\ TypeOK
  BY DEF Core
<1>a. \A k : NoRows[t] = {} /\ k \notin NoRows[t]
  BY DEF NoRows
<1>1. CASE q # p
  <2>1. Held(q, t, h)
    BY <1>1 DEF Effect, Frame, Held, Table
  <2>2. pc[q] # "off"
    BY <1>0, <1>a, <2>1 DEF PhaseInv, Held
  <2> QED
    BY <1>1, <2>1, <2>2 DEF Effect, Frame
<1>2. CASE q = p /\ ProbeFx(p)
  <2>1. CASE h \in buf'[p][t]
    BY <1>2, <2>1 DEF ProbeFx, Held
  <2>2. CASE Table(p)' = t /\ h \in new'[p]
    <3>1. Table(p) = t
      BY <1>2, <2>2 DEF ProbeFx, Table
    <3>2. h \in buf[p][t]
      BY <1>2, <2>2, <3>1 DEF ProbeFx, Chunk
    <3> QED
      BY <1>2, <3>2 DEF ProbeFx, Held
  <2> QED
    BY <1>2, <2>1, <2>2 DEF Held
<1>3. CASE q = p /\ InsertFx(p)
  BY <1>3 DEF InsertFx, Held
<1>4. CASE q = p /\ IndexFx(p)
  <2>1. h \in buf'[p][t] /\ pc'[p] = "index"
    BY <1>4 DEF IndexFx, Held
  <2> QED
    BY <1>4, <2>1 DEF IndexFx, Held
<1>5. CASE q = p /\ (BeginFx(p) \/ EndFx(p) \/ NextTableFx(p) \/ FlushDoneFx(p)
                       \/ SaveFx(p) \/ FinishFx(p))
  <2>1. pc'[p] \notin {"insert", "off"} /\ buf'[p] = buf[p]
    BY <1>5 DEF BeginFx, EndFx, NextTableFx, FlushDoneFx, SaveFx, FinishFx
  <2> QED
    BY <1>5, <2>1 DEF Held
<1>6. CASE q = p /\ CrashFx(p)
  BY <1>6, <1>a DEF CrashFx, Held
<1> QED
  BY <1>1, <1>2, <1>3, <1>4, <1>5, <1>6 DEF Effect

\* When blocks are inserted, every other table is flushed.
LEMMA BlocksLast ==
  ASSUME Core, NEW p \in Pipelines, pc[p] = "insert", Table(p) = "blocks"
  PROVE  \A t \in Tables : t # "blocks" => \A h \in Heights : ~Held(p, t, h)
<1>1. tbl[p] \in 1..4
  BY OrderFacts DEF Core, TypeOK
<1>2. tbl[p] = 4
  BY <1>1, OrderFacts DEF Table
<1>3. buf[p][FlushOrder[1]] = {} /\ buf[p][FlushOrder[2]] = {} /\ buf[p][FlushOrder[3]] = {}
  BY <1>2, OrderFacts DEF Core, OrderInv
<1> QED
  BY <1>3, OrderFacts DEF Held, Tables
\* PhaseInv is kept: a flush is over only when every table is empty.
LEMMA PhaseStep == ASSUME Core, NEW p \in Pipelines, Effect(p) PROVE PhaseInv'
<1>0. TypeOK /\ PhaseInv /\ OrderInv
  BY DEF Core
<1>1. ASSUME NEW q \in Pipelines, q # p
      PROVE  /\ pc'[q] \in {"off", "save", "exit", "done"} => buf'[q] = NoRows
             /\ pc'[q] # "insert" => new'[q] = {}
             /\ pc'[q] \in {"off", "index", "exit", "done"} => tbl'[q] = 1
  BY <1>0, <1>1 DEF Effect, Frame, PhaseInv
<1>2. /\ pc'[p] \in {"off", "save", "exit", "done"} => buf'[p] = NoRows
      /\ pc'[p] # "insert" => new'[p] = {}
      /\ pc'[p] \in {"off", "index", "exit", "done"} => tbl'[p] = 1
  <2> USE <1>0 DEF PhaseInv
  <2>1. CASE BeginFx(p)
    BY <2>1 DEF BeginFx
  <2>2. CASE IndexFx(p) \/ EndFx(p)
    BY <2>2 DEF IndexFx, EndFx
  <2>3. CASE ProbeFx(p) \/ InsertFx(p) \/ NextTableFx(p)
    BY <2>3 DEF ProbeFx, InsertFx, NextTableFx
  <2>4. CASE FlushDoneFx(p)
    <3>1. tbl[p] = 4 /\ pc[p] = "probe" /\ buf[p][FlushOrder[4]] = {}
      BY <2>4 DEF FlushDoneFx, Table
    <3>2. \A t \in Tables : buf[p][t] = {}
      BY <3>1, OrderFacts DEF OrderInv, Tables
    <3>3. buf[p] \in [Tables -> SUBSET Heights]
      BY DEF TypeOK
    <3>4. buf[p] = NoRows
      BY <3>2, <3>3 DEF NoRows
    <3> QED
      BY <2>4, <3>4 DEF FlushDoneFx
  <2>5. CASE SaveFx(p)
    BY <2>5 DEF SaveFx
  <2>6. CASE FinishFx(p)
    BY <2>6 DEF FinishFx
  <2>7. CASE CrashFx(p)
    BY <2>7 DEF CrashFx
  <2> QED
    BY <2>1, <2>2, <2>3, <2>4, <2>5, <2>6, <2>7 DEF Effect
<1> QED
  BY <1>1, <1>2 DEF PhaseInv

\* StartInv is kept: both starts are bounded below by the range.
LEMMA StartStep == ASSUME Core, NEW p \in Pipelines, Effect(p) PROVE StartInv'
<1>0. TypeOK /\ StartInv
  BY DEF Core
<1>a. pos[p] \in Nat /\ From(p) \in Nat /\ To(p) \in Nat /\ From(p) = From(p)'
  BY <1>0, SpanFacts DEF TypeOK, From
<1>1. ASSUME NEW q \in Pipelines, q # p, pc'[q] # "off" PROVE From(q) <= pos'[q]
  BY <1>0, <1>1 DEF Effect, Frame, StartInv
<1>2. ASSUME pc'[p] # "off" PROVE From(p) <= pos'[p]
  <2>1. CASE BeginFx(p)
    <3>1. CASE p = Live
      BY <2>1, <3>1, <1>a DEF BeginFx
    <3>2. CASE p # Live
      <4>1. checkpoint[p] \in Nat \cup {-1}
        BY <1>0 DEF TypeOK, NoCheckpoint
      <4>2. ResumeHead(p) \in Int
        BY <4>1 DEF ResumeHead
      <4> QED
        BY <2>1, <3>2, <1>a, <4>2 DEF BeginFx, BackfillStart
    <3> QED
      BY <3>1, <3>2
  <2>2. CASE IndexFx(p)
    BY <1>0, <1>a, <2>2 DEF IndexFx, StartInv
  <2>3. CASE EndFx(p) \/ ProbeFx(p) \/ InsertFx(p) \/ NextTableFx(p) \/ FlushDoneFx(p)
               \/ SaveFx(p) \/ FinishFx(p)
    <3>1. pc[p] # "off" /\ pos'[p] = pos[p]
      BY <2>3 DEF EndFx, ProbeFx, InsertFx, NextTableFx, FlushDoneFx, SaveFx, FinishFx
    <3> QED
      BY <1>0, <3>1 DEF StartInv
  <2>4. CASE CrashFx(p)
    BY <1>2, <2>4 DEF CrashFx
  <2> QED
    BY <2>1, <2>2, <2>3, <2>4 DEF Effect
<1> QED
  BY <1>1, <1>2 DEF StartInv

\* The tables passed by a flush stay empty.
LEMMA OrderStep == ASSUME Core, NEW p \in Pipelines, Effect(p) PROVE OrderInv'
<1>0. TypeOK /\ OrderInv /\ PhaseInv
  BY DEF Core
<1>1. SUFFICES ASSUME NEW q \in Pipelines, pc'[q] \in {"probe", "insert"},
                      NEW i \in 1..4, i < tbl'[q]
               PROVE  buf'[q][FlushOrder[i]] = {}
  BY OrderFacts DEF OrderInv
<1>a. tbl[q] \in 1..4 /\ FlushOrder[i] \in Tables
  BY <1>0, OrderFacts DEF TypeOK
<1>b. pc[q] \in {"probe", "insert"} /\ i < tbl[q] => buf[q][FlushOrder[i]] = {}
  BY <1>0, OrderFacts DEF OrderInv
<1>2. CASE q # p
  BY <1>1, <1>2, <1>b DEF Effect, Frame
<1>3. CASE q = p /\ EndFx(p)
  BY <1>0, <1>1, <1>3 DEF EndFx, PhaseInv
<1>4. CASE q = p /\ (ProbeFx(p) \/ InsertFx(p))
  BY <1>1, <1>4, <1>a, <1>b DEF ProbeFx, InsertFx
<1>5. CASE q = p /\ NextTableFx(p)
  <2>1. i < tbl[p] \/ i = tbl[p]
    BY <1>1, <1>5, <1>a DEF NextTableFx
  <2> QED
    BY <1>5, <1>b, <2>1 DEF NextTableFx, Table
<1>6. CASE q = p /\ (BeginFx(p) \/ IndexFx(p) \/ FlushDoneFx(p) \/ SaveFx(p)
                       \/ FinishFx(p) \/ CrashFx(p))
  BY <1>1, <1>6 DEF BeginFx, IndexFx, FlushDoneFx, SaveFx, FinishFx, CrashFx
<1> QED
  BY <1>2, <1>3, <1>4, <1>5, <1>6 DEF Effect

\* What a probe did not find is not there when it is inserted.
LEMMA FreshStep == ASSUME Core, NEW p \in Pipelines, Effect(p) PROVE FreshInv'
<1>0. TypeOK /\ FreshInv /\ HeldInv
  BY DEF Core
<1>1. SUFFICES ASSUME NEW q \in Pipelines, pc'[q] = "insert", NEW h \in new'[q]
               PROVE  ~Seen(Table(q), h)'
  BY DEF FreshInv
<1>2. CASE q # p
  <2>1. pc[q] = "insert" /\ h \in new[q] /\ Table(q)' = Table(q)
    BY <1>1, <1>2 DEF Effect, Frame, Table
  <2>2. h \in Heights /\ Table(q) \in Tables /\ ~Seen(Table(q), h)
    BY <1>0, <2>1, OrderFacts DEF TypeOK, FreshInv, Table
  <2>3. h \in Span(q)
    BY <1>0, <2>1, <2>2 DEF HeldInv
  <2>4. h \notin Span(p)
    BY <1>2, <2>3, SpanFacts
  <2>5. rows'[Table(q)][h] = rows[Table(q)][h]
    BY <2>2, <2>4, SeenGrows
  <2> QED
    BY <2>1, <2>2, <2>5 DEF Seen
<1>3. CASE q = p
  <2>1. ProbeFx(p)
    BY <1>1, <1>3 DEF Effect, BeginFx, IndexFx, EndFx, InsertFx, NextTableFx, FlushDoneFx,
                      SaveFx, FinishFx, CrashFx
  <2>2. Table(p)' = Table(p) /\ rows' = rows /\ ~Seen(Table(p), h)
    BY <1>1, <1>3, <2>1 DEF ProbeFx, SameDb, Table
  <2> QED
    BY <1>3, <2>2 DEF Seen
<1> QED
  BY <1>2, <1>3

\* No table gets a second row, no price is counted twice.
LEMMA SingleStep == ASSUME Core, SingleInv, NEW p \in Pipelines, Effect(p) PROVE SingleInv'
<1>0. TypeOK /\ FreshInv /\ SingleInv
  BY DEF Core
<1>1. CASE InsertFx(p)
  <2>0. "prices" \in Tables
    BY DEF Tables
  <2>1. ASSUME NEW t \in Tables, NEW h \in Heights PROVE rows'[t][h] <= 1
    <3>1. CASE t = Table(p) /\ h \in new[p]
      <4>1. ~Seen(t, h) /\ rows[t][h] \in 0..Many
        BY <1>0, <1>1, <3>1 DEF FreshInv, InsertFx, TypeOK
      <4>2. rows[t][h] = 0
        BY <4>1 DEF Seen, Many
      <4> QED
        BY <1>1, <3>1, <4>2 DEF InsertFx, More, Many
    <3>2. CASE ~(t = Table(p) /\ h \in new[p])
      BY <1>0, <1>1, <3>2 DEF InsertFx, SingleInv
    <3> QED
      BY <3>1, <3>2
  <2>2. ASSUME NEW h \in Heights PROVE ohlc'[h] = rows'["prices"][h]
    BY <1>0, <1>1, <2>0 DEF InsertFx, SingleInv
  <2> QED
    BY <2>1, <2>2 DEF SingleInv
<1>2. CASE ~InsertFx(p)
  <2>1. rows' = rows /\ ohlc' = ohlc
    BY <1>2 DEF Effect, BeginFx, IndexFx, EndFx, ProbeFx, NextTableFx, FlushDoneFx,
                SaveFx, FinishFx, CrashFx, SameDb
  <2> QED
    BY <1>0, <2>1 DEF SingleInv
<1> QED
  BY <1>1, <1>2
\* The live follower's origin is set only by its own start, and then only when
\* nothing of it is visible.
LEMMA OriginKept ==
  ASSUME NEW p \in Pipelines, Effect(p), origin' # origin
  PROVE  /\ p = Live
         /\ BeginFx(p)
         /\ origin' = pos'[p]
         /\ \A g \in Span(Live) : ~Seen("blocks", g)
BY DEF Effect, BeginFx, IndexFx, EndFx, ProbeFx, InsertFx, NextTableFx, FlushDoneFx,
       SaveFx, FinishFx, CrashFx

\* Integers a start computes with.
LEMMA StartTypes ==
  ASSUME Core
  PROVE  /\ origin \in Nat
         /\ \A p \in Pipelines : /\ pos[p] \in Nat
                                 /\ checkpoint[p] \in Nat \cup {-1}
                                 /\ checkpoint[p] \in Int
                                 /\ From(p) \in Nat /\ To(p) \in Nat
<1>1. TypeOK
  BY DEF Core
<1>2. To(Live) \in Nat /\ Span(Live) \subseteq Nat
  BY SpanFacts
<1>3. origin \in Nat
  BY <1>1, <1>2 DEF TypeOK
<1> QED
  BY <1>1, <1>3, SpanFacts DEF TypeOK, NoCheckpoint

\* The heights a start passes over are published.
LEMMA BeginCovered ==
  ASSUME Core, NEW p \in Pipelines, Healthy(Span(p)), BeginFx(p), NEW h \in Span(p),
         Base(p)' <= h, h < pos'[p]
  PROVE  Seen("blocks", h)
<1>0. LiveInv /\ (h <= checkpoint[p] /\ (p = Live => origin <= h) => Seen("blocks", h))
  BY DEF Core, Healthy
<1>1. h \in Nat /\ From(p) <= h /\ h <= To(p) /\ From(p) \in Nat /\ To(p) \in Nat
  BY SpanFacts
<1>2. CASE p = Live
  <2>1. Base(p)' = origin' /\ pos'[p] \in Nat
    BY <1>1, <1>2 DEF Base, BeginFx
  <2>2. PICK g \in Span(Live) : Seen("blocks", g)
    <3>1. origin' = IF \E g \in Span(Live) : Seen("blocks", g) THEN origin ELSE pos'[p]
      BY <1>2 DEF BeginFx
    <3>2. origin' <= h /\ h < pos'[p]
      BY <2>1
    <3>3. origin' # pos'[p]
      BY <1>1, <2>1, <3>2
    <3> QED
      BY <3>1, <3>3
  <2>3. origin' = origin /\ LiveStart(pos'[p])
    BY <1>2, <2>2 DEF BeginFx
  <2>4. CASE checkpoint[Live] # NoCheckpoint
    <3>1. pos'[p] = checkpoint[Live] + 1 /\ checkpoint[Live] \in Int
      BY <2>3, <2>4, StartTypes, SpanFacts DEF LiveStart
    <3>2. h <= checkpoint[Live] /\ origin <= h
      BY <1>1, <2>1, <2>3, <3>1
    <3> QED
      BY <1>0, <1>2, <3>2
  <2>5. CASE checkpoint[Live] = NoCheckpoint
    <3> DEFINE top == pos'[p] - 1
    <3>1. g \in Heights
      BY SpanFacts
    <3>2. Newest(top)
      BY <2>2, <2>3, <2>5, <3>1 DEF LiveStart
    <3>3. g <= top /\ Seen("blocks", top) /\ g \in Nat /\ From(Live) <= g
      BY <2>2, <3>1, <3>2, SpanFacts DEF Newest
    <3>4. top \in Int /\ top <= To(Live)
      BY <1>2, <2>1, <1>1 DEF BeginFx
    <3>5. top \in Span(Live)
      BY <3>3, <3>4, SpanFacts
    <3>6. h <= top /\ origin <= h
      BY <1>1, <2>1, <2>3
    <3> QED
      BY <1>0, <1>2, <3>3, <3>5, <3>6 DEF LiveInv
  <2> QED
    BY <2>4, <2>5
<1>3. CASE p # Live
  <2>1. pos'[p] = BackfillStart(p)
    BY <1>3 DEF BeginFx
  <2>2. checkpoint[p] \in Nat \cup {-1}
    BY StartTypes
  <2>3. ResumeHead(p) \in Int
    BY <2>2 DEF ResumeHead
  <2>4. h <= ResumeHead(p)
    BY <1>1, <2>1, <2>3 DEF BackfillStart
  <2>5. checkpoint[p] # NoCheckpoint /\ ResumeHead(p) = checkpoint[p]
    BY <1>1, <2>4 DEF ResumeHead
  <2> QED
    BY <1>0, <1>3, <2>4, <2>5
<1> QED
  BY <1>2, <1>3

\* A process holds rows of its own heights only.
LEMMA HeldStep == ASSUME Core, NEW p \in Pipelines, Effect(p) PROVE HeldInv'
<1>0. TypeOK /\ HeldInv /\ PhaseInv /\ StartInv /\ LiveInv
  BY DEF Core
<1>1. SUFFICES ASSUME NEW q \in Pipelines, NEW h \in Heights,
                      h \in new'[q] \/ (\E t \in Tables : h \in buf'[q][t])
               PROVE  h \in Span(q) /\ Base(q)' <= h /\ h < pos'[q]
  BY DEF HeldInv
<1>a. h \in new[q] \/ (\E t \in Tables : h \in buf[q][t]) =>
        h \in Span(q) /\ Base(q) <= h /\ h < pos[q]
  BY <1>0 DEF HeldInv
<1>b. pos[p] \in Nat /\ h \in Nat /\ From(p) \in Nat /\ To(p) \in Nat
  BY StartTypes, SpanFacts
<1>c. \A t \in Tables : NoRows[t] = {}
  BY DEF NoRows
<1>2. CASE q # p
  <2>1. new'[q] = new[q] /\ buf'[q] = buf[q] /\ pos'[q] = pos[q]
    BY <1>2 DEF Effect, Frame
  <2>2. Base(q)' = Base(q)
    BY <1>2, OriginKept DEF Base
  <2> QED
    BY <1>1, <1>a, <2>1, <2>2
<1>3. CASE q = p /\ BeginFx(p)
  BY <1>0, <1>1, <1>3, <1>c DEF BeginFx, PhaseInv
<1>4. CASE q = p /\ IndexFx(p)
  <2>1. Base(p)' = Base(p) /\ new'[p] = {}
    BY <1>0, <1>4 DEF IndexFx, Base, PhaseInv
  <2>2. From(p) <= pos[p] /\ pos[p] <= To(p) /\ pos[p] \in Span(p)
    BY <1>0, <1>4, <1>b, SpanFacts DEF IndexFx, StartInv
  <2>3. Base(p) <= pos[p]
    BY <1>0, <1>4, <2>2 DEF IndexFx, Base, LiveInv
  <2>4. h = pos[p] \/ \E t \in Tables : h \in buf[p][t]
    BY <1>1, <1>4, <2>1 DEF IndexFx
  <2> QED
    BY <1>4, <1>a, <1>b, <2>1, <2>2, <2>3, <2>4 DEF IndexFx
<1>5. CASE q = p /\ ProbeFx(p)
  <2>1. Table(p) \in Tables /\ Chunk(buf[p][Table(p)]) \subseteq buf[p][Table(p)]
    BY <1>0, OrderFacts DEF TypeOK, Table, Chunk
  <2>2. Base(p)' = Base(p) /\ pos'[p] = pos[p]
    BY <1>5 DEF ProbeFx, Base
  <2>3. \E t \in Tables : h \in buf[p][t]
    BY <1>1, <1>5, <2>1 DEF ProbeFx
  <2> QED
    BY <1>5, <1>a, <2>2, <2>3
<1>6. CASE q = p /\ (InsertFx(p) \/ EndFx(p) \/ NextTableFx(p) \/ FlushDoneFx(p)
                       \/ SaveFx(p) \/ FinishFx(p))
  <2>1. /\ Base(p)' = Base(p) /\ pos'[p] = pos[p] /\ buf'[p] = buf[p]
        /\ new'[p] = new[p] \/ new'[p] = {}
    BY <1>6 DEF InsertFx, EndFx, NextTableFx, FlushDoneFx, SaveFx, FinishFx, Base
  <2> QED
    BY <1>1, <1>6, <1>a, <2>1
<1>7. CASE q = p /\ CrashFx(p)
  BY <1>1, <1>7, <1>c DEF CrashFx
<1> QED
  BY <1>2, <1>3, <1>4, <1>5, <1>6, <1>7 DEF Effect

\* A block row waits behind its prices and volumes.
LEMMA PendingStep == ASSUME Core, NEW p \in Pipelines, Effect(p) PROVE PendingInv'
<1>0. PendingInv
  BY DEF Core
<1>1. SUFFICES ASSUME NEW q \in Pipelines, NEW h \in Heights, h \notin Quiet,
                      Held(q, "blocks", h)',
                      NEW t \in {"prices", "trade_volume_by_account"}
               PROVE  Held(q, t, h)' \/ Seen(t, h)'
  BY DEF PendingInv
<1>2. "blocks" \in Tables /\ t \in Tables
  BY DEF Tables
<1>3. pc'[q] # "off" /\ (Held(q, "blocks", h) \/ (q = p /\ IndexFx(p) /\ h = pos[p]))
  BY <1>1, <1>2, HeldNew
<1>4. CASE Held(q, "blocks", h)
  <2>1. Held(q, t, h) \/ Seen(t, h)
    BY <1>0, <1>1, <1>4 DEF PendingInv
  <2> QED
    BY <1>2, <1>3, <2>1, HeldKept, SeenGrows
<1>5. CASE q = p /\ IndexFx(p) /\ h = pos[p]
  <2>1. Adds(p, t)
    BY <1>1, <1>5 DEF Adds
  <2>2. h \in buf'[q][t]
    BY <1>2, <1>5, <2>1 DEF IndexFx
  <2> QED
    BY <2>2 DEF Held
<1> QED
  BY <1>3, <1>4, <1>5

\* A block becomes visible only when its prices and volumes are.
LEMMA WatermarkStep ==
  ASSUME Core, NEW p \in Pipelines, Effect(p), NEW h \in Heights, Healthy({h}),
         Seen("blocks", h)', h \notin Quiet, NEW t \in {"prices", "trade_volume_by_account"}
  PROVE  Seen(t, h)'
<1>0. PendingInv
  BY DEF Core
<1>2. "blocks" \in Tables /\ t \in Tables /\ t # "blocks"
  BY DEF Tables
<1>3. CASE Seen("blocks", h)
  BY <1>2, <1>3, SeenGrows DEF Healthy
<1>4. CASE ~Seen("blocks", h)
  <2>1. rows'["blocks"][h] # rows["blocks"][h]
    BY <1>4 DEF Seen
  <2>2. InsertFx(p) /\ Table(p) = "blocks" /\ h \in new[p]
    BY <1>2, <2>1, SeenGrows
  <2>3. pc[p] = "insert" /\ Held(p, "blocks", h)
    BY <2>2 DEF InsertFx, Held
  <2>4. Held(p, t, h) \/ Seen(t, h)
    BY <1>0, <2>3 DEF PendingInv
  <2>5. ~Held(p, t, h)
    BY <1>2, <2>2, <2>3, BlocksLast
  <2> QED
    BY <1>2, <2>4, <2>5, SeenGrows
<1> QED
  BY <1>3, <1>4
\* Every height passed since the beginning is held or published.
LEMMA CoverStep == ASSUME Core, NEW p \in Pipelines, Healthy(Span(p)), Effect(p) PROVE CoverInv'
<1>0. CoverInv
  BY DEF Core
<1>1. SUFFICES ASSUME NEW q \in Pipelines, Indexing(q)', NEW h \in Span(q),
                      Base(q)' <= h, h < pos'[q]
               PROVE  Held(q, "blocks", h)' \/ Seen("blocks", h)'
  BY DEF CoverInv
<1>2. "blocks" \in Tables /\ h \in Heights /\ h \in Nat /\ pc'[q] # "off" /\ pos[q] \in Nat
  BY <1>1, SpanFacts, StartTypes DEF Tables, Indexing
<1>3. Held(q, "blocks", h) \/ Seen("blocks", h) => Held(q, "blocks", h)' \/ Seen("blocks", h)'
  BY <1>2, HeldKept, SeenGrows
<1>4. Indexing(q) /\ Base(q) <= h /\ h < pos[q] => Held(q, "blocks", h) \/ Seen("blocks", h)
  BY <1>0 DEF CoverInv
<1>5. CASE q # p
  <2>1. Base(q)' = Base(q)
    BY <1>5, OriginKept DEF Base
  <2>2. pos'[q] = pos[q] /\ pc'[q] = pc[q]
    BY <1>5 DEF Effect, Frame
  <2> QED
    BY <1>1, <1>3, <1>4, <2>1, <2>2 DEF Indexing
<1>6. CASE q = p /\ BeginFx(p)
  BY <1>1, <1>3, <1>6, BeginCovered
<1>7. CASE q = p /\ IndexFx(p)
  <2>1. Base(p)' = Base(p) /\ Indexing(p) /\ pos'[p] = pos[p] + 1
    BY <1>7 DEF IndexFx, Base, Indexing
  <2>2. CASE h < pos[p]
    BY <1>1, <1>3, <1>4, <1>7, <2>1, <2>2
  <2>3. CASE h = pos[p]
    <3>1. Adds(p, "blocks")
      BY DEF Adds
    <3>2. h \in buf'[p]["blocks"]
      BY <1>2, <1>7, <2>3, <3>1 DEF IndexFx
    <3> QED
      BY <1>7, <3>2 DEF Held
  <2> QED
    BY <1>1, <1>2, <1>7, <2>1, <2>2, <2>3
<1>8. CASE q = p /\ (EndFx(p) \/ ProbeFx(p) \/ InsertFx(p) \/ NextTableFx(p)
                       \/ FlushDoneFx(p) \/ SaveFx(p))
  <2>1. Base(p)' = Base(p) /\ Indexing(p) /\ pos'[p] = pos[p]
    BY <1>8 DEF EndFx, ProbeFx, InsertFx, NextTableFx, FlushDoneFx, SaveFx, Base, Indexing
  <2> QED
    BY <1>1, <1>3, <1>4, <1>8, <2>1
<1>9. CASE q = p /\ (FinishFx(p) \/ CrashFx(p))
  BY <1>1, <1>9 DEF FinishFx, CrashFx, Indexing
<1> QED
  BY <1>5, <1>6, <1>7, <1>8, <1>9 DEF Effect

\* A checkpoint is saved only when all below it is published.
LEMMA CheckpointStep ==
  ASSUME Core, NEW p \in Pipelines, Effect(p), NEW q \in Pipelines, NEW h \in Span(q),
         Healthy({h}), h <= checkpoint'[q], q = Live => origin' <= h
  PROVE  Seen("blocks", h)'
<1>0. /\ CoverInv /\ PhaseInv
      /\ h <= checkpoint[q] /\ (q = Live => origin <= h) => Seen("blocks", h)
  BY DEF Core, Healthy
<1>2. "blocks" \in Tables /\ h \in Heights /\ h \in Nat
  BY SpanFacts DEF Tables
<1>3. Seen("blocks", h) => Seen("blocks", h)'
  BY <1>2, SeenGrows
<1>4. CASE q = p /\ SaveFx(p)
  <2>1. pos[p] \in Nat /\ checkpoint'[p] = pos[p] - 1 /\ pc[p] = "save" /\ origin' = origin
    BY <1>4, StartTypes DEF SaveFx
  <2>2. Base(p) <= h /\ h < pos[p] /\ Indexing(p)
    BY <1>2, <1>4, <2>1, SpanFacts DEF Base, Indexing
  <2>3. Held(p, "blocks", h) \/ Seen("blocks", h)
    BY <1>0, <1>4, <2>2 DEF CoverInv
  <2>4. ~Held(p, "blocks", h)
    BY <1>0, <1>2, <2>1 DEF PhaseInv, NoRows, Held
  <2> QED
    BY <1>3, <2>3, <2>4
<1>5. CASE ~(q = p /\ SaveFx(p))
  <2>1. checkpoint'[q] = checkpoint[q]
    BY <1>5 DEF Effect, Frame, BeginFx, IndexFx, EndFx, ProbeFx, InsertFx, NextTableFx,
                FlushDoneFx, FinishFx, CrashFx, SameDb
  <2>2. CASE q = Live /\ origin' # origin
    <3>1. BeginFx(Live) /\ origin' = pos'[Live] /\ checkpoint[Live] \in Int /\ origin' <= h
      BY <2>2, OriginKept, StartTypes
    <3>2. CASE checkpoint[Live] # NoCheckpoint
      <4>1. pos'[Live] = checkpoint[Live] + 1
        BY <3>1, <3>2 DEF BeginFx, LiveStart
      <4> QED
        BY <1>2, <2>1, <2>2, <3>1, <4>1
    <3>3. CASE checkpoint[Live] = NoCheckpoint
      BY <1>2, <2>1, <2>2, <3>3 DEF NoCheckpoint
    <3> QED
      BY <3>2, <3>3
  <2>3. CASE ~(q = Live /\ origin' # origin)
    BY <1>0, <1>3, <2>1, <2>3
  <2> QED
    BY <2>2, <2>3
<1> QED
  BY <1>4, <1>5

\* What a reader may rely on at a height, it may rely on after a step.
LEMMA HealthyStep ==
  ASSUME Core, NEW p \in Pipelines, Effect(p), NEW h \in Heights, Healthy({h})
  PROVE  Healthy({h})'
BY WatermarkStep, CheckpointStep DEF Healthy

\* A backfill flushes only a whole range.
LEMMA RangeStep == ASSUME Core, NEW p \in Pipelines, Healthy(Span(p)), Effect(p) PROVE RangeInv'
<1>0. RangeInv
  BY DEF Core
<1>1. ASSUME NEW b \in Backfills, pc'[b] \in {"probe", "insert", "save"}
      PROVE  To(b) < pos'[b]
  <2>0. b \in Pipelines /\ b # Live /\ pos[b] \in Nat /\ To(b) \in Nat
    BY SpanFacts, StartTypes
  <2>1. CASE b # p
    BY <1>0, <1>1, <2>0, <2>1 DEF Effect, Frame, RangeInv
  <2>2. CASE b = p /\ EndFx(p)
    BY <2>0, <2>2 DEF EndFx, BatchPublishes, Deferred
  <2>3. CASE b = p /\ (ProbeFx(p) \/ InsertFx(p) \/ NextTableFx(p) \/ FlushDoneFx(p))
    BY <1>0, <2>3 DEF ProbeFx, InsertFx, NextTableFx, FlushDoneFx, RangeInv
  <2>4. CASE b = p /\ (BeginFx(p) \/ IndexFx(p) \/ SaveFx(p) \/ FinishFx(p) \/ CrashFx(p))
    BY <1>1, <2>4 DEF BeginFx, IndexFx, SaveFx, FinishFx, CrashFx
  <2> QED
    BY <2>1, <2>2, <2>3, <2>4 DEF Effect
<1>2. ASSUME NEW b \in Backfills, Indexing(b)', NEW h \in Span(b), h < pos'[b], h \notin Quiet
      PROVE  Held(b, "prices", h)' \/ Seen("prices", h)'
  <2>0. /\ b \in Pipelines /\ b # Live /\ pos[b] \in Nat /\ h \in Heights /\ h \in Nat
        /\ "prices" \in Tables /\ pc'[b] # "off" /\ From(b) <= h
    BY <1>2, SpanFacts, StartTypes DEF Tables, Indexing
  <2>1. Held(b, "prices", h) \/ Seen("prices", h) => Held(b, "prices", h)' \/ Seen("prices", h)'
    BY <2>0, HeldKept, SeenGrows
  <2>2. Indexing(b) /\ h < pos[b] => Held(b, "prices", h) \/ Seen("prices", h)
    BY <1>0, <1>2 DEF RangeInv
  <2>3. CASE b # p
    BY <1>2, <2>0, <2>1, <2>2, <2>3 DEF Effect, Frame, Indexing
  <2>4. CASE b = p /\ BeginFx(p)
    <3>1. Base(b)' <= h
      BY <2>0 DEF Base
    <3>2. Seen("blocks", h)
      BY <1>2, <2>4, <3>1, BeginCovered
    <3> QED
      BY <1>2, <2>1, <2>4, <3>2 DEF Healthy
  <2>5. CASE b = p /\ IndexFx(p)
    <3>1. CASE h < pos[p]
      BY <2>1, <2>2, <2>5, <3>1 DEF IndexFx, Indexing
    <3>2. CASE h = pos[p]
      <4>1. Adds(p, "prices")
        BY <1>2, <3>2 DEF Adds
      <4>2. h \in buf'[p]["prices"]
        BY <2>0, <2>5, <3>2, <4>1 DEF IndexFx
      <4> QED
        BY <2>5, <4>2 DEF Held
    <3> QED
      BY <1>2, <2>0, <2>5, <3>1, <3>2 DEF IndexFx
  <2>6. CASE b = p /\ (EndFx(p) \/ ProbeFx(p) \/ InsertFx(p) \/ NextTableFx(p)
                         \/ FlushDoneFx(p) \/ SaveFx(p))
    <3>1. Indexing(p) /\ pos'[p] = pos[p]
      BY <2>6 DEF EndFx, ProbeFx, InsertFx, NextTableFx, FlushDoneFx, SaveFx, Indexing
    <3> QED
      BY <1>2, <2>1, <2>2, <2>6, <3>1
  <2>7. CASE b = p /\ (FinishFx(p) \/ CrashFx(p))
    BY <1>2, <2>7 DEF FinishFx, CrashFx, Indexing
  <2> QED
    BY <2>3, <2>4, <2>5, <2>6, <2>7 DEF Effect
<1> QED
  BY <1>1, <1>2 DEF RangeInv

\* No block of a backfilled range is visible before all its prices.
LEMMA WholeStep == ASSUME Core, NEW p \in Pipelines, Effect(p) PROVE WholeRangePriced'
<1>0. WholeRangePriced /\ RangeInv
  BY DEF Core
<1>1. SUFFICES ASSUME NEW b \in Backfills, NEW g \in Span(b), Seen("blocks", g)',
                      NEW h \in Span(b), h \notin Quiet
               PROVE  Seen("prices", h)'
  BY DEF WholeRangePriced
<1>2. /\ "blocks" \in Tables /\ "prices" \in Tables /\ "prices" # "blocks"
      /\ b \in Pipelines /\ g \in Heights /\ h \in Heights
  BY SpanFacts DEF Tables
<1>3. CASE Seen("blocks", g)
  BY <1>0, <1>1, <1>2, <1>3, SeenGrows DEF WholeRangePriced
<1>4. CASE ~Seen("blocks", g)
  <2>1. rows'["blocks"][g] # rows["blocks"][g]
    BY <1>1, <1>4 DEF Seen
  <2>2. InsertFx(p) /\ Table(p) = "blocks" /\ g \in Span(p)
    BY <1>2, <2>1, SeenGrows
  <2>3. p = b
    BY <1>2, <2>2, SpanFacts
  <2>4. pc[b] = "insert" /\ Indexing(b)
    BY <2>2, <2>3 DEF InsertFx, Indexing
  <2>5. h < pos[b]
    <3>1. To(b) < pos[b]
      BY <1>0, <2>4 DEF RangeInv
    <3> QED
      BY <1>2, <3>1, SpanFacts, StartTypes
  <2>6. Held(b, "prices", h) \/ Seen("prices", h)
    BY <1>0, <1>1, <2>4, <2>5 DEF RangeInv
  <2>7. ~Held(b, "prices", h)
    BY <1>2, <2>2, <2>3, <2>4, BlocksLast
  <2> QED
    BY <1>2, <2>6, <2>7, SeenGrows
<1> QED
  BY <1>3, <1>4
\* The live follower begins at or below where it is.
LEMMA LiveStartStep ==
  ASSUME Core, NEW p \in Pipelines, Effect(p)
  PROVE  /\ pc'[Live] # "off" => origin' <= pos'[Live]
         /\ /\ checkpoint'[Live] # NoCheckpoint
            /\ pc'[Live] # "off" \/ \E g \in Span(Live) : Seen("blocks", g)'
            => origin' <= checkpoint'[Live] + 1
<1> DEFINE visible == pc[Live] # "off" \/ \E g \in Span(Live) : Seen("blocks", g)
<1>0. LiveInv
  BY DEF Core
<1>a. /\ Live \in Pipelines /\ origin \in Nat /\ pos[Live] \in Nat
      /\ checkpoint[Live] \in Int /\ From(Live) \in Nat /\ To(Live) \in Nat
  BY SpanFacts, StartTypes
<1>b. /\ pc[Live] # "off" => origin <= pos[Live]
      /\ checkpoint[Live] # NoCheckpoint /\ visible => origin <= checkpoint[Live] + 1
  BY <1>0 DEF LiveInv
<1>c. ~InsertFx(p) \/ p # Live =>
        ((\E g \in Span(Live) : Seen("blocks", g)') <=> \E g \in Span(Live) : Seen("blocks", g))
  <2>1. \A g \in Span(Live) : g \in Heights /\ (p # Live => g \notin Span(p))
    BY <1>a, SpanFacts
  <2>2. "blocks" \in Tables
    BY DEF Tables
  <2> QED
    BY <2>1, <2>2, SeenGrows DEF Seen
<1> HIDE DEF visible
<1>1. CASE p # Live
  <2>1. /\ pc'[Live] = pc[Live] /\ pos'[Live] = pos[Live] /\ checkpoint'[Live] = checkpoint[Live]
        /\ origin' = origin
    BY <1>1, <1>a, OriginKept DEF Effect, Frame
  <2> QED
    BY <1>1, <1>b, <1>c, <2>1 DEF visible
<1>2. CASE p = Live /\ BeginFx(p)
  <2>1. checkpoint'[Live] = checkpoint[Live] /\ LiveStart(pos'[Live]) /\ pos'[Live] \in Nat
    BY <1>2, <1>a DEF BeginFx, SameDb
  <2>2. CASE origin' # origin
    <3>1. origin' = pos'[Live]
      BY <1>2, <2>2, OriginKept
    <3> QED
      BY <1>a, <2>1, <3>1 DEF LiveStart
  <2>3. CASE origin' = origin
    <3>1. CASE checkpoint[Live] # NoCheckpoint
      <4>1. pos'[Live] = checkpoint[Live] + 1
        BY <2>1, <3>1 DEF LiveStart
      <4>2. CASE \E g \in Span(Live) : Seen("blocks", g)
        BY <1>b, <2>1, <2>3, <3>1, <4>1, <4>2 DEF visible
      <4>3. CASE ~ \E g \in Span(Live) : Seen("blocks", g)
        BY <1>2, <1>a, <2>1, <4>1, <4>3 DEF BeginFx
      <4> QED
        BY <4>2, <4>3
    <3>2. CASE checkpoint[Live] = NoCheckpoint /\ ~ \E g \in Span(Live) : Seen("blocks", g)
      BY <1>2, <2>1, <2>3, <3>2 DEF BeginFx
    <3>3. CASE checkpoint[Live] = NoCheckpoint /\ \E g \in Span(Live) : Seen("blocks", g)
      <4>1. PICK g \in Span(Live) : Seen("blocks", g)
        BY <3>3
      <4> DEFINE top == pos'[Live] - 1
      <4>2. g \in Heights /\ g \in Nat
        BY <1>a, SpanFacts
      <4>3. Newest(top)
        BY <2>1, <3>3, <4>1, <4>2 DEF LiveStart
      <4>4. g <= top
        BY <4>1, <4>2, <4>3 DEF Newest
      <4>5. origin <= g
        BY <1>0, <4>1 DEF LiveInv
      <4>6. origin <= pos'[Live]
        BY <1>a, <2>1, <4>2, <4>4, <4>5
      <4> QED
        BY <2>1, <2>3, <3>3, <4>6
    <3> QED
      BY <3>1, <3>2, <3>3
  <2> QED
    BY <2>2, <2>3
<1>3. CASE p = Live /\ IndexFx(p)
  BY <1>3, <1>a, <1>b DEF IndexFx, SameDb, visible
<1>4. CASE p = Live /\ (EndFx(p) \/ ProbeFx(p) \/ InsertFx(p) \/ NextTableFx(p)
                          \/ FlushDoneFx(p) \/ FinishFx(p))
  <2>1. /\ pc[Live] # "off" /\ pos'[Live] = pos[Live] /\ origin' = origin
        /\ checkpoint'[Live] = checkpoint[Live]
    BY <1>4 DEF EndFx, ProbeFx, InsertFx, NextTableFx, FlushDoneFx, FinishFx, SameDb
  <2> QED
    BY <1>b, <2>1 DEF visible
<1>5. CASE p = Live /\ SaveFx(p)
  <2>1. /\ pc[Live] # "off" /\ pos'[Live] = pos[Live] /\ origin' = origin
        /\ checkpoint'[Live] = pos[Live] - 1
    BY <1>5 DEF SaveFx
  <2> QED
    BY <1>a, <1>b, <2>1
<1>6. CASE p = Live /\ CrashFx(p)
  BY <1>6, <1>b DEF CrashFx, SameDb, visible
<1> QED
  BY <1>1, <1>2, <1>3, <1>4, <1>5, <1>6 DEF Effect

\* The next insert of the live follower leaves no gap.
LEMMA LiveInsertStep ==
  ASSUME Core, NEW p \in Pipelines, Effect(p),
         pc'[Live] = "insert", Table(Live)' = "blocks",
         NEW h \in new'[Live], NEW g \in Span(Live), origin' <= g, g <= h
  PROVE  g \in new'[Live] \/ Seen("blocks", g)'
<1>0. TypeOK /\ LiveInv /\ CoverInv /\ HeldInv
  BY DEF Core
<1>a. /\ Live \in Pipelines /\ "blocks" \in Tables /\ g \in Heights /\ g \in Nat
      /\ pos[Live] \in Nat
  BY SpanFacts, StartTypes DEF Tables
<1>1. origin' = origin
  <2>1. ~(p = Live /\ BeginFx(p))
    BY DEF BeginFx
  <2> QED
    BY <2>1, OriginKept
<1>2. CASE p # Live
  <2>1. pc[Live] = "insert" /\ Table(Live) = "blocks" /\ new'[Live] = new[Live]
    BY <1>2, <1>a DEF Effect, Frame, Table
  <2>2. g \in new[Live] \/ Seen("blocks", g)
    BY <1>0, <1>1, <2>1 DEF LiveInv
  <2> QED
    BY <1>a, <2>1, <2>2, SeenGrows
<1>3. CASE p = Live
  <2> DEFINE held == buf[Live]["blocks"]
  <2>1. ProbeFx(Live)
    BY <1>3 DEF Effect, BeginFx, IndexFx, EndFx, InsertFx, NextTableFx, FlushDoneFx,
                SaveFx, FinishFx, CrashFx
  <2>2. Table(Live) = "blocks" /\ pc[Live] = "probe"
    BY <2>1 DEF ProbeFx, Table
  <2>3. new'[Live] = {k \in Chunk(held) : ~Seen("blocks", k)}
    BY <2>1, <2>2 DEF ProbeFx
  <2>4. held \subseteq Heights /\ held \subseteq Nat
    <3>1. buf \in [Pipelines -> [Tables -> SUBSET Heights]]
      BY <1>0 DEF TypeOK
    <3>2. Live \in Pipelines /\ "blocks" \in Tables
      BY DEF Pipelines, Tables
    <3>3. held \subseteq Heights
      BY <3>1, <3>2
    <3> QED
      BY <3>3, SpanFacts
  <2>5. h \in Chunk(held) /\ h \in held /\ h \in Nat /\ h < pos[Live]
    <3>1. h \in Chunk(held) /\ h \in held
      BY <2>3, <2>4, ChunkFacts
    <3> QED
      BY <1>0, <1>a, <2>4, <3>1 DEF HeldInv
  <2>6. CASE g = h
    BY <2>6
  <2>7. CASE g < h
    <3>1. Held(Live, "blocks", g) \/ Seen("blocks", g)
      BY <1>0, <1>1, <1>a, <2>2, <2>5, <2>7 DEF CoverInv, Indexing, Base
    <3>2. CASE Seen("blocks", g)
      BY <1>a, <3>2, SeenGrows
    <3>3. CASE ~Seen("blocks", g)
      <4>1. g \in held
        BY <2>2, <3>1, <3>3 DEF Held
      <4>2. g \in Chunk(held)
        BY <2>4, <2>5, <2>7, <4>1, ChunkFacts
      <4> QED
        BY <2>3, <3>3, <4>2
    <3> QED
      BY <3>2, <3>3
  <2> QED
    BY <1>a, <2>5, <2>6, <2>7
<1> QED
  BY <1>2, <1>3

\* What is visible of the live follower has no gaps.
LEMMA LiveStep == ASSUME Core, NEW p \in Pipelines, Effect(p) PROVE LiveInv'
<1>0. LiveInv /\ HeldInv
  BY DEF Core
<1>a. Live \in Pipelines /\ "blocks" \in Tables /\ Span(Live) \subseteq Heights
  BY SpanFacts DEF Tables
<1>1. ASSUME NEW h \in Span(Live), Seen("blocks", h)'
      PROVE  /\ origin' <= h
             /\ \A g \in Span(Live) : g <= h => (origin' <= g => Seen("blocks", g)')
  <2>1. CASE Seen("blocks", h)
    <3>1. origin' = origin
      BY <2>1, OriginKept
    <3> QED
      BY <1>0, <1>a, <2>1, <3>1, SeenGrows DEF LiveInv
  <2>2. CASE ~Seen("blocks", h)
    <3>1. rows'["blocks"][h] # rows["blocks"][h]
      BY <1>1, <2>2 DEF Seen
    <3>2. InsertFx(p) /\ Table(p) = "blocks" /\ h \in new[p] /\ h \in Span(p)
      BY <1>a, <3>1, SeenGrows
    <3>3. p = Live /\ pc[Live] = "insert" /\ origin' = origin
      BY <1>a, <3>2, SpanFacts DEF InsertFx
    <3>4. origin <= h
      BY <1>0, <1>a, <3>2, <3>3 DEF HeldInv, Base
    <3>5. ASSUME NEW g \in Span(Live), g <= h, origin <= g PROVE Seen("blocks", g)'
      <4>1. g \in new[Live] \/ Seen("blocks", g)
        BY <1>0, <3>2, <3>3, <3>5 DEF LiveInv
      <4> QED
        BY <1>a, <3>2, <3>3, <4>1, SeenGrows
    <3> QED
      BY <3>3, <3>4, <3>5
  <2> QED
    BY <2>1, <2>2
<1>2. ASSUME pc'[Live] = "insert", Table(Live)' = "blocks",
             NEW h \in new'[Live], NEW g \in Span(Live), origin' <= g, g <= h
      PROVE  g \in new'[Live] \/ Seen("blocks", g)'
  BY <1>2, LiveInsertStep
<1>3. /\ pc'[Live] # "off" => origin' <= pos'[Live]
      /\ /\ checkpoint'[Live] # NoCheckpoint
         /\ pc'[Live] # "off" \/ \E g \in Span(Live) : Seen("blocks", g)'
         => origin' <= checkpoint'[Live] + 1
  BY LiveStartStep
<1> QED
  BY <1>1, <1>2, <1>3 DEF LiveInv, NoCheckpoint

-----------------------------------------------------------------------------
(* The theorems.                                                           *)

\* An empty database and no process satisfy the invariant.
LEMMA InitIInv == Init => IInv
<1> SUFFICES ASSUME Init PROVE IInv
  OBVIOUS
<1> USE SpanFacts, OrderFacts
<1>0. /\ \A t \in Tables : NoRows[t] = {}
      /\ \A t \in Tables : \A h \in Heights : ~Seen(t, h)
      /\ "blocks" \in Tables /\ "prices" \in Tables
  BY DEF Init, NoRows, Seen, Tables
<1>1. TypeOK
  <2>1. NoRows \in [Tables -> SUBSET Heights] /\ From(Live) \in Span(Live)
    BY DEF NoRows
  <2> QED
    BY <2>1, PublisherBoundsAssumption DEF Init, TypeOK, Many, NoCheckpoint
<1>2. PhaseInv /\ StartInv /\ HeldInv /\ OrderInv /\ FreshInv
  BY <1>0 DEF Init, PhaseInv, StartInv, HeldInv, OrderInv, FreshInv
<1>3. SingleInv
  BY <1>0 DEF Init, SingleInv
<1>4. Watermark /\ WholeRangePriced
  BY <1>0 DEF Watermark, WholeRangePriced
<1>5. PendingInv
  BY <1>0 DEF Init, PendingInv, Held
<1>6. CoverInv /\ RangeInv
  BY DEF Init, CoverInv, RangeInv, Indexing
<1>7. LiveInv
  BY <1>0 DEF Init, LiveInv, NoCheckpoint
<1>8. CheckpointPublished
  BY DEF Init, CheckpointPublished, NoCheckpoint
<1> QED
  BY <1>1, <1>2, <1>3, <1>4, <1>5, <1>6, <1>7, <1>8 DEF IInv

\* Nothing that leaves tables and processes alone disturbs the invariant; the candles are
\* no part of it.
LEMMA CoreKept ==
  ASSUME Core, TypeOK', UNCHANGED <<rows, checkpoint, pc, memory, origin>>
  PROVE  Core'
<1>1. UNCHANGED <<pos, first, buf, tbl, new>>
  BY DEF memory
<1>2. \A p \in Pipelines : \A t \in Tables : \A h \in Heights :
        /\ Seen(t, h)' <=> Seen(t, h)
        /\ Held(p, t, h)' <=> Held(p, t, h)
        /\ Table(p)' = Table(p) /\ Base(p)' = Base(p) /\ (Indexing(p)' <=> Indexing(p))
  BY <1>1 DEF Seen, Held, Table, Base, Indexing
<1>3. PhaseInv' /\ StartInv' /\ HeldInv' /\ OrderInv'
  BY <1>1 DEF Core, PhaseInv, StartInv, HeldInv, OrderInv, Base
<1>4. FreshInv' /\ PendingInv' /\ CoverInv'
  BY <1>1 DEF Core, FreshInv, PendingInv, CoverInv, Seen, Held, Table, Base, Indexing
<1>5. LiveInv'
  BY <1>1 DEF Core, LiveInv, Seen, Table
<1>6. RangeInv' /\ WholeRangePriced'
  BY <1>1 DEF Core, RangeInv, WholeRangePriced, Seen, Held, Table, Indexing
<1> QED
  BY <1>3, <1>4, <1>5, <1>6 DEF Core

LEMMA StutterIInv == IInv /\ UNCHANGED vars => IInv'
<1> SUFFICES ASSUME IInv, UNCHANGED vars PROVE IInv'
  OBVIOUS
<1>1. UNCHANGED <<rows, ohlc, checkpoint, pc, memory, origin, faults>> /\ UNCHANGED <<pos, first, buf, tbl, new>>
  BY DEF vars, db, memory
<1>2. Core /\ TypeOK'
  BY <1>1 DEF IInv, Core, TypeOK
<1>3. Core'
  BY <1>1, <1>2, CoreKept
<1>4. SingleInv' /\ Watermark' /\ CheckpointPublished'
  BY <1>1 DEF IInv, SingleInv, Watermark, CheckpointPublished, Seen
<1> QED
  BY <1>3, <1>4 DEF IInv, Core

\* The invariant, split into what always holds and what holds at rest.
LEMMA Parts == IInv <=> Core /\ SingleInv /\ Healthy(Heights)
<1>1. Watermark /\ CheckpointPublished <=> Healthy(Heights)
  BY SpanFacts DEF Watermark, CheckpointPublished, Healthy
<1> QED
  BY <1>1 DEF IInv, Core

\* A step of a pipeline keeps what always holds.
LEMMA CoreStep ==
  ASSUME Core, NEW p \in Pipelines, Effect(p), Healthy(Span(p)), TypeOK'
  PROVE  Core'
BY PhaseStep, StartStep, HeldStep, OrderStep, FreshStep, PendingStep, CoverStep, LiveStep,
   RangeStep, WholeStep DEF Core

\* Every step keeps the invariant.
LEMMA IInvStep == ASSUME IInv, Next PROVE IInv'
<1>1. PICK p \in Pipelines : Effect(p)
  BY Effects DEF IInv
<1>2. Core /\ SingleInv /\ Healthy(Heights)
  BY Parts
<1>3. Healthy(Span(p))
  BY <1>2, SpanFacts DEF Healthy
<1>4. Core' /\ SingleInv'
  BY <1>1, <1>2, <1>3, TypeStep, CoreStep, SingleStep
<1>5. Healthy(Heights)'
  <2>1. \A h \in Heights : Healthy({h})'
    BY <1>1, <1>2, HealthyStep DEF Healthy
  <2> QED
    BY <2>1 DEF Healthy
<1>6. Watermark' /\ CheckpointPublished'
  BY <1>5, SpanFacts DEF Watermark, CheckpointPublished, Healthy
<1> QED
  BY <1>4, <1>6 DEF IInv, Core

\* The invariant holds in every reachable state, for any number of backfills
\* beside the live follower, any batches and crashes anywhere in between.
THEOREM InductiveInvariant == Spec => []IInv
<1>1. Init => IInv
  BY InitIInv
<1>2. IInv /\ [Next]_vars => IInv'
  BY IInvStep, StutterIInv
<1> QED
  BY <1>1, <1>2, PTL DEF Spec

\* Once a block is visible its prices and volumes are (flushAll and
\* publishDeferred write `blocks` last, and a replay cannot undo that).
THEOREM WatermarkCorrect == Spec => []Watermark
<1>1. IInv => Watermark
  BY DEF IInv
<1> QED
  BY <1>1, InductiveInvariant, PTL

\* The probes before the inserts make the additive candles count each price
\* exactly once, whatever is replayed.
THEOREM CandlesCorrect == Spec => []CandlesExact
<1>1. IInv => CandlesExact
  <2> SUFFICES ASSUME IInv, NEW h \in Heights
               PROVE  ohlc[h] = IF Seen("prices", h) THEN 1 ELSE 0
    BY DEF CandlesExact
  <2>1. "prices" \in Tables
    BY DEF Tables
  <2>2. rows["prices"][h] \in 0..2 /\ rows["prices"][h] <= 1 /\ ohlc[h] = rows["prices"][h]
    BY <2>1 DEF IInv, TypeOK, SingleInv, Many
  <2> QED
    BY <2>2 DEF Seen
<1> QED
  BY <1>1, InductiveInvariant, PTL

\* The plain MergeTree tables never hold two rows of a key.
THEOREM NoDuplicatesCorrect == Spec => []NoDuplicates
<1>1. IInv => NoDuplicates
  BY DEF IInv, SingleInv, NoDuplicates, Tables
<1> QED
  BY <1>1, InductiveInvariant, PTL

\* Whatever a checkpoint has passed is published.
THEOREM CheckpointCorrect == Spec => []CheckpointPublished
<1>1. IInv => CheckpointPublished
  BY DEF IInv
<1> QED
  BY <1>1, InductiveInvariant, PTL

\* A backfilled range is visible only once all of it is priced.
THEOREM WholeRangeCorrect == Spec => []WholeRangePriced
<1>1. IInv => WholeRangePriced
  BY DEF IInv
<1> QED
  BY <1>1, InductiveInvariant, PTL

\* The types are kept.
THEOREM TypeCorrect == Spec => []TypeOK
<1>1. IInv => TypeOK
  BY DEF IInv
<1> QED
  BY <1>1, InductiveInvariant, PTL

-----------------------------------------------------------------------------
(* The refinement of Publication.                                          *)

\* A process stays in its range, has passed where it began when it flushes, and is
\* ahead of its checkpoint.
ForwardInv ==
  \A p \in Pipelines :
    /\ Indexing(p) => pos[p] <= To(p) + 1
    /\ pc[p] \in {"probe", "insert", "save"} => Base(p) < pos[p]
    /\ p = Live => (Indexing(p) => checkpoint[p] < pos[p])
    /\ p # Live => checkpoint[p] <= To(p)

\* What is visible of a backfilled range has no gaps from its first block on, nor will
\* the next insert make one.
PrefixInv ==
  \A b \in Backfills :
    /\ \A h \in Span(b) : Seen("blocks", h) => \A g \in Span(b) : g <= h => Seen("blocks", g)
    /\ pc[b] = "insert" /\ Table(b) = "blocks" =>
         \A h \in new[b] : \A g \in Span(b) : g <= h => g \in new[b] \/ Seen("blocks", g)

LEMMA ForwardStep ==
  ASSUME Core, ForwardInv, NEW p \in Pipelines, Effect(p)
  PROVE  ForwardInv'
<1>0. TypeOK /\ HeldInv /\ RangeInv
  BY DEF Core
<1>1. SUFFICES ASSUME NEW q \in Pipelines
               PROVE  /\ Indexing(q)' => pos'[q] <= To(q) + 1
                      /\ pc'[q] \in {"probe", "insert", "save"} => Base(q)' < pos'[q]
                      /\ q = Live => (Indexing(q)' => checkpoint'[q] < pos'[q])
                      /\ q # Live => checkpoint'[q] <= To(q)
  BY DEF ForwardInv, To
<1>2. /\ pos[q] \in Nat /\ origin \in Nat /\ checkpoint[q] \in Nat \cup {-1}
      /\ From(q) \in Nat /\ To(q) \in Nat /\ From(q) <= To(q)
  BY StartTypes, SpanFacts
<1>3. /\ Indexing(q) => pos[q] <= To(q) + 1
      /\ pc[q] \in {"probe", "insert", "save"} => Base(q) < pos[q]
      /\ q = Live => (Indexing(q) => checkpoint[q] < pos[q])
      /\ q # Live => checkpoint[q] <= To(q)
  BY DEF ForwardInv
<1>4. CASE q # p
  <2>1. pc'[q] = pc[q] /\ pos'[q] = pos[q] /\ checkpoint'[q] = checkpoint[q]
    BY <1>4 DEF Effect, Frame
  <2>2. Base(q)' = Base(q)
    BY <1>4, OriginKept DEF Base, From
  <2> QED
    BY <1>3, <2>1, <2>2 DEF Indexing
<1>5. CASE q = p
  <2>a. Base(q) \in Nat
    BY <1>2 DEF Base
  <2>b. origin' = origin => Base(q)' = Base(q)
    BY DEF Base, From
  <2>1. CASE BeginFx(p)
    <3>1. pc'[q] \in {"index", "exit"} /\ (pc'[q] = "index" => ~(pos'[q] > To(q))) /\ checkpoint' = checkpoint
      BY <1>5, <2>1 DEF BeginFx, SameDb
    <3>2. pos'[q] \in Nat
      <4>1. CASE q = Live
        BY <1>2, <1>5, <2>1, <4>1 DEF BeginFx
      <4>2. CASE q # Live
        <5>1. pos'[q] = BackfillStart(q)
          BY <1>5, <2>1, <4>2 DEF BeginFx
        <5> QED
          BY <1>2, <5>1 DEF BackfillStart, ResumeHead
      <4> QED
        BY <4>1, <4>2
    <3>3. q = Live => checkpoint[q] < pos'[q]
      <4>1. SUFFICES ASSUME q = Live PROVE checkpoint[q] < pos'[q]
        OBVIOUS
      <4>2. LiveStart(pos'[q])
        BY <1>5, <2>1, <4>1 DEF BeginFx
      <4>3. checkpoint[Live] # NoCheckpoint => pos'[q] = checkpoint[Live] + 1
        BY <4>2 DEF LiveStart
      <4> QED
        BY <1>2, <3>2, <4>1, <4>3 DEF NoCheckpoint
    <3> QED
      BY <1>2, <1>3, <3>1, <3>2, <3>3 DEF Indexing
  <2>2. CASE IndexFx(p)
    <3>1. /\ pc[q] = "index" /\ pc'[q] = "index" /\ pos[q] <= To(q) /\ pos'[q] = pos[q] + 1
          /\ checkpoint' = checkpoint
      BY <1>5, <2>2 DEF IndexFx, SameDb
    <3> QED
      BY <1>2, <1>3, <3>1 DEF Indexing
  <2>3. CASE EndFx(p)
    <3>1. /\ pc[q] = "index" /\ pc'[q] = "probe" /\ pos'[q] = pos[q] /\ checkpoint' = checkpoint
          /\ BatchPublishes(q) /\ origin' = origin
      BY <1>5, <2>3 DEF EndFx, SameDb
    <3>2. Base(q) < pos[q]
      <4>1. CASE q = Live
        <5>1. PICK h \in buf[q]["blocks"] : TRUE
          BY <3>1, <4>1 DEF BatchPublishes, Deferred
        <5>2. h \in Heights /\ "blocks" \in Tables
          BY <1>0, <5>1 DEF TypeOK, Tables
        <5>3. Base(q) <= h /\ h < pos[q] /\ h \in Nat
          BY <1>0, <5>1, <5>2, SpanFacts DEF HeldInv
        <5> QED
          BY <1>2, <2>a, <5>3
      <4>2. CASE q # Live
        <5>1. pos[q] - 1 >= To(q) /\ Base(q) = From(q)
          BY <3>1, <4>2 DEF BatchPublishes, Deferred, Base
        <5> QED
          BY <1>2, <5>1
      <4> QED
        BY <4>1, <4>2
    <3> QED
      BY <1>3, <2>b, <3>1, <3>2 DEF Indexing
  <2>4. CASE ProbeFx(p) \/ InsertFx(p) \/ NextTableFx(p) \/ FlushDoneFx(p)
    <3>1. /\ pc[q] \in {"probe", "insert"} /\ pos'[q] = pos[q] /\ checkpoint' = checkpoint
          /\ origin' = origin
      BY <1>5, <2>4 DEF ProbeFx, InsertFx, NextTableFx, FlushDoneFx, SameDb
    <3> QED
      BY <1>3, <2>b, <3>1 DEF Indexing
  <2>5. CASE SaveFx(p)
    <3>1. /\ pc[q] = "save" /\ pc'[q] \in {"index", "exit"} /\ pos'[q] = pos[q]
          /\ checkpoint'[q] = pos[q] - 1
      BY <1>5, <2>5 DEF SaveFx
    <3> QED
      BY <1>2, <1>3, <3>1 DEF Indexing
  <2>6. CASE FinishFx(p) \/ CrashFx(p)
    <3>1. pc'[q] \in {"off", "done"} /\ checkpoint' = checkpoint
      BY <1>5, <2>6 DEF FinishFx, CrashFx, SameDb
    <3> QED
      BY <1>3, <3>1 DEF Indexing
  <2> QED
    BY <2>1, <2>2, <2>3, <2>4, <2>5, <2>6 DEF Effect
<1> QED
  BY <1>4, <1>5

\* The next insert of a backfill leaves no gap.
LEMMA BackfillInsertStep ==
  ASSUME Core, PrefixInv, NEW p \in Pipelines, Effect(p), NEW b \in Backfills,
         pc'[b] = "insert", Table(b)' = "blocks",
         NEW h \in new'[b], NEW g \in Span(b), g <= h
  PROVE  g \in new'[b] \/ Seen("blocks", g)'
<1>0. TypeOK /\ CoverInv /\ HeldInv
  BY DEF Core
<1>a. /\ b \in Pipelines /\ b # Live /\ "blocks" \in Tables /\ g \in Heights /\ g \in Nat
      /\ pos[b] \in Nat /\ From(b) <= g
  BY SpanFacts, StartTypes DEF Tables
<1>2. CASE p # b
  <2>1. pc[b] = "insert" /\ Table(b) = "blocks" /\ new'[b] = new[b]
    BY <1>2, <1>a DEF Effect, Frame, Table
  <2>2. g \in new[b] \/ Seen("blocks", g)
    BY <2>1 DEF PrefixInv
  <2> QED
    BY <1>a, <2>1, <2>2, SeenGrows
<1>3. CASE p = b
  <2> DEFINE held == buf[b]["blocks"]
  <2>1. ProbeFx(b)
    BY <1>3 DEF Effect, BeginFx, IndexFx, EndFx, InsertFx, NextTableFx, FlushDoneFx,
                SaveFx, FinishFx, CrashFx
  <2>2. Table(b) = "blocks" /\ pc[b] = "probe"
    BY <2>1 DEF ProbeFx, Table
  <2>3. new'[b] = {k \in Chunk(held) : ~Seen("blocks", k)}
    BY <2>1, <2>2 DEF ProbeFx
  <2>4. held \subseteq Heights /\ held \subseteq Nat
    <3>1. buf \in [Pipelines -> [Tables -> SUBSET Heights]]
      BY <1>0 DEF TypeOK
    <3>2. held \subseteq Heights
      BY <1>a, <3>1
    <3> QED
      BY <3>2, SpanFacts
  <2>5. h \in Chunk(held) /\ h \in held /\ h \in Nat /\ h < pos[b]
    <3>1. h \in Chunk(held) /\ h \in held
      BY <2>3, <2>4, ChunkFacts
    <3> QED
      BY <1>0, <1>a, <2>4, <3>1 DEF HeldInv
  <2>6. CASE g = h
    BY <2>6
  <2>7. CASE g < h
    <3>1. Held(b, "blocks", g) \/ Seen("blocks", g)
      BY <1>0, <1>a, <2>2, <2>5, <2>7 DEF CoverInv, Indexing, Base
    <3>2. CASE Seen("blocks", g)
      BY <1>a, <3>2, SeenGrows
    <3>3. CASE ~Seen("blocks", g)
      <4>1. g \in held
        BY <2>2, <3>1, <3>3 DEF Held
      <4>2. g \in Chunk(held)
        BY <2>4, <2>5, <2>7, <4>1, ChunkFacts
      <4> QED
        BY <2>3, <3>3, <4>2
    <3> QED
      BY <3>2, <3>3
  <2> QED
    BY <1>a, <2>5, <2>6, <2>7
<1> QED
  BY <1>2, <1>3

LEMMA PrefixStep ==
  ASSUME Core, PrefixInv, NEW p \in Pipelines, Effect(p)
  PROVE  PrefixInv'
<1>1. ASSUME NEW b \in Backfills, NEW h \in Span(b), Seen("blocks", h)', NEW g \in Span(b), g <= h
      PROVE  Seen("blocks", g)'
  <2>a. b \in Pipelines /\ "blocks" \in Tables /\ h \in Heights /\ g \in Heights
    BY SpanFacts DEF Tables
  <2>1. CASE Seen("blocks", h)
    BY <1>1, <2>a, <2>1, SeenGrows DEF PrefixInv
  <2>2. CASE ~Seen("blocks", h)
    <3>1. rows'["blocks"][h] # rows["blocks"][h]
      BY <1>1, <2>2 DEF Seen
    <3>2. InsertFx(p) /\ Table(p) = "blocks" /\ h \in new[p] /\ h \in Span(p)
      BY <2>a, <3>1, SeenGrows
    <3>3. p = b /\ pc[b] = "insert"
      BY <2>a, <3>2, SpanFacts DEF InsertFx
    <3>4. g \in new[b] \/ Seen("blocks", g)
      BY <1>1, <3>2, <3>3 DEF PrefixInv
    <3> QED
      BY <2>a, <3>2, <3>3, <3>4, SeenGrows
  <2> QED
    BY <2>1, <2>2
<1> QED
  BY <1>1, BackfillInsertStep DEF PrefixInv, Span, From, To

\* The abstract log speaks of the same ranges and heights.
LEMMA LogFacts ==
  /\ Log!Ranges = Pipelines /\ Log!AllBlocks = Heights
  /\ \A p \in Pipelines : Log!In(p) = Span(p) /\ p[1] = From(p) /\ p[2] = To(p)
BY DEF Log!Ranges, Log!AllBlocks, Log!In, Pipelines, Heights, Span, From, To

LEMMA StoredFacts ==
  ASSUME NEW t \in Tables
  PROVE  /\ Stored(t) \subseteq Heights /\ Stored(t)' \subseteq Heights
         /\ \A h \in Heights : (h \in Stored(t) <=> Seen(t, h)) /\ (h \in Stored(t)' <=> Seen(t, h)')
BY DEF Stored, Heights, Span, Pipelines, From, To

\* What an insert adds to its table, and nothing to the others.
LEMMA InsertStores ==
  ASSUME Core, NEW p \in Pipelines, Effect(p), InsertFx(p)
  PROVE  /\ Table(p) \in Tables
         /\ new[p] \subseteq Span(p) /\ new[p] \subseteq Heights
         /\ \A h \in new[p] : Base(p) <= h /\ h < pos[p] /\ ~Seen(Table(p), h)
         /\ \A t \in Tables : Stored(t)' = IF t = Table(p) THEN Stored(t) \cup new[p] ELSE Stored(t)
<1>0. TypeOK /\ HeldInv /\ FreshInv
  BY DEF Core
<1>1. Table(p) \in Tables
  BY <1>0, OrderFacts DEF TypeOK, Table
<1>2. new[p] \subseteq Heights
  BY <1>0 DEF TypeOK
<1>3. \A h \in new[p] : h \in Span(p) /\ Base(p) <= h /\ h < pos[p]
  BY <1>0, <1>2 DEF HeldInv
<1>4. \A h \in new[p] : ~Seen(Table(p), h)
  BY <1>0 DEF FreshInv, InsertFx
<1>5. ASSUME NEW t \in Tables, NEW h \in Heights
      PROVE  Seen(t, h)' <=> Seen(t, h) \/ (t = Table(p) /\ h \in new[p])
  <2>1. Seen(t, h) => Seen(t, h)'
    BY SeenGrows
  <2>2. t = Table(p) /\ h \in new[p] => Seen(t, h)'
    BY SeenGrows
  <2>3. rows'[t][h] = IF t = Table(p) /\ h \in new[p] THEN More(rows[t][h]) ELSE rows[t][h]
    BY DEF InsertFx
  <2> QED
    BY <2>1, <2>2, <2>3 DEF Seen
<1>6. ASSUME NEW t \in Tables
      PROVE  Stored(t)' = IF t = Table(p) THEN Stored(t) \cup new[p] ELSE Stored(t)
  <2>1. Stored(t) \subseteq Heights /\ Stored(t)' \subseteq Heights
    BY StoredFacts
  <2>2. \A h \in Heights : h \in Stored(t)' <=> h \in Stored(t) \/ (t = Table(p) /\ h \in new[p])
    BY <1>5, StoredFacts
  <2> QED
    BY <1>2, <2>1, <2>2
<1> QED
  BY <1>1, <1>2, <1>3, <1>4, <1>6

\* Steps that leave the database alone are no steps of the log.
LEMMA LogStutters ==
  ASSUME UNCHANGED <<Stored("blocks"), Stored("prices"), Stored("trade_volume_by_account"),
                     ohlc, checkpoint>>
  PROVE  UNCHANGED Log!readable
BY DEF Log!readable

\* An insert of prices, volumes or upgrades.
LEMMA LogAdds ==
  ASSUME IInv, TypeOK', NEW p \in Pipelines, Effect(p), InsertFx(p), Table(p) # "blocks"
  PROVE  [Log!LogNext]_(Log!readable)
<1>0. /\ Core /\ TypeOK /\ Watermark /\ SingleInv
      /\ "blocks" \in Tables /\ "prices" \in Tables /\ "trade_volume_by_account" \in Tables
      /\ "runtime_upgrades" \in Tables
  BY Parts DEF IInv, Tables
<1> DEFINE hs == new[p]
<1>1. /\ Table(p) \in Tables /\ hs \subseteq Span(p) /\ hs \subseteq Heights
      /\ \A h \in hs : ~Seen(Table(p), h)
      /\ \A t \in Tables : Stored(t)' = IF t = Table(p) THEN Stored(t) \cup hs ELSE Stored(t)
  BY <1>0, InsertStores
<1>2. checkpoint' = checkpoint /\ Stored("blocks")' = Stored("blocks")
  BY <1>0, <1>1 DEF InsertFx
<1>3. ohlc' = [h \in Heights |-> IF Table(p) = "prices" /\ h \in hs THEN More(ohlc[h]) ELSE ohlc[h]]
  <2>1. ohlc' \in [Heights -> 0..Many]
    BY DEF TypeOK
  <2>2. \A h \in Heights : ohlc'[h] = IF Table(p) = "prices" /\ h \in hs THEN More(ohlc[h]) ELSE ohlc[h]
    BY DEF InsertFx
  <2> QED
    BY <2>1, <2>2
<1>4. Table(p) # "prices" => ohlc' = ohlc
  <2>1. ohlc \in [Heights -> 0..Many]
    BY <1>0 DEF TypeOK
  <2> QED
    BY <1>3, <2>1
<1>5. Table(p) \in {"prices", "trade_volume_by_account"} => hs \cap Stored("blocks") \subseteq Quiet
  <2>1. SUFFICES ASSUME Table(p) \in {"prices", "trade_volume_by_account"},
                        NEW h \in hs, h \in Stored("blocks"), h \notin Quiet
                 PROVE  FALSE
    OBVIOUS
  <2>2. h \in Heights /\ Seen("blocks", h)
    BY <1>0, <1>1, <2>1, StoredFacts
  <2>3. Seen("prices", h) /\ Seen("trade_volume_by_account", h)
    BY <1>0, <2>1, <2>2 DEF Watermark
  <2> QED
    BY <1>1, <2>1, <2>3
<1>6. hs \in SUBSET Log!In(p) /\ hs \subseteq Log!In(p) /\ p \in Log!Ranges
  BY <1>1, LogFacts
<1>7. CASE Table(p) = "prices"
  <2>1. hs \subseteq Log!In(p) \ Stored("prices")
    BY <1>0, <1>1, <1>6, <1>7, StoredFacts
  <2>2. ohlc' = [h \in Log!AllBlocks |-> IF h \in hs THEN ohlc[h] + 1 ELSE ohlc[h]]
    <3>1. ASSUME NEW h \in hs PROVE More(ohlc[h]) = ohlc[h] + 1
      <4>1. ohlc[h] = rows["prices"][h] /\ rows["prices"][h] \in 0..Many /\ ~Seen("prices", h)
        BY <1>0, <1>1, <1>7 DEF SingleInv, TypeOK
      <4>2. ohlc[h] = 0
        BY <4>1 DEF Seen, Many
      <4> QED
        BY <4>2 DEF More, Many
    <3> QED
      BY <1>3, <1>7, <3>1, LogFacts
  <2>3. Stored("trade_volume_by_account")' = Stored("trade_volume_by_account")
    BY <1>0, <1>1, <1>7
  <2>4. hs \cap Stored("blocks") \subseteq Quiet /\ Stored("prices")' = Stored("prices") \cup hs
    BY <1>1, <1>5, <1>7
  <2> HIDE DEF hs
  <2>5. Log!AddPrices(p, hs)
    BY <1>2, <2>1, <2>2, <2>3, <2>4 DEF Log!AddPrices
  <2> QED
    BY <1>6, <2>5 DEF Log!LogNext
<1>8. CASE Table(p) = "trade_volume_by_account"
  <2>1. hs \subseteq Log!In(p) \ Stored("trade_volume_by_account")
    BY <1>0, <1>1, <1>6, <1>8, StoredFacts
  <2>2. Stored("prices")' = Stored("prices") /\ ohlc' = ohlc
    BY <1>0, <1>1, <1>4, <1>8
  <2>3. /\ hs \cap Stored("blocks") \subseteq Quiet
        /\ Stored("trade_volume_by_account")' = Stored("trade_volume_by_account") \cup hs
    BY <1>1, <1>5, <1>8
  <2> HIDE DEF hs
  <2>4. Log!AddVolumes(p, hs)
    BY <1>2, <2>1, <2>2, <2>3 DEF Log!AddVolumes
  <2> QED
    BY <1>6, <2>4 DEF Log!LogNext
<1>9. CASE Table(p) = "runtime_upgrades"
  <2>1. /\ Stored("prices")' = Stored("prices")
        /\ Stored("trade_volume_by_account")' = Stored("trade_volume_by_account")
        /\ ohlc' = ohlc
    BY <1>0, <1>1, <1>4, <1>9
  <2> QED
    BY <1>2, <2>1, LogStutters
<1> QED
  BY <1>1, <1>7, <1>8, <1>9 DEF Tables

\* The heights a pipeline lists next continue what is listed of it.
LEMMA LogContinues ==
  ASSUME Core, PrefixInv, NEW p \in Pipelines, Effect(p), InsertFx(p), Table(p) = "blocks"
  PROVE  Log!Continues(p, new[p])
<1> DEFINE hs == new[p]
           listed == Stored("blocks") \cap Span(p)
<1>0. LiveInv /\ "blocks" \in Tables
  BY DEF Core, Tables
<1>1. hs \subseteq Span(p) /\ hs \subseteq Heights /\ \A h \in hs : ~Seen("blocks", h) /\ Base(p) <= h
  BY InsertStores
<1>2. Span(p) \subseteq Heights /\ Span(p) \subseteq Nat /\ From(p) \in Nat /\ To(p) \in Nat /\ origin \in Nat
      /\ Span(p) = From(p)..To(p)
  BY SpanFacts, StartTypes
<1>3. \A v \in listed : v \in Span(p) /\ Seen("blocks", v)
  BY <1>0, <1>2, StoredFacts
<1>4. \A v \in listed : Base(p) <= v
  <2>1. CASE p = Live
    BY <1>0, <1>3, <2>1 DEF LiveInv, Base
  <2>2. CASE p # Live
    BY <1>2, <1>3, <2>2 DEF Base
  <2> QED
    BY <2>1, <2>2
<1>5. ASSUME NEW v \in Span(p), Seen("blocks", v), NEW g \in Span(p), g <= v, Base(p) <= g
      PROVE  Seen("blocks", g)
  <2>1. CASE p = Live
    BY <1>0, <1>5, <2>1 DEF LiveInv, Base
  <2>2. CASE p # Live
    BY <1>5, <2>2, SpanFacts DEF PrefixInv
  <2> QED
    BY <2>1, <2>2
<1>6. ASSUME NEW h \in hs, NEW g \in Span(p), g <= h, Base(p) <= g
      PROVE  g \in hs \/ Seen("blocks", g)
  <2>0. pc[p] = "insert"
    BY DEF InsertFx
  <2>1. CASE p = Live
    BY <1>0, <1>6, <2>0, <2>1 DEF LiveInv, Base
  <2>2. CASE p # Live
    BY <1>6, <2>0, <2>2, SpanFacts DEF PrefixInv
  <2> QED
    BY <2>1, <2>2
<1>7. ASSUME NEW h \in hs, NEW v \in listed PROVE v < h
  <2>1. h \in Nat /\ v \in Nat /\ h \in Span(p) /\ v \in Span(p) /\ Seen("blocks", v) /\ ~Seen("blocks", h)
        /\ Base(p) <= h
    BY <1>1, <1>2, <1>3
  <2>2. ~(h <= v)
    BY <1>5, <2>1
  <2> QED
    BY <2>1, <2>2
<1>8. ASSUME NEW h \in hs, NEW v \in listed \cup hs, NEW g \in Span(p), v <= g, g <= h
      PROVE  g \in listed \cup hs
  <2>1. Base(p) <= v /\ v \in Nat /\ g \in Nat /\ Base(p) \in Nat /\ g \in Heights
    <3>1. Base(p) \in Nat
      BY <1>2 DEF Base
    <3> QED
      BY <1>1, <1>2, <1>3, <1>4, <3>1
  <2>2. Base(p) <= g
    BY <1>8, <2>1
  <2>3. g \in hs \/ Seen("blocks", g)
    BY <1>6, <1>8, <2>2
  <2> QED
    BY <1>0, <2>1, <2>3, StoredFacts
<1> QED
  BY <1>7, <1>8, LogFacts DEF Log!Continues

\* An insert into blocks.
LEMMA LogPublishes ==
  ASSUME IInv, PrefixInv, TypeOK', NEW p \in Pipelines, Effect(p), InsertFx(p), Table(p) = "blocks"
  PROVE  [Log!LogNext]_(Log!readable)
<1>0. /\ Core /\ TypeOK /\ PendingInv /\ RangeInv
      /\ "blocks" \in Tables /\ "prices" \in Tables /\ "trade_volume_by_account" \in Tables
  BY Parts DEF IInv, Tables
<1> DEFINE hs == new[p]
<1>1. /\ hs \subseteq Span(p) /\ hs \subseteq Heights
      /\ Stored("blocks")' = Stored("blocks") \cup hs
      /\ Stored("prices")' = Stored("prices")
      /\ Stored("trade_volume_by_account")' = Stored("trade_volume_by_account")
  <2>1. hs \subseteq Span(p) /\ hs \subseteq Heights
    BY <1>0, InsertStores
  <2>2. \A t \in Tables : Stored(t)' = IF t = Table(p) THEN Stored(t) \cup hs ELSE Stored(t)
    BY <1>0, InsertStores
  <2>3. Stored("blocks")' = Stored("blocks") \cup hs
    BY <1>0, <2>2
  <2>4. Stored("prices")' = Stored("prices")
    BY <1>0, <2>2
  <2>5. Stored("trade_volume_by_account")' = Stored("trade_volume_by_account")
    BY <1>0, <2>2
  <2> QED
    BY <2>1, <2>3, <2>4, <2>5
<1>2. checkpoint' = checkpoint /\ ohlc' = ohlc
  <2>1. ohlc \in [Heights -> 0..Many] /\ ohlc' \in [Heights -> 0..Many]
    BY <1>0 DEF TypeOK
  <2>2. \A h \in Heights : ohlc'[h] = ohlc[h]
    BY DEF InsertFx
  <2> QED
    BY <2>1, <2>2 DEF InsertFx
<1>3. pc[p] = "insert" /\ Indexing(p)
  BY DEF InsertFx, Indexing
<1>4. \A t \in Tables : t # "blocks" => \A h \in Heights : ~Held(p, t, h)
  BY <1>0, <1>3, BlocksLast
<1>5. hs \subseteq Quiet \cup (Stored("prices") \cap Stored("trade_volume_by_account"))
  <2>1. SUFFICES ASSUME NEW h \in hs, h \notin Quiet
                 PROVE  h \in Stored("prices") /\ h \in Stored("trade_volume_by_account")
    OBVIOUS
  <2>2. h \in Heights /\ Held(p, "blocks", h)
    BY <1>1, <1>3, <2>1 DEF Held
  <2>3. \A t \in {"prices", "trade_volume_by_account"} : Held(p, t, h) \/ Seen(t, h)
    BY <1>0, <2>1, <2>2 DEF PendingInv
  <2>4. Seen("prices", h) /\ Seen("trade_volume_by_account", h)
    BY <1>0, <1>4, <2>2, <2>3
  <2> QED
    BY <1>0, <2>2, <2>4, StoredFacts
<1>6. Log!Continues(p, hs)
  BY <1>0, LogContinues
<1>7. CASE hs = {}
  BY <1>1, <1>2, <1>7, LogStutters
<1>8. CASE hs # {}
  <2>1. p # Live => Log!WholeRange(p, hs)
    <3>1. SUFFICES ASSUME p # Live PROVE Log!WholeRange(p, hs)
      OBVIOUS
    <3>2. p \in Backfills /\ To(p) < pos[p] /\ pos[p] \in Nat /\ From(p) \in Nat /\ To(p) \in Nat
          /\ From(p) <= To(p) /\ From(p) \in Span(p) /\ Span(p) \subseteq Heights /\ Span(p) = From(p)..To(p)
      BY <1>0, <1>3, <3>1, SpanFacts, StartTypes DEF RangeInv
    <3>3. ASSUME NEW h \in Span(p), h \notin Quiet PROVE h \in Stored("prices")
      <4>1. h < pos[p] /\ h \in Heights
        BY <3>2
      <4>2. Held(p, "prices", h) \/ Seen("prices", h)
        BY <1>0, <1>3, <3>2, <3>3, <4>1 DEF RangeInv
      <4> QED
        BY <1>0, <1>4, <4>1, <4>2, StoredFacts
    <3>4. From(p) \in Stored("blocks") \cup hs
      <4>1. PICK h \in hs : TRUE
        BY <1>8
      <4>2. From(p) <= h
        BY <1>1, <3>2
      <4>3. From(p) \in hs \/ Seen("blocks", From(p))
        BY <1>3, <3>2, <4>1, <4>2 DEF PrefixInv
      <4> QED
        BY <1>0, <3>2, <4>3, StoredFacts
    <3> QED
      BY <3>1, <3>3, <3>4, LogFacts DEF Log!WholeRange
  <2>2. hs \in SUBSET Log!In(p) /\ hs \subseteq Log!In(p) /\ p \in Log!Ranges
    BY <1>1, LogFacts
  <2>3. Log!Publish(p, hs)
    BY <1>1, <1>2, <1>5, <1>6, <1>8, <2>1, <2>2 DEF Log!Publish
  <2> HIDE DEF hs
  <2> QED
    BY <2>2, <2>3 DEF Log!LogNext
<1> QED
  BY <1>7, <1>8

\* A checkpoint.
LEMMA LogSaves ==
  ASSUME IInv, ForwardInv, TypeOK', NEW p \in Pipelines, Effect(p), SaveFx(p)
  PROVE  [Log!LogNext]_(Log!readable)
<1> DEFINE h == pos[p] - 1
<1>0. Core /\ TypeOK /\ PhaseInv /\ CoverInv /\ RangeInv
  BY Parts DEF IInv
<1>1. pc[p] = "save" /\ Indexing(p) /\ checkpoint'[p] = h /\ rows' = rows /\ ohlc' = ohlc
  BY DEF SaveFx, Indexing
<1>2. /\ pos[p] \in Nat /\ From(p) \in Nat /\ To(p) \in Nat /\ origin \in Nat
      /\ checkpoint[p] \in Int /\ Span(p) = From(p)..To(p) /\ Span(p) \subseteq Heights
  BY <1>0, SpanFacts, StartTypes DEF TypeOK, NoCheckpoint
<1>3. pos[p] <= To(p) + 1 /\ Base(p) < pos[p]
  BY <1>1 DEF ForwardInv
<1>4. From(p) <= Base(p) /\ Base(p) \in Nat
  <2>1. From(Live) <= origin
    BY <1>0, SpanFacts DEF TypeOK
  <2> QED
    BY <1>2, <2>1 DEF Base
<1>5. h \in Span(p) /\ h \in Nat /\ Base(p) <= h /\ h < pos[p] /\ h \in Heights
  BY <1>2, <1>3, <1>4
<1>6. Seen("blocks", h)
  <2>1. buf[p] = NoRows /\ "blocks" \in Tables
    BY <1>0, <1>1 DEF PhaseInv, Tables
  <2>2. ~Held(p, "blocks", h)
    BY <1>1, <2>1 DEF Held, NoRows
  <2>3. Held(p, "blocks", h) \/ Seen("blocks", h)
    BY <1>0, <1>1, <1>5 DEF CoverInv
  <2> QED
    BY <2>2, <2>3
<1>7. checkpoint[p] <= h /\ (p # Live => h = To(p))
  <2>1. CASE p = Live
    <3>1. checkpoint[p] < pos[p]
      BY <1>1, <2>1 DEF ForwardInv
    <3> QED
      BY <1>2, <2>1, <3>1
  <2>2. CASE p # Live
    <3>1. checkpoint[p] <= To(p)
      BY <2>2 DEF ForwardInv
    <3>2. To(p) < pos[p]
      BY <1>0, <1>1, <2>2, SpanFacts DEF RangeInv
    <3> QED
      BY <1>2, <1>3, <3>1, <3>2
  <2> QED
    BY <2>1, <2>2
<1>8. checkpoint' = [checkpoint EXCEPT ![p] = h]
  <2>1. /\ checkpoint \in [Pipelines -> Nat \cup {NoCheckpoint}]
        /\ checkpoint' \in [Pipelines -> Nat \cup {NoCheckpoint}]
    BY <1>0 DEF TypeOK
  <2>2. \A q \in Pipelines : q # p => checkpoint'[q] = checkpoint[q]
    BY DEF Effect, Frame
  <2> HIDE DEF h
  <2> QED
    BY <1>1, <2>1, <2>2
<1>9. UNCHANGED <<Stored("blocks"), Stored("prices"), Stored("trade_volume_by_account")>>
  BY <1>1 DEF Stored, Seen, Heights, Span, Pipelines, From, To
<1>10. CASE checkpoint[p] = h
  <2>1. checkpoint' = checkpoint
    BY <1>0, <1>8, <1>10 DEF TypeOK
  <2> QED
    BY <1>1, <1>9, <2>1, LogStutters
<1>11. CASE checkpoint[p] # h
  <2>1. checkpoint[p] < h
    BY <1>2, <1>5, <1>7, <1>11
  <2>2. h \in Stored("blocks")
    BY <1>5, <1>6 DEF Stored
  <2>3. h \in Log!In(p) /\ p \in Log!Ranges /\ (p # Live => h = p[2])
    BY <1>5, <1>7, LogFacts
  <2> HIDE DEF h
  <2>4. Log!Save(p, h)
    BY <1>1, <1>8, <1>9, <2>1, <2>2, <2>3 DEF Log!Save
  <2> QED
    BY <2>3, <2>4 DEF Log!LogNext
<1> QED
  BY <1>10, <1>11

\* Every behaviour of the pipelines, whatever dies and is replayed, is a behaviour of
\* what the readers of `blocks` are promised.
THEOREM RefinesPublication == Spec => ImplementsPublication
<1> DEFINE PInv == IInv /\ ForwardInv /\ PrefixInv
<1>1. Init => PInv /\ Log!LogInit
  <2> SUFFICES ASSUME Init PROVE PInv /\ Log!LogInit
    OBVIOUS
  <2>1. IInv
    BY InitIInv
  <2>2. \A t \in Tables : \A h \in Heights : ~Seen(t, h)
    BY DEF Init, Seen
  <2>3. \A p \in Pipelines : pc[p] = "off" /\ checkpoint[p] = -1 /\ To(p) \in Nat
    BY SpanFacts DEF Init, NoCheckpoint
  <2>4. ForwardInv
    BY <2>3 DEF ForwardInv, Indexing
  <2>5. PrefixInv
    <3>1. "blocks" \in Tables /\ \A b \in Backfills : b \in Pipelines /\ Span(b) \subseteq Heights
      BY SpanFacts DEF Tables
    <3> QED
      BY <2>2, <2>3, <3>1 DEF PrefixInv
  <2>6. Stored("blocks") = {} /\ Stored("prices") = {} /\ Stored("trade_volume_by_account") = {}
    BY <2>2 DEF Stored, Tables
  <2>7. Log!LogInit
    BY <2>6, LogFacts DEF Init, Log!LogInit, NoCheckpoint
  <2> QED
    BY <2>1, <2>4, <2>5, <2>7
<1>2. PInv /\ [Next]_vars => PInv' /\ [Log!LogNext]_(Log!readable)
  <2>1. ASSUME PInv, UNCHANGED vars PROVE PInv' /\ [Log!LogNext]_(Log!readable)
    <3>1. UNCHANGED <<rows, ohlc, checkpoint, pc, pos, first, buf, tbl, new, origin, faults>>
      BY <2>1 DEF vars, db, memory
    <3>2. IInv'
      BY <2>1, StutterIInv
    <3>3. ForwardInv' /\ PrefixInv'
      BY <2>1, <3>1 DEF ForwardInv, PrefixInv, Indexing, Base, Seen, Table, From, To, Span
    <3>4. UNCHANGED <<Stored("blocks"), Stored("prices"), Stored("trade_volume_by_account")>>
      BY <3>1 DEF Stored, Seen, Heights, Span, Pipelines, From, To
    <3> QED
      BY <3>1, <3>2, <3>3, <3>4, LogStutters
  <2>2. ASSUME PInv, Next PROVE PInv' /\ [Log!LogNext]_(Log!readable)
    <3>1. PICK p \in Pipelines : Effect(p)
      BY <2>2, Effects DEF IInv
    <3>2. Core
      BY <2>2, Parts
    <3>3. IInv'
      BY <2>2, IInvStep
    <3>4. ForwardInv' /\ PrefixInv' /\ TypeOK'
      BY <2>2, <3>1, <3>2, <3>3, ForwardStep, PrefixStep DEF IInv
    <3>5. CASE InsertFx(p)
      BY <2>2, <3>1, <3>3, <3>4, <3>5, LogAdds, LogPublishes
    <3>6. CASE SaveFx(p)
      BY <2>2, <3>1, <3>3, <3>4, <3>6, LogSaves
    <3>7. CASE ~InsertFx(p) /\ ~SaveFx(p)
      <4>1. SameDb
        BY <3>1, <3>7 DEF Effect, BeginFx, IndexFx, EndFx, ProbeFx, NextTableFx, FlushDoneFx,
                          FinishFx, CrashFx
      <4>2. UNCHANGED <<Stored("blocks"), Stored("prices"), Stored("trade_volume_by_account")>>
        BY <4>1 DEF SameDb, Stored, Seen, Heights, Span, Pipelines, From, To
      <4> QED
        BY <3>3, <3>4, <4>1, <4>2, LogStutters DEF SameDb
    <3> QED
      BY <3>3, <3>4, <3>5, <3>6, <3>7
  <2> QED
    BY <2>1, <2>2
<1> QED
  BY <1>1, <1>2, PTL DEF Spec, ImplementsPublication, Log!LogSpec

-----------------------------------------------------------------------------
(* The rollback.                                                           *)

\* The heights the rollback in progress, or the one to be repeated, leaves alone.
Untouched == {h \in Heights : target = None \/ h < target}

\* A target is kept from the first command to the checkpoint's reset, through failures,
\* and the live follower stands still; once `blocks` is deleted nothing above is visible.
CommandInv ==
  /\ RollbackTypeOK
  /\ AtRest <=> target = None
  /\ target # None => pc[Live] \in {"off", "done"} /\ target <= checkpoint[Live]
  /\ at # "idle" => (low = None <=> high = None)
  /\ at \in {"upgrades", "clear", "restore", "save"} =>
       \A h \in Heights : h >= target => ~Seen("blocks", h)

RInv == Core /\ CommandInv /\ Healthy(Untouched)

LEMMA TargetFacts ==
  ASSUME CommandInv, target # None
  PROVE  /\ target \in Span(Live) /\ target \in Nat
         /\ \A b \in Backfills : \A h \in Span(b) : h \in Untouched /\ h < target
<1>1. target \in Span(Live) /\ target \in Nat /\ From(Live) <= target
  BY SpanFacts DEF CommandInv, RollbackTypeOK
<1>2. ASSUME NEW b \in Backfills, NEW h \in Span(b) PROVE h < target /\ h \in Heights
  <2>1. To(b) < From(Live) /\ b \in Pipelines
    BY SpansAssumption, SpanFacts
  <2>2. h \in Heights /\ h \in Nat /\ h <= To(b) /\ To(b) \in Nat /\ From(Live) \in Nat
    BY <2>1, SpanFacts
  <2> QED
    BY <1>1, <2>1, <2>2
<1> QED
  BY <1>1, <1>2 DEF Untouched

\* A live follower that is not running holds nothing.
LEMMA RestingLive ==
  ASSUME Core, pc[Live] \in {"off", "done"}, NEW p \in Pipelines
  PROVE  /\ Indexing(p) => p \in Backfills
         /\ pc[p] = "insert" => p \in Backfills
         /\ \A t \in Tables : \A h \in Heights : Held(p, t, h) => p \in Backfills /\ h \in Span(p)
<1>1. p # Live => p \in Backfills
  BY SpanFacts
<1>2. buf[Live] = NoRows /\ \A t \in Tables : NoRows[t] = {}
  BY SpanFacts DEF Core, PhaseInv, NoRows
<1>3. \A t \in Tables : \A h \in Heights : Held(p, t, h) => h \in Span(p) /\ p # Live
  BY <1>2 DEF Core, HeldInv, Held
<1> QED
  BY <1>1, <1>3 DEF Indexing

LEMMA DeletedRows ==
  ASSUME Core, CommandInv, target # None, NEW t \in Tables,
         rows' = [rows EXCEPT ![t] = [h \in Heights |-> IF h >= target THEN 0 ELSE @[h]]]
  PROVE  /\ rows' \in [Tables -> [Heights -> 0..Many]]
         /\ \A u \in Tables : \A h \in Heights :
              /\ Seen(u, h)' => Seen(u, h)
              /\ h < target \/ u # t => (Seen(u, h)' <=> Seen(u, h))
              /\ h >= target => ~Seen(t, h)'
<1>1. rows \in [Tables -> [Heights -> 0..Many]]
  BY DEF Core, TypeOK
<1>2. target \in Nat /\ Heights \subseteq Nat
  BY TargetFacts, SpanFacts
<1>3. \A u \in Tables : \A h \in Heights :
         rows'[u][h] = IF u = t /\ h >= target THEN 0 ELSE rows[u][h]
  BY <1>1
<1>4. rows' \in [Tables -> [Heights -> 0..Many]]
  <2>1. [h \in Heights |-> IF h >= target THEN 0 ELSE rows[t][h]] \in [Heights -> 0..Many]
    BY <1>1 DEF Many
  <2> QED
    BY <1>1, <2>1
<1> QED
  BY <1>2, <1>3, <1>4 DEF Seen

LEMMA DeleteCore ==
  ASSUME Core, CommandInv, target # None, NEW t \in Tables,
         rows' = [rows EXCEPT ![t] = [h \in Heights |-> IF h >= target THEN 0 ELSE @[h]]],
         UNCHANGED <<ohlc, checkpoint, process>>
  PROVE  Core'
<1>1. UNCHANGED <<pc, pos, first, buf, tbl, new, origin, faults>>
  BY DEF process, memory
<1>2. /\ rows' \in [Tables -> [Heights -> 0..Many]]
      /\ \A u \in Tables : \A h \in Heights :
           /\ Seen(u, h)' => Seen(u, h)
           /\ h < target \/ u # t => (Seen(u, h)' <=> Seen(u, h))
           /\ h >= target => ~Seen(t, h)'
  BY DeletedRows
<1>3. \A b \in Backfills : \A h \in Span(b) : h \in Heights /\ h < target
  BY TargetFacts DEF Untouched
<1>4. pc[Live] \in {"off", "done"}
  BY DEF CommandInv
<1>5. \A p \in Pipelines : \A u \in Tables : \A h \in Heights :
        /\ Held(p, u, h)' <=> Held(p, u, h)
        /\ Table(p)' = Table(p) /\ Base(p)' = Base(p) /\ (Indexing(p)' <=> Indexing(p))
        /\ Table(p) \in Tables
  BY <1>1, OrderFacts DEF Held, Table, Base, Indexing, Core, TypeOK
<1>6. "blocks" \in Tables /\ "prices" \in Tables /\ "trade_volume_by_account" \in Tables
  BY DEF Tables
<1>7. TypeOK'
  BY <1>1, <1>2 DEF Core, TypeOK
<1>8. PhaseInv' /\ StartInv' /\ HeldInv' /\ OrderInv'
  BY <1>1 DEF Core, PhaseInv, StartInv, HeldInv, OrderInv, Base
<1>9. FreshInv'
  <2> SUFFICES ASSUME NEW p \in Pipelines, pc[p] = "insert", NEW h \in new[p]
               PROVE  ~Seen(Table(p), h)'
    BY <1>1 DEF FreshInv, Table, Seen
  <2>1. ~Seen(Table(p), h) /\ h \in Heights /\ Table(p) \in Tables
    BY <1>5 DEF Core, FreshInv, TypeOK
  <2>2. ~(rows'[Table(p)][h] > 0)
    BY <1>2, <2>1 DEF Seen
  <2>3. Table(p)' = Table(p)
    BY <1>1 DEF Table
  <2> QED
    BY <2>2, <2>3 DEF Seen
<1>10. PendingInv'
  <2> SUFFICES ASSUME NEW p \in Pipelines, NEW h \in Heights, h \notin Quiet, Held(p, "blocks", h),
                      NEW u \in {"prices", "trade_volume_by_account"}
               PROVE  Held(p, u, h) \/ Seen(u, h)'
    BY <1>5, <1>6 DEF PendingInv
  <2>1. h < target
    BY <1>3, <1>4, <1>6, RestingLive
  <2> QED
    BY <1>2, <1>6, <2>1 DEF Core, PendingInv
<1>11. CoverInv'
  <2> SUFFICES ASSUME NEW p \in Pipelines, Indexing(p), NEW h \in Span(p), Base(p) <= h, h < pos[p]
               PROVE  Held(p, "blocks", h) \/ Seen("blocks", h)'
    BY <1>1, <1>5, <1>6, SpanFacts DEF CoverInv, Base, Indexing, Held, Table
  <2>1. h < target /\ h \in Heights
    BY <1>3, <1>4, RestingLive
  <2> QED
    BY <1>2, <1>6, <2>1 DEF Core, CoverInv
<1>12. LiveInv'
  <2>0. Span(Live) \subseteq Heights /\ Heights \subseteq Nat /\ target \in Nat
    BY SpanFacts, TargetFacts
  <2>1. ASSUME NEW h \in Span(Live), Seen("blocks", h)', NEW g \in Span(Live), g <= h, origin <= g
        PROVE  Seen("blocks", g)'
    <3>1. Seen("blocks", h) /\ (t = "blocks" => ~(h >= target))
      BY <1>2, <1>6, <2>0, <2>1
    <3>2. Seen("blocks", g)
      BY <2>1, <3>1 DEF Core, LiveInv
    <3>3. t = "blocks" => g < target
      <4>1. h \in Nat /\ g \in Nat
        BY <2>0
      <4> QED
        BY <2>0, <2>1, <3>1, <4>1
    <3> QED
      BY <1>2, <1>6, <2>0, <3>2, <3>3
  <2>2. \A h \in Span(Live) : Seen("blocks", h)' => Seen("blocks", h)
    BY <1>2, <1>6, <2>0
  <2>3. pc'[Live] # "insert"
    BY <1>1, <1>4
  <2>4. /\ pc'[Live] # "off" => origin' <= pos'[Live]
        /\ /\ checkpoint'[Live] # NoCheckpoint
           /\ pc'[Live] # "off" \/ \E g \in Span(Live) : Seen("blocks", g)'
           => origin' <= checkpoint'[Live] + 1
        /\ \A h \in Span(Live) : Seen("blocks", h)' => origin' <= h
    BY <1>1, <2>2 DEF Core, LiveInv
  <2> QED
    BY <1>1, <2>1, <2>3, <2>4 DEF LiveInv, NoCheckpoint
<1>13. RangeInv'
  <2>1. \A b \in Backfills : pc'[b] \in {"probe", "insert", "save"} => To(b) < pos'[b]
    BY <1>1 DEF Core, RangeInv
  <2>2. ASSUME NEW b \in Backfills, Indexing(b), NEW h \in Span(b), h < pos[b], h \notin Quiet
        PROVE  Held(b, "prices", h)' \/ Seen("prices", h)'
    <3>1. Held(b, "prices", h) \/ Seen("prices", h)
      BY <2>2 DEF Core, RangeInv
    <3>2. b \in Pipelines /\ h \in Heights /\ h < target
      BY <1>3, SpanFacts
    <3> QED
      BY <1>2, <1>5, <1>6, <3>1, <3>2
  <2>3. \A b \in Backfills : (Indexing(b)' <=> Indexing(b)) /\ pos'[b] = pos[b]
    BY <1>1 DEF Indexing
  <2> QED
    BY <2>1, <2>2, <2>3 DEF RangeInv
<1>14. WholeRangePriced'
  BY <1>2, <1>3, <1>6 DEF Core, WholeRangePriced
<1> QED
  BY <1>7, <1>8, <1>9, <1>10, <1>11, <1>12, <1>13, <1>14 DEF Core

LEMMA DeleteStep ==
  ASSUME RInv, DeletePrices \/ DeleteVolumes \/ DeleteBlocks \/ DeleteUpgrades
  PROVE  RInv'
<1>1. PICK t \in Tables :
        /\ rows' = [rows EXCEPT ![t] = [h \in Heights |-> IF h >= target THEN 0 ELSE @[h]]]
        /\ UNCHANGED <<ohlc, checkpoint, process, target, torn, low, high, rollbacks>>
        /\ \/ at = "prices" /\ at' = "volumes"
           \/ at = "volumes" /\ at' = "blocks"
           \/ at = "blocks" /\ at' = "upgrades" /\ t = "blocks"
           \/ at = "upgrades" /\ at' = (IF low = None THEN "save" ELSE "clear") /\ t = "runtime_upgrades"
  BY DEF DeletePrices, DeleteVolumes, DeleteBlocks, DeleteUpgrades, Delete, Run, Tables
<1>2. Core /\ CommandInv /\ target # None /\ at # "idle"
  BY <1>1 DEF RInv, CommandInv, AtRest
<1>3. Core'
  BY <1>1, <1>2, DeleteCore
<1>4. \A u \in Tables : \A h \in Heights :
        /\ Seen(u, h)' => Seen(u, h)
        /\ h < target \/ u # t => (Seen(u, h)' <=> Seen(u, h))
        /\ h >= target => ~Seen(t, h)'
  BY <1>1, <1>2, DeletedRows
<1>5. UNCHANGED <<pc, origin, checkpoint, target, torn>> /\ at' # "idle"
  BY <1>1, <1>2 DEF process
<1>6. "blocks" \in Tables /\ "prices" \in Tables /\ "trade_volume_by_account" \in Tables
  BY DEF Tables
<1>7. RollbackTypeOK'
  BY <1>1, <1>2, <1>3 DEF RollbackTypeOK, CommandInv, Core
<1>8. at' \in {"upgrades", "clear", "restore", "save"} => \A h \in Heights : h >= target => ~Seen("blocks", h)'
  BY <1>1, <1>2, <1>4, <1>6 DEF CommandInv
<1>9. CommandInv'
  BY <1>1, <1>2, <1>5, <1>7, <1>8 DEF CommandInv, AtRest
<1>10. \A h \in Heights : h < target => Healthy({h})'
  <2> SUFFICES ASSUME NEW h \in Heights, h < target PROVE Healthy({h})'
    OBVIOUS
  <2>1. Healthy({h})
    BY DEF RInv, Healthy, Untouched
  <2>2. \A u \in Tables : Seen(u, h)' <=> Seen(u, h)
    BY <1>4
  <2> QED
    BY <1>5, <1>6, <2>1, <2>2 DEF Healthy
<1>11. Healthy(Untouched)'
  BY <1>2, <1>5, <1>10 DEF Healthy, Untouched
<1> QED
  BY <1>3, <1>9, <1>11 DEF RInv

\* A step that leaves blocks, prices, checkpoints and processes alone.
LEMMA HealthyKept ==
  ASSUME Healthy(Untouched), UNCHANGED <<rows, checkpoint, origin>>, Untouched' \subseteq Untouched
  PROVE  Healthy(Untouched)'
BY DEF Healthy, Seen

LEMMA BeginStep ==
  ASSUME RInv, NEW n \in Span(Live), BeginRollback(n)
  PROVE  RInv'
<1> DEFINE doomed == {h \in Heights : h >= n /\ Seen("blocks", h)}
<1>1. /\ at = "idle" /\ at' = "prices" /\ pc[Live] \in {"off", "done"} /\ rollbacks < MaxRollbacks
      /\ IF torn THEN n = target ELSE n <= checkpoint[Live]
      /\ target' = n /\ rollbacks' = rollbacks + 1 /\ UNCHANGED <<vars, torn>>
  BY DEF BeginRollback, Run
<1>2. /\ low' \in Heights \cup {None} /\ high' \in Heights \cup {None}
      /\ IF doomed = {} THEN low' = None ELSE low' \in doomed
      /\ IF doomed = {} THEN high' = None ELSE high' \in doomed
  BY DEF BeginRollback
<1>3. doomed \subseteq Nat /\ n \in Nat
  BY SpanFacts
<1>4. low' = None <=> high' = None
  <2> HIDE DEF doomed
  <2> QED
    BY <1>2, <1>3 DEF None
<1>5. UNCHANGED <<rows, ohlc, checkpoint, pc, memory, origin, faults>> /\ UNCHANGED <<pos, first, buf, tbl, new>>
  BY <1>1 DEF vars, db, memory
<1>6. Core /\ CommandInv /\ Healthy(Untouched)
  BY DEF RInv
<1>7. TypeOK'
  BY <1>5, <1>6 DEF Core, TypeOK
<1>8. Core'
  BY <1>5, <1>6, <1>7, CoreKept
<1>9. RollbackTypeOK'
  <2>1. rollbacks' \in 0..MaxRollbacks
    BY <1>1, <1>6, CandleAssumption DEF CommandInv, RollbackTypeOK
  <2> QED
    BY <1>1, <1>2, <1>6, <1>7, <2>1 DEF CommandInv, RollbackTypeOK
<1>10. n <= checkpoint[Live] /\ (target = None \/ target = n) /\ n # None
  BY <1>1, <1>3, <1>6 DEF CommandInv, AtRest, None
<1>11. CommandInv'
  BY <1>1, <1>4, <1>5, <1>9, <1>10 DEF CommandInv, AtRest
<1>12. Untouched' \subseteq Untouched
  BY <1>1, <1>10 DEF Untouched
<1> QED
  BY <1>5, <1>6, <1>8, <1>11, <1>12, HealthyKept DEF RInv

LEMMA CandleStep ==
  ASSUME RInv, ClearCandles \/ RestorePrefix
  PROVE  RInv'
<1>1. /\ UNCHANGED <<rows, checkpoint, process, target, torn, low, high, rollbacks>>
      /\ \/ at = "clear" /\ at' = "restore"
         \/ at = "restore" /\ at' = "save"
  BY DEF ClearCandles, RestorePrefix, Run
<1>2. UNCHANGED <<pc, memory, origin, faults, pos, first, buf, tbl, new>>
  BY <1>1 DEF process, memory
<1>3. Core /\ CommandInv /\ Healthy(Untouched)
  BY DEF RInv
<1>4. ohlc' \in [Heights -> 0..Many]
  <2>1. ohlc \in [Heights -> 0..Many] /\ \A n \in 0..Many : More(n) \in 0..Many
    BY <1>3 DEF Core, TypeOK, More, Many
  <2>2. CASE ClearCandles
    BY <2>1, <2>2 DEF ClearCandles, Many
  <2>3. CASE RestorePrefix
    BY <2>1, <2>3 DEF RestorePrefix
  <2> QED
    BY <2>2, <2>3
<1>5. TypeOK'
  BY <1>1, <1>2, <1>3, <1>4 DEF Core, TypeOK
<1>6. Core'
  BY <1>1, <1>2, <1>3, <1>5, CoreKept
<1>7. CommandInv'
  BY <1>1, <1>2, <1>3, <1>5 DEF CommandInv, RollbackTypeOK, AtRest, Seen
<1>8. Untouched' \subseteq Untouched
  BY <1>1 DEF Untouched
<1> QED
  BY <1>1, <1>2, <1>3, <1>6, <1>7, <1>8, HealthyKept DEF RInv

LEMMA FailStep ==
  ASSUME RInv, RollbackFails
  PROVE  RInv'
<1>1. /\ at # "idle" /\ faults < MaxFaults /\ faults' = faults + 1
      /\ at' = "idle" /\ torn' = TRUE /\ low' = None /\ high' = None
      /\ UNCHANGED <<rows, ohlc, checkpoint, pc, memory, origin, target, rollbacks>>
  BY DEF RollbackFails, db
<1>2. UNCHANGED <<pos, first, buf, tbl, new>>
  BY <1>1 DEF memory
<1>3. Core /\ CommandInv /\ Healthy(Untouched)
  BY DEF RInv
<1>4. TypeOK'
  <2>1. faults' \in 0..MaxFaults
    BY <1>1, <1>3, PublisherBoundsAssumption DEF Core, TypeOK
  <2> QED
    BY <1>1, <1>2, <1>3, <2>1 DEF Core, TypeOK
<1>5. Core'
  BY <1>1, <1>3, <1>4, CoreKept
<1>6. CommandInv'
  BY <1>1, <1>3, <1>4 DEF CommandInv, RollbackTypeOK, AtRest
<1>7. Untouched' \subseteq Untouched
  BY <1>1 DEF Untouched
<1> QED
  BY <1>1, <1>3, <1>5, <1>6, <1>7, HealthyKept DEF RInv

\* The checkpoint goes back to where everything is published, and the live follower's next
\* process starts there.
LEMMA ResetStep ==
  ASSUME RInv, ResetCheckpoint
  PROVE  RInv'
<1>1. /\ at = "save" /\ at' = "idle"
      /\ checkpoint' = [checkpoint EXCEPT ![Live] = target - 1]
      /\ pc' = [pc EXCEPT ![Live] = "off"] /\ first' = [first EXCEPT ![Live] = TRUE]
      /\ target' = None /\ torn' = FALSE /\ low' = None /\ high' = None
      /\ UNCHANGED <<rows, ohlc, pos, buf, tbl, new, origin, faults, rollbacks>>
  BY DEF ResetCheckpoint, Run
<1>2. Core /\ CommandInv /\ Healthy(Untouched) /\ target # None
  BY <1>1 DEF RInv, CommandInv, AtRest
<1>3. /\ target \in Span(Live) /\ target \in Nat /\ pc[Live] \in {"off", "done"}
      /\ \A b \in Backfills : \A h \in Span(b) : h \in Untouched /\ h < target
      /\ \A h \in Heights : h >= target => ~Seen("blocks", h)
  BY <1>1, <1>2, TargetFacts DEF CommandInv
<1>4. TypeOK
  BY <1>2 DEF Core
<1>5. /\ \A p \in Pipelines : p # Live => pc'[p] = pc[p] /\ checkpoint'[p] = checkpoint[p]
      /\ Live \in Pipelines /\ pc'[Live] = "off" /\ checkpoint'[Live] = target - 1
      /\ \A p \in Pipelines : p # Live => p \in Backfills
  BY <1>1, <1>4, SpanFacts DEF TypeOK
<1>6. TypeOK'
  <2>1. target - 1 \in Nat \cup {NoCheckpoint}
    BY <1>3 DEF NoCheckpoint
  <2> QED
    BY <1>1, <1>4, <2>1 DEF TypeOK
<1>7. \A p \in Pipelines : \A t \in Tables : \A h \in Heights :
        /\ Seen(t, h)' <=> Seen(t, h)
        /\ Held(p, t, h)' <=> Held(p, t, h)
        /\ Table(p)' = Table(p) /\ Base(p)' = Base(p)
        /\ Indexing(p)' => Indexing(p) /\ p # Live
  <2>1. buf[Live] = NoRows /\ \A t \in Tables : NoRows[t] = {}
    BY <1>2, <1>3, <1>5 DEF Core, PhaseInv, NoRows
  <2> QED
    BY <1>1, <1>3, <1>5, <2>1 DEF Seen, Held, Table, Base, Indexing
<1>8. PhaseInv' /\ StartInv' /\ HeldInv' /\ OrderInv'
  BY <1>1, <1>2, <1>3, <1>5 DEF Core, PhaseInv, StartInv, HeldInv, OrderInv, Base
<1>9. FreshInv'
  BY <1>1, <1>2, <1>5 DEF Core, FreshInv, Seen, Table
<1>10. PendingInv'
  BY <1>2, <1>7 DEF Core, PendingInv, Tables
<1>11. CoverInv'
  <2>1. \A p \in Pipelines : \A h \in Span(p) : h \in Heights
    BY SpanFacts
  <2> QED
    BY <1>1, <1>2, <1>7, <2>1 DEF Core, CoverInv, Tables
<1>12. LiveInv'
  <2>1. \A h \in Span(Live) : h \in Nat /\ h \in Heights
    BY SpanFacts
  <2>2. ASSUME NEW g \in Span(Live), Seen("blocks", g) PROVE origin <= checkpoint'[Live] + 1
    <3>1. g < target /\ origin <= g /\ origin \in Nat
      <4>1. ~(g >= target) /\ g \in Nat
        BY <1>3, <2>1, <2>2
      <4>2. origin <= g
        BY <1>2, <2>2 DEF Core, LiveInv
      <4>3. origin \in Nat
        BY <1>2, StartTypes
      <4> QED
        BY <1>3, <4>1, <4>2, <4>3
    <3> QED
      BY <1>3, <1>5, <2>1, <3>1
  <2>3. \A h \in Span(Live) : Seen("blocks", h)' <=> Seen("blocks", h)
    BY <1>1 DEF Seen
  <2>4. /\ \A h \in Span(Live) : Seen("blocks", h)' =>
             \A g \in Span(Live) : g <= h => (origin' <= g => Seen("blocks", g)')
        /\ \A h \in Span(Live) : Seen("blocks", h)' => origin' <= h
    BY <1>1, <1>2, <2>3 DEF Core, LiveInv
  <2>5. (\E g \in Span(Live) : Seen("blocks", g)') => origin' <= checkpoint'[Live] + 1
    BY <1>1, <2>2, <2>3
  <2> QED
    BY <1>5, <2>4, <2>5 DEF LiveInv
<1>13. RangeInv'
  <2>1. \A b \in Backfills : b \in Pipelines /\ b # Live /\ \A h \in Span(b) : h \in Heights
    BY SpanFacts
  <2> QED
    BY <1>1, <1>2, <1>5, <1>7, <2>1 DEF Core, RangeInv, Tables
<1>14. WholeRangePriced'
  BY <1>1, <1>2 DEF Core, WholeRangePriced, Seen
<1>15. RollbackTypeOK' /\ CommandInv'
  BY <1>1, <1>2, <1>6 DEF CommandInv, RollbackTypeOK, AtRest
<1>16. \A h \in Heights : Healthy({h})'
  <2> SUFFICES ASSUME NEW h \in Heights PROVE Healthy({h})'
    OBVIOUS
  <2>0. h \in Nat /\ \A t \in Tables : Seen(t, h)' <=> Seen(t, h)
    BY <1>5, <1>7, SpanFacts
  <2>1. CASE h < target
    <3>1. Healthy({h})
      BY <1>2, <2>1 DEF Healthy, Untouched
    <3>2. ASSUME NEW p \in Pipelines, h \in Span(p), h <= checkpoint'[p], p = Live => origin' <= h
          PROVE  Seen("blocks", h)
      <4>1. CASE p # Live
        BY <1>1, <1>5, <3>1, <3>2, <4>1 DEF Healthy
      <4>2. CASE p = Live
        <5>1. target <= checkpoint[Live] /\ checkpoint[Live] \in Int
          BY <1>2, <1>5, StartTypes DEF CommandInv
        <5>2. h <= checkpoint[Live]
          BY <1>3, <2>0, <2>1, <5>1
        <5> QED
          BY <1>1, <3>1, <3>2, <4>2, <5>2 DEF Healthy
      <4> QED
        BY <4>1, <4>2
    <3> QED
      BY <2>0, <3>1, <3>2 DEF Healthy, Tables
  <2>2. CASE h >= target
    <3>1. ~Seen("blocks", h)
      BY <1>3, <2>2
    <3>2. ASSUME NEW p \in Pipelines, h \in Span(p), h <= checkpoint'[p] PROVE FALSE
      <4>1. p = Live
        BY <1>3, <1>5, <2>0, <2>2, <3>2
      <4> QED
        BY <1>3, <1>5, <2>0, <2>2, <3>2, <4>1
    <3> QED
      BY <2>0, <3>1, <3>2 DEF Healthy, Tables
  <2> QED
    BY <1>3, <2>0, <2>1, <2>2
<1>17. Core'
  BY <1>6, <1>8, <1>9, <1>10, <1>11, <1>12, <1>13, <1>14 DEF Core
<1>18. Healthy(Untouched)'
  BY <1>16 DEF Healthy, Untouched
<1> QED
  BY <1>15, <1>17, <1>18 DEF RInv

\* While a rollback is under way only backfills step, below its target.
LEMMA PipelinesStep ==
  ASSUME RInv, PipelineStep
  PROVE  RInv'
<1>1. /\ Next /\ (at # "idle" \/ torn => pc'[Live] = pc[Live])
      /\ UNCHANGED <<at, target, torn, low, high, rollbacks>>
  BY DEF PipelineStep, rollback
<1>2. Core /\ CommandInv /\ Healthy(Untouched)
  BY DEF RInv
<1>3. TypeOK'
  BY <1>1, <1>2, TypeStep
<1>4. PICK p \in Pipelines : Effect(p)
  BY <1>1, <1>2, Effects DEF Core
<1>5. target # None => p \in Backfills /\ p # Live
  <2> SUFFICES ASSUME target # None, p = Live PROVE FALSE
    BY SpanFacts
  <2>1. pc[Live] \in {"off", "done"} /\ pc'[Live] = pc[Live]
    BY <1>1, <1>2 DEF CommandInv, AtRest
  <2> QED
    BY <1>4, <2>1 DEF Effect, BeginFx, IndexFx, EndFx, ProbeFx, InsertFx, NextTableFx, FlushDoneFx,
                      SaveFx, FinishFx, CrashFx
<1>6. Healthy(Span(p))
  <2>1. Span(p) \subseteq Untouched
    BY <1>2, <1>5, TargetFacts, SpanFacts DEF Untouched
  <2> QED
    BY <1>2, <2>1 DEF Healthy
<1>7. Core'
  BY <1>2, <1>3, <1>4, <1>6, CoreStep
<1>8. Healthy(Untouched)'
  <2>1. Untouched' = Untouched
    BY <1>1 DEF Untouched
  <2>2. ASSUME NEW h \in Untouched PROVE Healthy({h})'
    <3>1. h \in Heights /\ Healthy({h})
      BY <1>2 DEF Healthy, Untouched
    <3> QED
      BY <1>2, <1>4, <3>1, HealthyStep
  <2> QED
    BY <2>1, <2>2 DEF Healthy
<1>9. ASSUME target # None
      PROVE  /\ pc'[Live] = pc[Live] /\ checkpoint'[Live] = checkpoint[Live]
             /\ \A h \in Heights : h >= target => (Seen("blocks", h)' <=> Seen("blocks", h))
  <2>1. p # Live /\ Live \in Pipelines /\ \A h \in Span(p) : h < target /\ h \in Nat
    BY <1>2, <1>5, <1>9, TargetFacts, SpanFacts
  <2>2. ASSUME NEW h \in Heights, h >= target PROVE Seen("blocks", h)' <=> Seen("blocks", h)
    <3>1. h \notin Span(p)
      BY <1>2, <1>9, <2>1, <2>2, TargetFacts, SpanFacts
    <3> QED
      BY <1>2, <1>4, <3>1, SeenGrows DEF Tables, Seen
  <2> QED
    BY <1>4, <2>1, <2>2 DEF Effect, Frame
<1>10. RollbackTypeOK'
  BY <1>1, <1>2, <1>3 DEF CommandInv, RollbackTypeOK
<1>11. CommandInv'
  <2>1. at # "idle" => target # None
    BY <1>2 DEF CommandInv, AtRest
  <2> QED
    BY <1>1, <1>2, <1>9, <1>10, <2>1 DEF CommandInv, AtRest
<1> QED
  BY <1>7, <1>8, <1>11 DEF RInv

LEMMA InitRInv == RollbackInit => RInv
<1> SUFFICES ASSUME RollbackInit PROVE RInv
  OBVIOUS
<1>1. Core /\ Healthy(Heights)
  BY InitIInv, Parts DEF RollbackInit
<1>2. CommandInv
  <2>1. /\ at = "idle" /\ target = None /\ torn = FALSE /\ low = None /\ high = None /\ rollbacks = 0
        /\ TypeOK
    BY <1>1 DEF RollbackInit, Core
  <2>2. 0 \in 0..MaxRollbacks
    BY CandleAssumption
  <2> QED
    BY <2>1, <2>2 DEF CommandInv, RollbackTypeOK, AtRest
<1> QED
  BY <1>1, <1>2 DEF RInv, Healthy, Untouched

LEMMA StutterRInv == RInv /\ UNCHANGED allVars => RInv'
<1> SUFFICES ASSUME RInv, UNCHANGED allVars PROVE RInv'
  OBVIOUS
<1>1. /\ UNCHANGED <<rows, ohlc, checkpoint, pc, memory, origin, faults>>
      /\ UNCHANGED <<pos, first, buf, tbl, new>>
      /\ UNCHANGED <<at, target, torn, low, high, rollbacks>>
  BY DEF allVars, vars, db, memory, rollback
<1>2. Core /\ CommandInv /\ Healthy(Untouched) /\ TypeOK'
  BY <1>1 DEF RInv, Core, TypeOK
<1>3. Core'
  BY <1>1, <1>2, CoreKept
<1>4. CommandInv'
  BY <1>1, <1>2 DEF CommandInv, RollbackTypeOK, AtRest, Seen
<1>5. Untouched' \subseteq Untouched
  BY <1>1 DEF Untouched
<1> QED
  BY <1>1, <1>2, <1>3, <1>4, <1>5, HealthyKept DEF RInv

\* Pipelines and rollback keep their invariant, wherever a command of the rollback fails,
\* a process dies, or a backfill publishes beside it.
THEOREM RollbackInvariant == RollbackSpec => []RInv
<1>1. RInv /\ [PipelineStep \/ RollbackStep]_allVars => RInv'
  BY PipelinesStep, BeginStep, DeleteStep, CandleStep, ResetStep, FailStep, StutterRInv
  DEF RollbackStep
<1> QED
  BY <1>1, InitRInv, PTL DEF RollbackSpec

\* At rest after a rollback, or after one that failed and was repeated, a visible block has
\* its prices and volumes and everything a checkpoint has passed is published.
THEOREM RollbackRestPublished == RollbackSpec => []RestPublished
<1>1. ASSUME RInv PROVE RestPublished
  <2>1. RollbackTypeOK
    BY <1>1 DEF RInv, CommandInv
  <2>2. ASSUME AtRest PROVE Watermark /\ CheckpointPublished
    <3>1. Healthy(Heights)
      BY <1>1, <2>2 DEF RInv, CommandInv, Untouched, Healthy
    <3> QED
      BY <3>1, SpanFacts DEF Healthy, Watermark, CheckpointPublished
  <2> QED
    BY <2>1, <2>2 DEF RestPublished
<1> QED
  BY <1>1, RollbackInvariant, PTL
=============================================================================
