--------------------------- MODULE PricePublisher ---------------------------
(***************************************************************************)
(* The price pipelines (src/indexer.ts, src/db/database.ts, src/store):    *)
(* one live follower that publishes and checkpoints every batch, and       *)
(* bounded backfills that stage a whole range in memory and publish it at  *)
(* the end.  No insert is deduplicated by ClickHouse: a replay after a     *)
(* crash is kept harmless by looking for existing keys before each insert, *)
(* and readers are kept consistent by writing `blocks` last.               *)
(*                                                                         *)
(* A row is abstracted to the height it belongs to: one key per table and  *)
(* height.  `assets` and `runtime_error_names`, which a replay overwrites  *)
(* with the same rows, are left out.                                       *)
(***************************************************************************)
EXTENDS Integers, Sequences, FiniteSets

CONSTANTS
  Live,       \* <<first, last>>: the heights the live follower may index;
              \* the last one is where the chain is cut off
  Backfills,  \* the ranges <<from, to>> of the backfill pipelines
  Quiet,      \* heights without swaps, pool transfers or composition changes
  Upgrades,   \* heights whose spec_version differs from the one below
  BATCH_SIZE, \* rows per insert
  MaxFaults   \* bound: processes that end before they are done

Pipelines == Backfills \cup {Live}
From(p)   == p[1]
To(p)     == p[2]
Span(p)   == From(p)..To(p)
Heights   == UNION {Span(p) : p \in Pipelines}

ASSUME SpansAssumption ==
  /\ Pipelines \subseteq Nat \X Nat
  /\ \A p \in Pipelines : From(p) <= To(p)
  /\ \A p, q \in Pipelines : p # q => To(p) < From(q) \/ To(q) < From(p)
  /\ \A b \in Backfills : To(b) < From(Live)
ASSUME PublisherBoundsAssumption ==
  /\ BATCH_SIZE \in Nat \ {0}
  /\ MaxFaults \in Nat

VARIABLES
  (* ClickHouse *)
  rows,       \* rows[t][h]: copies of the row of height h in table t
  ohlc,       \* times the candles have counted the price of a height
  checkpoint, \* indexer_state, one row per pipeline
  (* the process of each pipeline *)
  pc,
  pos,        \* the next height of the processor
  first,      \* nothing indexed yet: previousPrices and previousSpecVersion null
  buf,        \* buf[p][t]: rows batched or staged
  tbl,        \* position in FlushOrder
  new,        \* rows of the current chunk that the probe did not find
  (* history and bound *)
  origin,     \* where the live follower began
  faults

db     == <<rows, ohlc, checkpoint>>
memory == <<pos, first, buf, tbl, new>>
vars   == <<db, pc, memory, origin, faults>>

NoCheckpoint == -1
Tables  == {"prices", "trade_volume_by_account", "runtime_upgrades", "blocks"}
Many    == 2   \* two copies stand for two or more
NoRows  == [t \in Tables |-> {}]

\* Mutant: blocks are written first.
FlushOrderBlocksFirst ==
  <<"blocks", "prices", "trade_volume_by_account", "runtime_upgrades">>

\* flushAll and publishDeferred agree on it.
FlushOrder == <<"prices", "trade_volume_by_account", "runtime_upgrades", "blocks">>

Seen(t, h) == rows[t][h] > 0

Init ==
  /\ rows       = [t \in Tables |-> [h \in Heights |-> 0]]
  /\ ohlc       = [h \in Heights |-> 0]
  /\ checkpoint = [p \in Pipelines |-> NoCheckpoint]
  /\ pc         = [p \in Pipelines |-> "off"]
  /\ pos        = [p \in Pipelines |-> 0]
  /\ first      = [p \in Pipelines |-> TRUE]
  /\ buf        = [p \in Pipelines |-> NoRows]
  /\ tbl        = [p \in Pipelines |-> 1]
  /\ new        = [p \in Pipelines |-> {}]
  /\ origin     = From(Live)
  /\ faults     = 0

Goto(p, from, to) ==
  /\ pc[p] = from
  /\ pc' = [pc EXCEPT ![p] = to]

-----------------------------------------------------------------------------
(* Starting.                                                               *)

Newest(h) == Seen("blocks", h) /\ \A g \in Heights : Seen("blocks", g) => g <= h

\* Where the live follower starts: above its checkpoint; without one, above the
\* newest block of the database; in an empty database, at the chain head.
LiveStart(h) ==
  IF checkpoint[Live] # NoCheckpoint THEN h = checkpoint[Live] + 1
  ELSE IF \E g \in Heights : Seen("blocks", g) THEN Newest(h - 1)
  ELSE h \in Span(Live)

BeginLive ==
  \E h \in From(Live)..To(Live) + 1 :
    /\ LiveStart(h)
    /\ Goto(Live, "off", IF h > To(Live) THEN "exit" ELSE "index")
    /\ pos' = [pos EXCEPT ![Live] = h]
    /\ origin' = IF \E g \in Span(Live) : Seen("blocks", g) THEN origin ELSE h
    /\ UNCHANGED <<db, first, buf, tbl, new, faults>>

\* connect: the checkpoint, unless the range starts at genesis.
ResumeHead(b) == IF From(b) = 0 THEN -1 ELSE IF checkpoint[b] # NoCheckpoint THEN checkpoint[b] ELSE 0

BackfillStart(b) == IF From(b) > ResumeHead(b) + 1 THEN From(b) ELSE ResumeHead(b) + 1

\* A backfill is launched below the frontier the live follower has published.
BeginBackfill(b) ==
  /\ \E g \in Span(Live) : Seen("blocks", g)
  /\ Goto(b, "off", IF BackfillStart(b) > To(b) THEN "exit" ELSE "index")
  /\ pos' = [pos EXCEPT ![b] = BackfillStart(b)]
  /\ UNCHANGED <<db, first, buf, tbl, new, origin, faults>>

-----------------------------------------------------------------------------
(* Indexing.                                                               *)

\* What one block adds to the batch.  A quiet block after the first one of a run
\* is skipped down to its block row; an upgrade shows only against the block
\* before it in the same run.
Adds(p, t) ==
  CASE t = "prices"                  -> pos[p] \notin Quiet \/ first[p]
    [] t = "trade_volume_by_account" -> pos[p] \notin Quiet
    [] t = "runtime_upgrades"        -> pos[p] \in Upgrades /\ ~first[p]
    [] t = "blocks"                  -> TRUE

IndexBlock(p) ==
  /\ pc[p] = "index"
  /\ pos[p] <= To(p)
  /\ buf' = [buf EXCEPT ![p] =
               [t \in Tables |-> IF Adds(p, t) THEN @[t] \cup {pos[p]} ELSE @[t]]]
  /\ pos'   = [pos EXCEPT ![p] = @ + 1]
  /\ first' = [first EXCEPT ![p] = FALSE]
  /\ UNCHANGED <<db, pc, tbl, new, origin, faults>>

Deferred(p) == p # Live

\* Mutant: a bounded range publishes every batch.
BatchPublishesAlways(p) == buf[p]["blocks"] # {}

\* Mutant: the end of the range is missed by one.
BatchPublishesPast(p) ==
  IF Deferred(p) THEN pos[p] - 1 > To(p) ELSE buf[p]["blocks"] # {}

\* transact after a batch: the live follower flushes it; a backfill only stages
\* it, until the range's last block.
BatchPublishes(p) ==
  IF Deferred(p) THEN pos[p] - 1 >= To(p) ELSE buf[p]["blocks"] # {}

\* Mutant: the checkpoint is saved before the rows.
EndBatchSaving(p) ==
  /\ BatchPublishes(p)
  /\ Goto(p, "index", "probe")
  /\ checkpoint' = [checkpoint EXCEPT ![p] = pos[p] - 1]
  /\ UNCHANGED <<rows, ohlc, memory, origin, faults>>

EndBatch(p) ==
  /\ BatchPublishes(p)
  /\ Goto(p, "index", "probe")
  /\ UNCHANGED <<db, memory, origin, faults>>

-----------------------------------------------------------------------------
(* Publishing: flushAll, publishDeferred and the insert functions.         *)

Table(p) == FlushOrder[tbl[p]]

\* Mutant: the highest rows first.
ChunkFromTop(S) == {h \in S : Cardinality({g \in S : g > h}) < BATCH_SIZE}

\* chunkRows: the lowest BATCH_SIZE rows.
Chunk(S) == {h \in S : Cardinality({g \in S : g < h}) < BATCH_SIZE}

\* Mutant: prices are inserted without the probe.
UnseenPricesBlind(t, chunk) == {h \in chunk : t = "prices" \/ ~Seen(t, h)}

Unseen(t, chunk) == {h \in chunk : ~Seen(t, h)}

\* Read the existing keys of the next chunk and keep the others.
Probe(p) ==
  LET t     == Table(p)
      chunk == Chunk(buf[p][t])
      fresh == Unseen(t, chunk)
  IN
  /\ buf[p][t] # {}
  /\ Goto(p, "probe", IF fresh = {} THEN "probe" ELSE "insert")
  /\ new' = [new EXCEPT ![p] = fresh]
  /\ buf' = [buf EXCEPT ![p][t] = @ \ chunk]
  /\ UNCHANGED <<db, pos, first, tbl, origin, faults>>

More(n) == IF n < Many THEN n + 1 ELSE Many

\* Insert them.  The ohlc views fire on the price rows actually written.
Insert(p) ==
  LET t == Table(p) IN
  /\ Goto(p, "insert", "probe")
  /\ rows' = [rows EXCEPT ![t] = [h \in Heights |-> IF h \in new[p] THEN More(@[h]) ELSE @[h]]]
  /\ ohlc' = [h \in Heights |-> IF t = "prices" /\ h \in new[p] THEN More(ohlc[h]) ELSE ohlc[h]]
  /\ new' = [new EXCEPT ![p] = {}]
  /\ UNCHANGED <<checkpoint, pos, first, buf, tbl, origin, faults>>

NextTable(p) ==
  /\ buf[p][Table(p)] = {}
  /\ tbl[p] < Len(FlushOrder)
  /\ pc[p] = "probe"
  /\ tbl' = [tbl EXCEPT ![p] = @ + 1]
  /\ UNCHANGED <<db, pc, pos, first, buf, new, origin, faults>>

FlushDone(p) ==
  /\ buf[p][Table(p)] = {}
  /\ tbl[p] = Len(FlushOrder)
  /\ Goto(p, "probe", "save")
  /\ UNCHANGED <<db, memory, origin, faults>>

SaveCheckpoint(p) ==
  /\ Goto(p, "save", IF pos[p] > To(p) THEN "exit" ELSE "index")
  /\ checkpoint' = [checkpoint EXCEPT ![p] = pos[p] - 1]
  /\ tbl' = [tbl EXCEPT ![p] = 1]
  /\ UNCHANGED <<rows, ohlc, pos, first, buf, new, origin, faults>>

-----------------------------------------------------------------------------
(* Ending.                                                                 *)

\* The range is done and its container removed (the live follower has reached
\* the end of the modelled chain).
Finish(p) ==
  /\ Goto(p, "exit", "done")
  /\ UNCHANGED <<db, memory, origin, faults>>

\* An exception, a kill or a failed insert; the container is started again.
Crash(p) ==
  /\ pc[p] \notin {"off", "done"}
  /\ faults < MaxFaults
  /\ faults' = faults + 1
  /\ pc'    = [pc EXCEPT ![p] = "off"]
  /\ pos'   = [pos EXCEPT ![p] = 0]
  /\ first' = [first EXCEPT ![p] = TRUE]
  /\ buf'   = [buf EXCEPT ![p] = NoRows]
  /\ tbl'   = [tbl EXCEPT ![p] = 1]
  /\ new'   = [new EXCEPT ![p] = {}]
  /\ UNCHANGED <<db, origin>>

Begin(p) == (p = Live /\ BeginLive) \/ (p # Live /\ BeginBackfill(p))

Step(p) ==
  \/ IndexBlock(p) \/ EndBatch(p)
  \/ Probe(p) \/ Insert(p) \/ NextTable(p) \/ FlushDone(p) \/ SaveCheckpoint(p)
  \/ Finish(p)

Next == \E p \in Pipelines : Begin(p) \/ Step(p) \/ Crash(p)

Spec == Init /\ [][Next]_vars

-----------------------------------------------------------------------------
(* Properties.                                                             *)

\* Tables, checkpoints and each process stay in their domains; a flush never passes
\* the last table.
TypeOK ==
  /\ rows       \in [Tables -> [Heights -> 0..Many]]
  /\ ohlc       \in [Heights -> 0..Many]
  /\ checkpoint \in [Pipelines -> Nat \cup {NoCheckpoint}]
  /\ pc         \in [Pipelines -> {"off", "index", "probe", "insert", "save", "exit", "done"}]
  /\ pos        \in [Pipelines -> Nat]
  /\ first      \in [Pipelines -> BOOLEAN]
  /\ buf        \in [Pipelines -> [Tables -> SUBSET Heights]]
  /\ tbl        \in [Pipelines -> 1..Len(FlushOrder)]
  /\ new        \in [Pipelines -> SUBSET Heights]
  /\ origin     \in Span(Live) \cup {To(Live) + 1}
  /\ faults     \in 0..MaxFaults

\* "once block N is visible, N's prices, trade volumes [...] already are":
\* whatever was interrupted before, a height a reader finds in `blocks` has the
\* prices and volumes of its swaps.
Watermark ==
  \A h \in Heights : Seen("blocks", h) /\ h \notin Quiet =>
    Seen("prices", h) /\ Seen("trade_volume_by_account", h)

\* The additive candles have counted every price row once, however often the
\* block was indexed again after a crash.
CandlesExact == \A h \in Heights : ohlc[h] = IF Seen("prices", h) THEN 1 ELSE 0

\* `blocks` and `runtime_upgrades` are plain MergeTree tables: nothing but the
\* probe keeps a replay from writing a second row.
NoDuplicates ==
  \A h \in Heights : rows["blocks"][h] <= 1 /\ rows["runtime_upgrades"][h] <= 1

\* A checkpoint is behind nothing that is not published: the live follower's
\* heights from where it began, and a backfill's whole range.
CheckpointPublished ==
  \A p \in Pipelines : \A h \in Span(p) :
    /\ h <= checkpoint[p]
    /\ p = Live => origin <= h
    => Seen("blocks", h)

\* The first visible block of a backfilled range comes after all its prices: no
\* reader sees a range priced in part.
WholeRangePriced ==
  \A b \in Backfills :
    (\E g \in Span(b) : Seen("blocks", g)) =>
      \A h \in Span(b) : h \notin Quiet => Seen("prices", h)

-----------------------------------------------------------------------------
(* The inductive invariant behind the safety properties.                   *)

\* Rows are held only between indexing and the checkpoint, the result of a probe
\* only until its insert.
PhaseInv ==
  \A p \in Pipelines :
    /\ pc[p] \in {"off", "save", "exit", "done"} => buf[p] = NoRows
    /\ pc[p] # "insert" => new[p] = {}
    /\ pc[p] \in {"off", "index", "exit", "done"} => tbl[p] = 1

\* A process starts inside its range.
StartInv == \A p \in Pipelines : pc[p] # "off" => From(p) <= pos[p]

Base(p) == IF p = Live THEN origin ELSE From(p)

\* A process holds rows of its own heights, none below where it began, none it
\* has not reached.
HeldInv ==
  \A p \in Pipelines : \A h \in Heights :
    h \in new[p] \/ (\E t \in Tables : h \in buf[p][t]) =>
      h \in Span(p) /\ Base(p) <= h /\ h < pos[p]

\* The tables a flush has passed are flushed.
OrderInv ==
  \A p \in Pipelines : pc[p] \in {"probe", "insert"} =>
    \A i \in 1..Len(FlushOrder) : i < tbl[p] => buf[p][FlushOrder[i]] = {}

\* What a probe did not find is still not there when it is inserted: no two
\* pipelines share a height.
FreshInv ==
  \A p \in Pipelines : pc[p] = "insert" => \A h \in new[p] : ~Seen(Table(p), h)

\* A row is written once, and the candles count exactly the price rows.
SingleInv ==
  /\ \A t \in Tables : \A h \in Heights : rows[t][h] <= 1
  /\ \A h \in Heights : ohlc[h] = rows["prices"][h]

Held(p, t, h) == h \in buf[p][t] \/ (pc[p] = "insert" /\ Table(p) = t /\ h \in new[p])

\* A block row waits behind the prices and volumes of its height.
PendingInv ==
  \A p \in Pipelines : \A h \in Heights :
    h \notin Quiet /\ Held(p, "blocks", h) =>
      \A t \in {"prices", "trade_volume_by_account"} : Held(p, t, h) \/ Seen(t, h)

Indexing(p) == pc[p] \in {"index", "probe", "insert", "save"}

\* Every height passed since the beginning is held or published.
CoverInv ==
  \A p \in Pipelines : Indexing(p) =>
    \A h \in Span(p) : Base(p) <= h /\ h < pos[p] => Held(p, "blocks", h) \/ Seen("blocks", h)

\* What is visible of the live follower has no gaps, nor will the next insert
\* make one.
LiveInv ==
  /\ pc[Live] # "off" => origin <= pos[Live]
  /\ /\ checkpoint[Live] # NoCheckpoint
     /\ pc[Live] # "off" \/ \E g \in Span(Live) : Seen("blocks", g)
     => origin <= checkpoint[Live] + 1
  /\ \A h \in Span(Live) : Seen("blocks", h) =>
       \A g \in Span(Live) : g <= h => (origin <= g => Seen("blocks", g))
  /\ \A h \in Span(Live) : Seen("blocks", h) => origin <= h
  /\ pc[Live] = "insert" /\ Table(Live) = "blocks" =>
       \A h \in new[Live] : \A g \in Span(Live) :
         origin <= g /\ g <= h => g \in new[Live] \/ Seen("blocks", g)

\* A backfill flushes only once the whole range is indexed.
RangeInv ==
  \A b \in Backfills :
    /\ pc[b] \in {"probe", "insert", "save"} => To(b) < pos[b]
    /\ Indexing(b) => \A h \in Span(b) :
         h < pos[b] /\ h \notin Quiet => Held(b, "prices", h) \/ Seen("prices", h)

\* Everything the safety properties rest on, preserved by every step of a flush, a
\* start or a crash of any pipeline.
IInv ==
  /\ TypeOK
  /\ PhaseInv
  /\ StartInv
  /\ HeldInv
  /\ OrderInv
  /\ FreshInv
  /\ SingleInv
  /\ PendingInv
  /\ Watermark
  /\ CoverInv
  /\ LiveInv
  /\ CheckpointPublished
  /\ RangeInv
  /\ WholeRangePriced

-----------------------------------------------------------------------------
(* Refinement.                                                             *)

\* The heights with a row in t.
Stored(t) == {h \in Heights : Seen(t, h)}

Log == INSTANCE Publication WITH
         visible <- Stored("blocks"), priced <- Stored("prices"),
         traded  <- Stored("trade_volume_by_account"),
         candles <- ohlc, saved <- checkpoint

\* Whatever dies and is replayed, readers see each range grow from its beginning
\* without a gap, every block after its prices and volumes, and checkpoints that only
\* move forward along it: every step of a pipeline is a step, or no step, of what the
\* readers are promised.
ImplementsPublication == Log!LogSpec

-----------------------------------------------------------------------------
(* Liveness.                                                               *)

\* Containers are started again and processes go on; crashes are bounded.
Fairness == \A p \in Pipelines : WF_vars(Begin(p)) /\ WF_vars(Step(p))

FairSpec == Spec /\ Fairness

\* Every range is eventually published and checkpointed, and the live follower
\* reaches the end of the chain, in spite of crashes.
AllPublished ==
  <>(\A p \in Pipelines :
       /\ pc[p] = "done"
       /\ p # Live => checkpoint[p] = To(p)
       /\ \A h \in Span(p) : (p = Live => origin <= h) => Seen("blocks", h))
=============================================================================
