# TLA+ models of Hydration Neckwork

Hydration Neckwork indexes the Hydration chain into ClickHouse: a lake of raw
chain data, block-level USD prices and candles, and a family of read APIs and
UIs on top. This directory models the parts of it whose correctness is a matter
of order and failure rather than of arithmetic: the pipelines that write to
ClickHouse without transactions and the shell script that kills and restarts
them, and in the API the cache every read goes through, the worker that derives
revenue tables, and the evaluator that turns activity into notifications.

## 1. The system

| Component | State | Operations | Talks to |
| --- | --- | --- | --- |
| Raw range worker (`src/raw`) | buffered rows, processor head; `raw_*` tables, `raw_ingestion_state` (checkpoint), `raw_ingestion_ranges` (one row per range), `raw_ingestion_range_failures` (log) | start/resume, index a batch, flush, checkpoint, finalize, mark failed, exit; unbounded as `raw-live` | block archive, RPC, ClickHouse; started and removed by the supervisor |
| Ingestion supervisor (`scripts/ingestion-supervisor.sh`) | none of its own: docker's container list and ClickHouse are its memory | raw half: restart stopped containers, recover ranges without one, claim the next lower range, block exhausted ranges; price half: clean up and restart price containers, claim a price range over completed raw ranges; keep the live followers up; heal `raw-live` after a reorg | docker, ClickHouse, RPC |
| Price indexer (`src/indexer.ts`, `src/db`, `src/store`) | batches, staged ranges, previous prices and runtime version; `prices`, `trade_volume_by_account`, `assets`, `runtime_*`, `blocks`, `indexer_state`, the `ohlc_*` views | start, index, flush or stage, publish a bounded range, checkpoint | archive/RPC, raw tables, ClickHouse |
| Rollback and candle repair (`src/cli.ts`, `src/ohlc`) | none | delete above a block, clear and rebuild candles, reset the checkpoint | ClickHouse, beside the price indexers |
| Derivations worker (`api/src/derivations`) | derived tables with their staging twins; in memory the folded-empty marks and rebuild watermarks | cycle over jobs: find stale buckets, recompute them in the twin, replace the partition | ClickHouse, beside one-shot runs of the same jobs |
| Notifications (`api/src/notifications`) | a cursor per lane in memory and in ClickHouse, what each group has been read to, remembered ids; inbox rows | tick: read the window, rotate over groups, match, deliver rows and digests, persist cursors; restart | the activity feeds of the explorer services, ClickHouse, outbound channels |
| API cache (`api/src/services/cache.ts`) | entries in insertion order, loads in flight, install epochs | cached / found-only / stale-while-revalidate reads, background refresh, install by an owner, seed from a persisted value, eviction | every read model |
| Price computation, pool and registry caches (`src/price`, `src/pool`, `src/registry`) | in-memory caches | pure arithmetic and event folds | called by the price indexer |
| Snapshot scripts (`src/scripts`) | cursors in ClickHouse | periodic idempotent captures | RPC, ClickHouse |
| Explorer services, public, Data and MCP APIs (`api/src`) | none beside the cache | SQL reads and formatting | ClickHouse |
| UIs, schema, operations | - | - | - |

What is hard here:

* nothing is transactional. A flush is one insert per table and the checkpoint is
  one more; a process may end between any two, and the next one starts from what
  it finds;
* no insert is deduplicated by ClickHouse. The additive candles are right only if
  every replay is caught by a probe made before the insert;
* processes meet only in the database: neighbouring ranges validate against each
  other's rows, readers trust the newest row of `blocks`, the healer rewrites the
  checkpoint of a follower that may be running, two derivation runs may publish
  the same month;
* the supervisor keeps no state and every one of its calls may fail or be
  outrun by the container it is about;
* rows become visible later than their stamps say, and the chain takes blocks
  back: cursors, staleness tests and checkpoints are compared with clocks and
  heads read at other moments;
* in the API, `await` splits check from use: a load ends after an install, a
  seed after a load began, a delivery after its insert was applied and its answer
  lost.

For each component the properties that make it correct: a checkpoint stands only
for data that is there; a completed range is whole, linked and never taken back;
no range of the history is lost, done twice or retried for ever; a visible block
has its data; candles count each price once; a reorg costs no good block; a
derived bucket that is not marked stale is right; no notification is lost or
repeated without a fault; the cache never goes back behind an install; and
everything finishes once faults stop.

## 2. Modules

| Module | Models |
| --- | --- |
| `RangeJob` | abstract: what one raw container shows its supervisor - exit status, row, failure log |
| `RawRangeWorker` | `runRaw` for bounded ranges, `RawDatabase`, `flushAll`, `ranges.ts`; implements `RangeJob` |
| `RawRangeWorkerProofs` | its theorems |
| `RawCoverage` | pure: `mergeRawRanges`, `missingRawCoverage`, the coverage assertion |
| `Supervisor` | the raw half of the supervisor's loop, composed with `RangeJob` containers (EXTENDS `RangeJob`) |
| `SupervisorProofs` | its theorems |
| `MainBackfill` | the price half of the loop beside its price containers (uses `RawCoverage`) |
| `MainBackfillProofs` | its theorems |
| `ReorgHeal` | `raw-live` and `heal_live_raw_reorg` on a chain that takes blocks back |
| `ReorgHealProofs` | its theorems |
| `Publication` | abstract: what the price pipelines promise the readers of `blocks` |
| `PricePublisher` | the price pipelines: live follower and bounded backfills; implements `Publication` |
| `PriceRollback` | `rollbackToBlock` beside the pipelines (EXTENDS `PricePublisher`) |
| `PricePublisherProofs` | the theorems of both |
| `Derivations` | the derivations loop, the hourly fold of `revenue_events` and the months of `account_revenue` |
| `DerivationsProofs` | its theorems |
| `AlertEvaluator` | the evaluator's tick, one page-backed lane, delivery to the inbox |
| `AlertEvaluatorProofs` | its theorems |
| `ApiCache` | `services/cache.ts` |
| `ApiCacheProofs` | its theorems |
| `MC*` | the instances TLC runs |

`map` in `PROJECT.json` gives the source lines of every definition. Operators
commented as mutants are plausible bugs, used by no specification; section 3 says
what they are for.

### RawRangeWorker

A block is reduced to the chain it belongs to: the block of chain `v` at height
`h` has hash `<<h, v>>` and parent `<<h-1, v>>`, so two neighbouring blocks link
exactly when their chains agree. `archive` is what the block source serves at
each height (a block of some chain, or nothing); `Heal` fills or replaces one.
`raw[t][h]` is the content of table `t` at height `h`; `flushAll` writes the
tables one per step, `raw_blocks` first. `pc` follows `runRaw`: `boot`, `index`,
`flush`, `save`, then finalization in three steps (`prev`, `next`, `complete`),
because the neighbours' rows are read at different times, or `mark`, `log`,
`throw`. `head` and `prev` are the processor's position and the hash kept for
the integrity checks; `bad` is the verdict of the first half of the validation;
`replay` remembers that the process only validates; `marks` counts its calls of
`markRawRangeFailed`. `Crash` and `Terminate` end a process at any step (SIGTERM
exits 0 ten seconds later, wherever the process then is).

Abstractions: batches are one block long (longer ones only remove points at
which the buffer may be flushed); the row budget and the clock of
`shouldFlushRaw` are a free choice; ClickHouse's replacing tables are read with
`FINAL`, so a row is its latest version.

### Supervisor

`ctx` is the function of the loop that runs, `at` the next docker or ClickHouse
call in it, `cur` the range at hand, `todo` the rest of its list with the status
each range was listed with. The calls of cleanup and recovery are a step each; the
five reads of one turn of `ensure_raw_workers` are taken together, since only the
loop itself adds containers, ranges or claims. The script runs under `set -euo
pipefail`, but a call inside a condition or a command substitution may fail and the
script goes on. Each such failure is a choice of its step, paid from the fault
budget (one outage may take several reads of a turn):

| Call that fails | What the script makes of it | Here |
| --- | --- | --- |
| `docker ps` of `active_raw_count` | 0 containers run | `SlotFree`, `ChooseNext` with `"count"` lost |
| `docker ps` or a query of `min_known_raw_from` | minimum of the rest, or nothing known | `Known(lost)` without `"names"`, `"rows"`, `"head"` |
| query of `oldest_raw_frontier_blocked` | not blocked | `Frontier` with `"frontier"` lost |
| `docker ps` of `container_exists` in recovery | an orphan | `TakeOrphan` |
| `docker rm`, then `docker ps` | removed | `RemoveStopped` |
| listing of recovery | nothing to recover | `ListOrphans` |
| `range_status`, attempt count, inserts of rows and log | not completed, 0 attempts, logged only | `QueryFails` |
| every other call | the script ends | `SupervisorCrash` |

History variables keep what such an answer led to: `unlucky` (ranges a query was
about), `misread` (ranges started below a frontier that was read too high),
`miscounts` (a full house counted as free); `claimed` holds the ranges started as
new and `origin` the height the first was made below. The containers are `RangeJob`s; that the real
worker implements them is checked by `worker` and proved by `RefinesJob`.
`LiveAdvance` is raw-live's checkpoint, which seeds the frontier; `Age` lets
fifteen minutes or the cooldown pass.

### PricePublisher

A row is reduced to its height: one key per table and height. `rows[t][h]`
counts its copies (two stand for more), `ohlc[h]` how often the candles have
counted the price of `h`. The live follower flushes every batch; a backfill
stages its range and publishes it when the batch reaches the last block.
A flush takes the tables in `FlushOrder`, chunk by chunk, and for each chunk
probes for existing keys (`Probe`) and later inserts the others (`Insert`), so
other pipelines run between the two. `Adds` is what the batch callback decides to
write for a block: `Quiet` blocks after the first one of a run get a block row
only, `Upgrades` are noticed only against a previous block of the same run.
`first` stands for `previousPrices` and `previousSpecVersion` being null.
`origin` records where the live follower began.

Left out: `assets` and `runtime_error_names` (a replay overwrites them with the
same rows); the integrity exception of the batch callback and every other
exception are `Crash`; an unreachable RPC at the very first start, which makes
the follower begin at block 0; an insert the server applies after its client
died. A crashed pipeline is always started again: how the supervisor treats main
containers is in `MainBackfill`.

`Publication` is what is left of this when the processes are taken away: five
variables a reader can query and four actions. Prices and volumes of a height are
added once and, unless the height is quiet, before it is listed in `blocks`; the
heights listed of a range continue those already listed; a backfill lists its first
block when the whole range is priced; a checkpoint moves to a higher listed height.
`ImplementsPublication` maps the tables to it (`Stored(t)`: the heights with a row)
and says that crashes, replays and rows another process staged add no other step.

### PriceRollback

One step per command of `rollbackToBlock`; one candle width (`Candle` heights)
stands for the eight. The live follower is stopped during a rollback, a failed
rollback is repeated with the same block before the follower is started again,
and the target is not above the checkpoint. The code enforces none of the three;
they are what the command is meant to be used with. The follower started afterwards
is a new process: it remembers no previous block.

### MainBackfill and RawCoverage

`box` holds the main containers by range: exit status, phase (`index`, `publish`,
`save`, `done`) and the next block to publish; `blocks` is what is published,
`checkpoints` the finished ranges, `completed` and `broken` the raw ranges the
loop and the coverage assertion read. `at`, `todo`, `cur` and `frontier` are the
position and the shell variables of the loop: `cleanup_stopped_main`, then
`ensure_main_workers` with `min_known_main_from` in two reads (names, then
`min(block_height)`), the search for a batch of adjoining ranges, the link check
and `docker run`. Every docker and ClickHouse call is a step. Faults are counted
by kind - a crash, a SIGTERM, a death of the script, a failed docker call, a raw
row taken back by the raw half - so that a property can say which of them it
survives. `dropped` is a history variable: blocks of a container that was removed
before it had published them. A container publishes in ascending chunks; the
order inside a chunk is `PricePublisher`'s subject.

`RawCoverage` is the arithmetic of `ranges.ts` on lists of ranges: the sort, the loop
that merges and the loop that looks for what is missing, each loop as a function of
the number of turns. `FinalizedRawCoverage`, which the containers assert when they
start, is that arithmetic. `CoverageExact` says what it amounts to on sets of heights.
`IsBatch` says what the scan for adjoining ranges collects.

### ReorgHeal

The hash of a block is the sequence of branch numbers from genesis to it, so an
ancestor is a prefix and two branches differ from where they fork. `chain` is the
canonical tip, `stored` and `events` are `raw_blocks` and a per-event table by
height and index, `cp` is the checkpoint and whether its row is old enough for the
healer to look. `live` runs boot, wait, batch, then one step per insert of a
flush, then save; it ends with an error when its checkpoint has left the chain.
`heal` is one pass: read the checkpoint, ask the endpoint, then one stored hash
and one RPC answer per depth, insert the rolled-back checkpoint, restart the
container. Any call may fail. `EventCount` gives the events of a block by branch,
up to `MaxEvents`, so that a height may lose some. Assumed: a block that was dropped does not return
to the chain.

### Derivations

`sent` and `seen` are the source rows as stamped and as visible: a row is stamped
with an ingest time and shows up to `SETTLE` later. `live` and `twin` are
`revenue_events` and its staging twin, `months` and `mtwin` the same of
`account_revenue`. Two processes run the cycle, the container's loop and a
one-shot invocation; `pc` follows `runCycle` through the registry load, the
staleness query, the guard against a second publisher, then drop, keep, fold
(stream by stream) and replace for each month; then the months of the second job.
`folded` is the memory of empty hours, `rebuilt` that of month watermarks,
`registry` a fingerprint that may change. History: `overlap` (two processes
published the same twin), `together` (their cycles ran at once) and `emptied`
(months an hour of which came to fold to nothing).

Assumed: an insert becomes visible within the settle margin, and a cycle starts at
least one clock tick after the previous one. Left out: the cascade of
the debt rows, whose ingest marks every later hour too (`jobs.ts:1626`) - here a source
row touches its own hour only; the price floor below which the gate holds an hour
(`jobs.ts:1670`) - the modelled hours lie above it; the ingest term of the v3 leg in
the month watermark; and jobs of the same shape with other SQL. The
instance has one month, so the loop over months runs once per cycle; two months
did not fit the time limit.

### AlertEvaluator

`head` is the ingestion head and `source` what the activity feeds show, both moving
from one end of a flush (`Flushes`) to the next; `LateRows` appear after the feed has
passed them. Both move only where the tick can tell: the head between ticks, the
feeds there and before each page is read. A tick reads both, resolves the window from
the lane's `cursor` (clamped to `MAX_WINDOW_BLOCKS`), visits at most
`SOURCE_FETCH_CAP` groups in rotation, matches from `TRAILING_RECHECK_BLOCKS`
below the window, and delivers: the first `INBOX_ROWS_PER_RULE` matches as rows,
the rest as a digest. `seen` is what each group has been read to, `KeyOrder` the
order in which the rotation takes the groups; `stored` and
`dirty` are the persisted cursor and its flag; `remembered` is the dedup memory
and `inbox` the table it is reloaded from. Faults: a feed read that throws, a
rule whose matches or digest cannot be rendered (`DispatchThrows`: the rule's guard
swallows it, the others are delivered and the cursor moves on), an insert that fails,
one whose answer is lost (`uncertain`), a failed cursor write, a restart
(`restarted`). History: `told`, `writtenOff` (rows the code gives up by design:
clamped away, muted, or more than a page), and the two silent losses of section 6,
`unrendered` (untold rows whose rendering threw, `thrown` within the tick) and
`swallowed` (untold rows whose digest was dropped as a duplicate). A row that is told
after all leaves all three. Assumed: a late row appears within the re-check distance.
Left out: the safety, snapshot and referendum lanes, cooldowns, and the outbound
channels.

### ApiCache

Keys are of the three kinds the code has: plain (`cached`), found-only
(`cachedFound`) and stale-while-revalidate (`cachedSwr`). A value is the version
of the data it was computed from; an entry is fresh, stale or expired and ages by
a step instead of a clock. `order` is the insertion order of the `Map` that
eviction goes by, as the set of pairs of keys one of which comes before the other;
`loads` the running loads with the epoch they began at, `inflight` the map of
promises, `installEpochs` and `writeSequence` the guard of `cacheInstall`. An owner
computes a value in one step and installs it in a later one - under a found-only key
not a negative one, as the owners of activity totals do; a seed reads the
persisted value in one step and adopts it in a later one. Assumed: a loader is an
async function and fails through its promise only. One that threw when called would
run the `finally` block before its promise is stored (`cache.ts:140-170`) and leave a
rejected promise in the map.

## 3. Runs

| Run | Instance | Shows |
| --- | --- | --- |
| `worker` | ranges 0-0 and 1-2, two chains, two tables, flush after two blocks, 2 faults; all 27 archives; fair | `CheckpointCovered`, `CompletedWhole`, `CompletedFrozen`, the inductive invariant `IInv`, the refinement `ImplementsJob`, and `HealthyCompletes` |
| `supervisor` | blocks below 5, ranges of 2, 1 worker, retry limit 2, 2 faults; fair | `ClaimsInv` (claims leave no block out, overlap only below a misread frontier, and none is forgotten), `WorkerCap`, `NoHotRetry`, `BackfillCompletes` |
| `main_backfill` | blocks 0-4, raw ranges 2-3, 1-2 and 0-0, 2 workers, batches of 2 ranges, chunks of one block, 2 faults; fair | `CoverageExact`, `HolesExplained`, `ClaimsSound`, `CapExceededOnlyByFailures`, `PriceBackfillCompletes` |
| `reorg` | heights to 3, depth limit 2, 2 reorganisations, 2 faults, branches with 2, 1 and 2 events; fair | `TipInv`, `GoodTipKept`, `RollbackShallow`, `TipRecovers` |
| `publisher` | live 4-5, backfills 0-1 and 2-3, one row per insert, 2 faults; fair | `Watermark`, `CandlesExact`, `CheckpointPublished`, `WholeRangePriced`, the refinement `ImplementsPublication` and `AllPublished` |
| `rollback` | live 2-4, backfill 0-1, candles of 3, 2 rollbacks, 2 faults | `RestPublished` |
| `derivations` | 2 hours of one month, 2 source rows in 2 streams, one corrected twice and void in between, settle margin 2, 1 fault (crash, throw, failed registry load, one-shot run or registry change); fair | `PassedOverIsRight`, `TablesSound`, `MonthIsRight`, `NoGap`, `Converges` |
| `alerts` | blocks 1-6 flushed as 2-3, 4-5 and 6, 2 groups with 5 rows and 1, window 2, re-check 4, one fetch per tick, one detail row, pages of 4, one fault, crash, mute or unmute; fair | `NothingLost`, `CursorInv`, `RepeatsExplained`, `EventuallyTold` |
| `api_cache` | one key of each kind, 2 entries, 2 versions, 1 install; fair | `CacheInv`, `SingleFlight`, `InstallKept`, `SeedFillsGaps`, `LoadsSettle` |

Why these bounds are enough to meet the cases: two tables make a torn flush, two
neighbouring ranges a boundary, a range of two blocks a link and a flush inside
it, a range at 0 the genesis special case of the resume logic. Ranges of two over
five blocks leave the short range at block 0 and, with a frontier read too high,
overlap; one slot for three ranges is contended for, a failed count runs a second
container beside the first, and a retry limit of two lets a range be restarted,
deferred and blocked while another runs. The raw
ranges of `main_backfill` overlap, adjoin and are cut by the frontier. One row
or block per insert puts a possible crash between any two. Two faults are needed for
a crash during recovery from a crash. Two reorganisations let the chain move while
the healer searches, and a depth limit of two below three heights is reached and
exceeded. A window of two blocks is clamped when two flushes come at once; one fetch
for two groups rotates; one detail row forces a digest; five rows are more than a page
of four. A re-check of four reaches the late rows 2 and 4 after the window has passed
them: once a crash has emptied the memory of what digests covered, row 2 gets the
detail row and the digest of 3 to 5 has the id of that of 3 and 5, so the loss
`NothingLost` names is met, as is that of a throwing render. One trouble per behaviour
is what the time limit leaves; a failure and a mute in one behaviour are covered by
the proofs only. Three keys for two entries evict; two
versions and one install order every load before or after it. A row corrected
twice, the second time after it was void, empties an hour and fills it again.

A deadlock is an error except in the publisher, rollback, reorg and derivations
runs, where the modelled chain or clock ends (`CHECK_DEADLOCK FALSE`).

Runs that end in a violation, each a disagreement between the code and what the
repository says of it (quoted in `findings`):

| Run | Property | What happens |
| --- | --- | --- |
| `worker_healed` | `HealedCompletes` | blocks missing at the start of a range are passed over and checkpointed; once the archive has healed, retries resume above them and never complete |
| `rollback_candles` | `RestCandles` | a candle of a price without a block row survives the rollback and is counted twice |
| `reorg_in_place` | `OverwrittenInPlace` | re-indexing a height whose dropped block had more events leaves the surplus rows |

`mutants` names, for every property of a passing run, a plausible bug (an
operator next to the one it replaces) under which TLC finds it violated.

## 4. Fairness

* Worker: `WF` of `Step` - a running process goes on; of `Launch` for a range
  that is not completed and of `Remove` - the supervisor's loop never ends and
  brings such a range back (`BackfillCompletes` is the check of that).
* Supervisor: `WF` of the loop (its service restarts it), of each container's own
  steps, of raw-live and of the clock. No fault is fair and their number is
  bounded.
* Publisher: `WF` of starting and of every pipeline's steps.
* MainBackfill: `WF` of the loop and of the live follower, and weak fairness of
  the containers, written out as "infinitely often no container is up, or one
  takes a step". That raw ranges end up completed and linked is a hypothesis of
  `PriceBackfillCompletes`; `BackfillCompletes` is the check of it.
* ReorgHeal: `WF` of the chain's growth, of the age of the checkpoint row, of the
  follower (its container is restarted) and of the healer (the loop polls). No
  reorganisation and no fault is fair.
* Derivations: `WF` of the clock, of hours closing and rows landing, of the
  container's next cycle and of every step of a running cycle. A one-shot run need
  never start.
* AlertEvaluator: `WF` of the tick (an interval timer); `SF` of the chain and the feeds
  together, which the model moves only where the tick reads them. They come to an end,
  so each of them arrives, late rows included. No fault and no mute is fair.
* ApiCache: a query is answered or fails; nobody is obliged to read, install or
  seed.

## 5. Theorems

Proved by TLAPS for every value of the constants that satisfies their assumptions,
and listed in `PROJECT.json`: all safety invariants and action properties the
passing runs check, and the two refinements. The assumptions
(`ASSUME` in each module, evaluated by TLC in every run) fix the shape of the
constants: ranges of naturals that are not empty and, for worker and publisher,
disjoint; positive sizes; finite sets of keys, groups, hours and raw ranges; `None`
and "absent" are no values; backfills lie below the live heights; the settle margin
is at least two ticks; no two groups have the same key. The numbers of faults, crashes,
reorganisations, installs and rollbacks are arbitrary naturals, so what TLC shows for
one or two is proved for any.

Every proof has the same form: an inductive invariant `IInv` (checked by TLC on the
run's instance before it was proved), one lemma per action or group of actions that
shows it is kept, and the properties as consequences. What the invariants add to the
properties is what processes hold between two of their steps.

**RawRangeWorker.** `IInv` adds to the type invariant: a process runs exactly in
a container that is up (`ProcessInv`); buffered blocks lie in the range, between
checkpoint and head (`BufferInv`); what is stored or buffered is still served by
the archive (`ArchiveInv`), so a height the processor passes over is in no table
(`SkipInv`); the tables a flush has passed hold the buffer (`FlushInv`); and what
a validation accepted stays true while its verdict is used (`ValidationInv`).
`CheckpointCovered` needs all of them: the checkpoint moves over a mixture of
flushed and skipped heights, and `SkipInv` is what makes the skipped ones equal in
all tables. `CompletedWhole` follows from `ValidationInv` and `CheckpointCovered`:
the code validates `raw_blocks` and the other tables agree with it up to the
checkpoint. `CompletedFrozen` follows because a completed range has its
checkpoint at its end and nothing is buffered below a checkpoint. `RefinesJob`
maps each step to a `RangeJob` step or a stutter, using `ProcessInv` for the
bounds on `marks`.

**Supervisor.** The loop acts on lists and counts it read several calls ago, some of
which failed. The invariant says which facts survive: a container listed as stopped is
there and stopped until it is removed (`CleanupInv`), a listed row whose range has no
container is the row as listed (`RecoverInv`; a range taken for an orphan in error has
one, and is not started), the range about to be claimed ends right below a claim or
where raw-live has taken over, and below all claims unless a read failed (`EnsureInv`),
a range has a row before its container is removed (`RowInv`), it has retries left or is
blocked and cooled down (`RetryInv`), and the slot counted as free is free but for the
`miscounts` (`SlotInv`, since only the loop starts containers). `WorkerCap`, `ClaimsInv`
and `NoHotRetry` are each one of these facts at the step that uses it. That no block is
left out holds whatever fails: every height the frontier can be read as is one below
which a range was claimed.

**MainBackfill.** `HoleInv` is the heart: every height above a published block, above
a range with a container, or above the frontier the claim is made under, is
published, promised by a container or dropped. The frontier is a minimum over two
reads at different times; what keeps `HoleInv` is that between them blocks are only
added and containers leave only with their blocks published or counted as `dropped`.
`DisjointInv`, `CoverInv` and `CapInv` are conditional on the kinds of faults that
break them, so `ClaimsSound` and `CapExceededOnlyByFailures` name exactly these.

`MainBackfillCoverage` (`CoverageExact`) is about the loops of `RawCoverage` for any
number of raw ranges, so it needs induction over the turns of a loop. `NatInduct`
states it for a set of numbers instead of a predicate: a set that holds 0 and with
each number below the bound the next one holds them all (were one missing, the least
missing one would be a successor). Each loop is then a lemma about the set of turns
after which its invariant holds: `MergeFacts` (after `n` turns the merged ranges are
apart, begin and end in order and name the heights of the first `n`),
`VisitKeeps` and `CoverageFacts` (the missing ranges are apart, lie below the cursor
and name the heights there that no visited range holds). `SortFacts` gives the order
they start from, also by counting up from the empty set of ranges.

**ReorgHeal.** `Whole(b)`: the tables hold `b` and all its ancestors with all events.
`LiveInv` gives it for what the follower has saved, and part of it for the inserts of
the flush it is in; a rollback only lowers the checkpoint, so it keeps `Whole`.
`HealInv`: what a pass has read is an ancestor of the checkpoint in the table, and
what an answered probe found gone stays gone. The latter rests on `ChainInv`: every
block the pipeline remembers has been on the chain, hence is on it or on a branch
that was left, which the chain never grows back into.

**PricePublisher.** `IInv` relates what a process holds to what is published: a
held block row waits behind its prices and volumes (`PendingInv`, by
`OrderInv`: tables passed are flushed), every height passed is held or visible
(`CoverInv`), what a probe did not find is still missing when it is inserted
(`FreshInv`, because no two pipelines share a height, `HeldInv`), each row exists
at most once and the candles equal the price rows (`SingleInv`), the live
follower's visible blocks have no gap, nor will the next insert make one
(`LiveInv`: it may restart above the newest block without any checkpoint), and a
backfill flushes only a completely indexed range (`RangeInv`).

`RefinesPublication` needs two more facts about where a process is. `PrefixInv`: what
is visible of a backfill is a prefix of its range, and what it is about to insert into
`blocks` continues that prefix. This rests on the order of the chunks: a chunk takes
the lowest staged rows (`ChunkFacts`), every passed height is staged or visible
(`CoverInv`), so nothing is left out below it. `ForwardInv`: between a batch and its
checkpoint the pipeline stands above both the checkpoint and its base, so a save moves
the checkpoint forward or leaves it. With these, an insert is `AddPrices`,
`AddVolumes`, `Publish` or a stutter by its table, a checkpoint is `Save` or a
stutter, and every other step leaves what readers see alone. Continuing a range and
pricing it first, which are invariants of single states in `IInv`, thereby become
statements about every step a reader can observe.

**PriceRollback.** `RInv` of `RollbackInvariant` keeps of this what a half-done
rollback respects: the parts that speak of processes (`Core`) everywhere, the parts
that relate tables (`Healthy`) for the heights below the target. `CommandInv` says
that a target is kept until the checkpoint is reset, also through failures, that the
follower stands still, and that from the fourth command on nothing above the target is
visible; so at the reset `Healthy` extends to all heights again. `SingleInv` is not
part of it: `rollback_candles` shows that candles do not survive a rollback.

**Derivations.** `LiveRight`: the rows of an hour, each with its own stamp, say what
the fold saw of every row of the hour unless that changed later than the stamp less
the settle margin; this is the comparison the staleness test makes. `TwinInv` says the
same of a twin in the making, stream by stream: rows are read after the stamp was
taken, so what a stream read may already be newer or be overtaken, but then by a change
later than stamp, marks and watermark (`StillSeen`). `MarkInv` says it of the empty marks.
`ProcOK` and `ClockInv` bound stamps by the clock and rows in flight by the margin.
These hold while no two publications have met (`overlap`), which `AloneInv` ties to the
program counters. `MonthInv`: while cycles do not meet, a fold's stamp is above every
month's, so a month built before it is marked stale.

**AlertEvaluator.** A row is owed if its rule is active and it is neither told, nor
given up, nor lost in one of the two ways of section 6. Owed rows are `Ahead` of the cursor (`CursorOwes`), of the open window
(`WindowOwes`), of the note of their group (`SeenOwes`), and those of a visited group
are matched or ahead of what will be called covered (`VisitOwes`); `SourceInv` bounds how
long a late row hides. All four are needed: the cursor is a minimum over notes made in
earlier ticks by a rotation, compared with a feed head read before the pages.
`IdInv` relates ids to rows: an id in memory or inbox is of a told row (`TellInv`);
while nothing has failed every told row is remembered, and the whole inbox is unless
an answer was lost (`KnownInv`); until a restart the first row of every remembered
digest is remembered beside it, so no new digest has its id, and after one a digest
taken for an earlier one has an end of it on either side of each row it loses
(`DigestInv`). That is what `NothingLost` says of `swallowed`.

**ApiCache.** `FreshInv`: a load that has read data older than the last install of its
key is superseded by its epoch. With `RunInv` (the write sequence counts the
installs that are over) this gives `InstallKept`. `CapHeld` follows from `order` being
a strict total order of the entries: the keys with at least `maxEntries` others behind
them are the surplus, a fact about finite sets.

Proved without a place of their own in a run: `TypeOK` (a part of every `IInv`),
`CompletedKept` (implied by `ImplementsJob`) and `EdgeMatchesData` (the hashes a
completed range is compared by are those of its blocks) of the worker, and
`NoDuplicates` (implied by `SingleInv`) of the publisher.

Only model-checked: liveness, that is `HealthyCompletes`, `BackfillCompletes`,
`PriceBackfillCompletes`, `AllPublished`, `TipRecovers`, `Converges`, `EventuallyTold`
and `LoadsSettle`. Fairness and `ENABLED` are outside the prover's reach.

## 6. Known deviations

Places where the code does less than a comment, a doc or a test says, met while
modelling; those with a run of their own are in section 3. The passing properties
are stated so that they hold in spite of them, and say so.

* Raw ranges. Neighbours that finalize at once each read the other as not completed
  and both complete without the link check (`src/raw/ranges.ts:244`, against
  "crash recovery" in `README.md:86`); the price half checks links again before it
  claims. The supervisor writes `failed` over a completed row
  (`scripts/ingestion-supervisor.sh:162`, against `tests/raw/ranges.test.ts:36`),
  and a failed attempt is logged by worker and supervisor, so the retry limit is
  reached early (`:206`). When `docker ps` fails, 0 containers are counted and one is
  started above `RAW_WORKERS` (`:130`); a range whose container it does not show is
  marked failed, or blocked, while it runs (`:489`). When a read of the frontier fails a
  known range is claimed again or overlapped (`:400`), or a range is started below a
  blocked frontier (`:421`). `WorkerCap` and `ClaimsTile` count and name these
  (`miscounts`, `misread`); `BackfillCompletes` holds in spite of all of them.
* Price ranges. A container ended by SIGTERM exits 0 and is removed as completed
  (`:540`); the script may die after it removed a failed container (`:545`). The
  unpublished part of either is passed by once a lower block is published. A failed
  container is replaced by a claim and then restarted beside it, above
  `MAIN_WORKERS`; a failed `docker ps` can lead to overlapping claims.
* Publication. A runtime upgrade at the first block of a run is not recorded
  (`src/indexer.ts:612`, against `src/store/clickhouseStore.ts:385`); a quiet block
  replayed as the first of a run gets prices after it was visible (`:808`).
* Notifications. "A duplicate is impossible" (`evaluator.ts:1862`) does not hold for
  rows only a digest stood for: they are remembered in memory and not in the inbox,
  so a restart tells them again. A seeded lane re-checks below its seed, against
  "history does not page anybody". `flushCursors` clears its flag before the insert, so a
  failed write is made good only by the next advance. Removing the last channel of
  a rule leaves an empty list, which means every channel.
  Two losses are silent, against "a silent loss is not acceptable"
  (`evaluator.ts:1866`); the passing properties name them and show there is no third.
  First, each rule is rendered under a guard of its own (`:3586`): what throws there is
  logged and its rows are left out, yet `dispatch` reports success (`:3705`) and the
  cursor passes them (`:1918`), without another attempt unless they are still in the
  re-check's reach (`unrendered`). Second, the id of a digest names its first and last
  match only (`:3620`, "the same truncated window collapses on a replay exactly like a
  detail row does"). After a restart the memory knows the ids of digests and not what
  they covered; late rows between the ends of an old digest can then make one with the
  same ends, which is dropped as a duplicate and never sent, against "the inbox stays
  complete" (`:3630`). `NothingLost` says when: only after a restart, and only rows
  strictly between the ends of a digest that is in the inbox (`swallowed`). The run
  `alerts` reaches both.
* Cache. `store.set` of an existing key keeps its place, so "the first entry is
  always the least recently used" is an approximation. Nothing here depends on it.
* Derivations. An hour dropped by hand is not refolded before a restart (against
  `jobs.ts:483` and `006_public.sql`); a month is not rebuilt when one of its hours
  comes to fold to nothing (`jobs.ts:1989`); the full rebuilds compare stamps
  without the settle margin (`jobs.ts:1078`); a one-shot run beside the container
  can swap in a truncated month or leave one stale.

## 7. Plan

Done, in order of importance: `RangeJob`, `RawRangeWorker`, `Supervisor`;
`PricePublisher`, `PriceRollback`; `MainBackfill` with `RawCoverage`; `ReorgHeal`;
`AlertEvaluator`, `ApiCache`, `Derivations`; the safety properties of all of them
proved; `Publication` and its refinement.

To prove next: an abstract specification of a lane of the evaluator (rows are owed, then
told or given up, and never owed again) and its refinement, as for `Publication`.

To model next: late inserts in `PricePublisher`; `CompositionCache`; the other
lanes of the evaluator and its outbound channels; the full rebuild jobs;
`headSingleFlight` and the pending head.

## 8. Not modelled

Price computation (arithmetic over pool states), the decoding of blocks into
rows, the SQL read models and request handlers of the APIs, both UIs, the schema
and the backup scripts: values and presentation, with no state the properties
above are about. They are most of the repository's lines (`explorerService.ts`
alone is 35,000 lines of queries and formatting), so the share of lines `map`
covers stays small although the stateful parts are covered. `components` in
`PROJECT.json` lists each part with its reason.
