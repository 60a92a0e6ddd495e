---------------------------- MODULE Derivations ----------------------------
(* The derivations worker of api/src/derivations: runner.ts's cycle over two *)
(* chained jobs of jobs.ts.  revenue_events folds source rows into hours:    *)
(* an hour whose newest input is younger than its computed_at minus a settle *)
(* margin, or whose registry fingerprint moved, is recomputed and its month  *)
(* is republished from a staging twin.  account_revenue then rebuilds the    *)
(* months whose hours were republished.  Two processes may run the cycle:    *)
(* the container, and an operator's DERIVATIONS_ONESHOT run beside it.       *)
EXTENDS Integers, FiniteSets, FiniteSetsExt

CONSTANTS
    Hours,        \* chain-time hours, the buckets of the fold: 1..N
    MonthOf,      \* [Hours -> Nat]: the month partition of an hour
    Rows,         \* source rows, each in one hour and one revenue stream
    HourOf,       \* [Rows -> Hours]
    StreamOf,     \* [Rows -> 1..Streams]
    Streams,      \* how many INSERT statements one month's fold takes
    Void,         \* <<row, version>> pairs that fold to no revenue row
    Indexed,      \* rows already ingested when the worker first starts
    MaxVersion,   \* [Rows -> Nat]: bound on a row's ingests
    SETTLE,       \* INGEST_SETTLE_SECONDS
    LastIngest,   \* bound: no row is ingested, and SETTLE later no hour closes
    LateTicks,    \* bound: sleeps that may pass once every ingest has settled
    MaxFaults     \* bound on crashes, failed jobs and loads, manual runs, and
                  \* registry changes

ASSUME DerivationsAssumption ==
    /\ Hours \subseteq Nat \ {0} /\ IsFiniteSet(Hours) /\ Hours # {}
    /\ MonthOf \in [Hours -> Nat] /\ HourOf \in [Rows -> Hours]
    /\ Streams \in Nat \ {0} /\ StreamOf \in [Rows -> 1..Streams]
    /\ SETTLE \in Nat \ {0, 1}
    /\ {LastIngest, LateTicks, MaxFaults} \subseteq Nat

VARIABLES
    now,       \* the server's clock, in seconds
    sent,      \* per row, the newest ingest: its version and its ingested_at
    seen,      \* per row, the newest ingest that readers see
    cut,       \* hours below it are closed and priced
    registry,  \* the asset registry's current fingerprint
    live,      \* revenue_events
    twin,      \* revenue_events_staging
    months,    \* account_revenue: what each month was summed from, and when
    mtwin,     \* account_revenue_staging
    pc,        \* per process, where its cycle stands
    slept,     \* per process, the sleep after its last cycle has passed
    loaded,    \* per process, the registry its SQL is built from
    at,        \* per process, revenue_events' computedAt of this cycle
    todo,      \* per process, the stale hours or months of the current job
    stream,    \* per process, the next stream's INSERT
    folded,    \* per process, foldedEmptyBuckets: hour |-> remembered mark
    rebuilt,   \* per process, accountRevenueRebuilt: month |-> watermark
    faults,    \* faults so far
    overlap,   \* two processes have been inside one twin's publication
    together,  \* two processes have been inside a cycle at once
    emptied    \* months that lost an hour to a fold of nothing

source == <<sent, seen, cut, registry>>
tables == <<live, twin, months, mtwin>>
process == <<pc, slept, loaded, at, todo, stream, folded, rebuilt>>
history == <<faults, overlap, together, emptied>>
vars == <<now, source, tables, process, history>>

Procs == {"container", "oneshot"}
Months == {MonthOf[h] : h \in Hours}
Horizon == LastIngest + SETTLE

HourPublication == {"drop", "keep", "write", "swap", "clear"}
MonthPublication == {"mdrop", "mfill", "mswap", "mclear"}
HourJob == {"clock", "stale", "busy"} \cup HourPublication
MonthJob == {"mstale", "mbusy"} \cup MonthPublication
InCycle == HourJob \cup MonthJob

NoMark == <<-1, -1>>
EmptyMonth == [rows |-> {}, at |-> 0]

Other(p) == CHOOSE q \in Procs : q # p

Fault == faults < MaxFaults /\ faults' = faults + 1

Step(p, from, to) == pc[p] = from /\ pc' = [pc EXCEPT ![p] = to]

-----------------------------------------------------------------------------
(* What the staleness queries read. *)

\* The hour's newest visible ingest, 0 when it has no source row.  A row touches its
\* own hour only: the debt rows, whose ingest marks every later hour too, are left out.
SrcIngest(h) == Max({seen[r].at : r \in {x \in Rows : HourOf[x] = h}} \cup {0})

RowsIn(table, h) == {e \in table : HourOf[e.row] = h}

RowsInMonth(table, m) == {e \in table : MonthOf[HourOf[e.row]] = m}

\* The derived side of the LEFT JOIN: 0 when the fold holds nothing.
DerComputed(h) == Max({e.at : e \in RowsIn(live, h)} \cup {0})

Settled(h) == SrcIngest(h) <= now - SETTLE

\* Mutant: no settle margin in the comparison.
MarkedNoMargin(h, fp) ==
    \/ RowsIn(live, h) = {}
    \/ SrcIngest(h) > DerComputed(h)
    \/ \E e \in RowsIn(live, h) : e.fp # fp

\* staleBucketsSql's condition: nothing held, a late input, or another registry.
Marked(h, fp) ==
    \/ RowsIn(live, h) = {}
    \/ SrcIngest(h) > DerComputed(h) - SETTLE
    \/ \E e \in RowsIn(live, h) : e.fp # fp

\* revenue_events' gate: below the cut, and held until its inputs settled.  The hours
\* lie above the priced floor, which the gate also asks for.
Gate(h) == h < cut /\ Settled(h)

HasSource(h) == \E r \in Rows : HourOf[r] = h /\ seen[r].version > 0

EmptyMark(src, fp) == <<src, fp>>

\* bucketsToFold: an empty hour computed at this watermark and registry is skipped.
Remembered(p, h) == RowsIn(live, h) = {} /\ folded[p][h] = EmptyMark(SrcIngest(h), loaded[p])

StaleHours(p) ==
    {h \in Hours : HasSource(h) /\ Gate(h) /\ Marked(h, loaded[p]) /\ ~Remembered(p, h)}

\* The rows one row of the source folds to at its visible version.
FoldRow(r, fp, t) ==
    IF seen[r].version = 0 \/ <<r, seen[r].version>> \in Void THEN {}
    ELSE {[row |-> r, version |-> seen[r].version, fp |-> fp, at |-> t]}

\* A month's revenue_events publication, and what a rebuilt month is summed from.
MonthIngest(m) == Max({e.at : e \in RowsInMonth(live, m)} \cup {0})

Summed(m) == {<<e.row, e.version, e.fp>> : e \in RowsInMonth(live, m)}

\* Mutant: a month that was built once is never stale again.
MonthStaleOnce(m) == months[m].at = 0

MonthStale(m) == months[m].at = 0 \/ MonthIngest(m) > months[m].at

StaleMonths(p) ==
    {m \in Months : /\ RowsInMonth(live, m) # {}
                    /\ MonthStale(m)
                    /\ rebuilt[p][m] # MonthIngest(m)}

-----------------------------------------------------------------------------

Init ==
    /\ now = 1
    /\ sent = [r \in Rows |-> IF r \in Indexed THEN [version |-> 1, at |-> 1]
                              ELSE [version |-> 0, at |-> 0]]
    /\ seen = sent
    /\ cut = Max(Hours)
    /\ registry = 0
    /\ live = {} /\ twin = {}
    /\ months = [m \in Months |-> EmptyMonth] /\ mtwin = months
    /\ pc = [p \in Procs |-> IF p = "container" THEN "idle" ELSE "down"]
    /\ slept = [p \in Procs |-> TRUE]
    /\ loaded = [p \in Procs |-> 0]
    /\ at = [p \in Procs |-> 0]
    /\ todo = [p \in Procs |-> {}]
    /\ stream = [p \in Procs |-> 1]
    /\ folded = [p \in Procs |-> [h \in Hours |-> NoMark]]
    /\ rebuilt = [p \in Procs |-> [m \in Months |-> 0]]
    /\ faults = 0 /\ overlap = FALSE /\ together = FALSE /\ emptied = {}

-----------------------------------------------------------------------------
(* The world: the clock, the ingest pipeline, the registry. *)

InFlight(r) == sent[r] # seen[r]

\* The clock passes; an insert is visible within the settle margin of its stamp.
Tick ==
    /\ \/ now < Horizon
       \/ /\ now < Horizon + LateTicks /\ ~slept["container"]
          /\ \A p \in Procs : pc[p] \notin InCycle
    /\ \A r \in Rows : InFlight(r) => now + 1 < sent[r].at + SETTLE
    /\ now + 1 = Horizon => cut > Max(Hours)
    /\ now' = now + 1
    /\ slept' = [p \in Procs |-> TRUE]
    /\ UNCHANGED <<source, tables, pc, loaded, at, todo, stream, folded, rebuilt, history>>

\* A row is ingested, replayed or corrected: stamped now, visible later.
Ingest(r) ==
    /\ now <= LastIngest /\ ~InFlight(r) /\ sent[r].version < MaxVersion[r]
    /\ sent' = [sent EXCEPT ![r] = [version |-> @.version + 1, at |-> now]]
    /\ UNCHANGED <<now, seen, cut, registry, tables, process, history>>

Land(r) ==
    /\ InFlight(r)
    /\ seen' = [seen EXCEPT ![r] = sent[r]]
    /\ UNCHANGED <<now, sent, cut, registry, tables, process, history>>

\* The head moves past the last hour and its candle closes.
CloseHour ==
    /\ cut = Max(Hours)
    /\ cut' = cut + 1
    /\ UNCHANGED <<now, sent, seen, registry, tables, process, history>>

\* A decimal unit, price alias or priceable asset changes in the registry.
ChangeRegistry ==
    /\ Fault
    /\ now <= LastIngest
    /\ registry' = registry + 1
    /\ UNCHANGED <<now, sent, seen, cut, tables, process, overlap, together, emptied>>

-----------------------------------------------------------------------------
(* runCycle *)

\* Two cycles share a second when one starts while the other runs or just ended.
Beside(p) == pc[Other(p)] \in InCycle \/ ~slept[Other(p)]

\* The cycle starts with a fresh registry: the container's a sleep after the
\* last one ended; a manual run's at any instant an hour can have settled by.
StartCycle(p) ==
    /\ \/ p = "container" /\ Step(p, "idle", "clock") /\ slept[p] /\ UNCHANGED faults
       \/ p = "oneshot" /\ Step(p, "down", "clock") /\ now \in (SETTLE + 1)..Horizon /\ Fault
    /\ loaded' = [loaded EXCEPT ![p] = registry]
    /\ together' = (together \/ Beside(p))
    /\ UNCHANGED <<now, source, tables, slept, at, todo, stream, folded, rebuilt, overlap, emptied>>

\* loadAssets threw: jobs marked needsAssets are skipped for the cycle.
StartWithoutAssets(p) ==
    /\ Fault
    /\ slept[p]
    /\ Step(p, "idle", "mstale")
    /\ together' = (together \/ Beside(p))
    /\ UNCHANGED <<now, source, tables, slept, loaded, at, todo, stream, folded, rebuilt,
                   overlap, emptied>>

\* Where the cycle goes on after a job, whose locals are gone: the next job,
\* then the sleep or the exit of a manual run.
AfterHours(p) ==
    /\ pc' = [pc EXCEPT ![p] = "mstale"]
    /\ todo' = [todo EXCEPT ![p] = {}]
    /\ at' = [at EXCEPT ![p] = 0]
    /\ stream' = [stream EXCEPT ![p] = 1]
    /\ UNCHANGED slept

AfterMonths(p) ==
    /\ pc' = [pc EXCEPT ![p] = IF p = "oneshot" THEN "exited" ELSE "idle"]
    /\ todo' = [todo EXCEPT ![p] = {}]
    /\ slept' = [slept EXCEPT ![p] = FALSE]
    /\ UNCHANGED <<at, stream>>

\* A job threw: the runner logs it and attempts the next one.
JobThrows(p) ==
    /\ Fault
    /\ \/ pc[p] \in HourJob /\ AfterHours(p)
       \/ pc[p] \in MonthJob /\ AfterMonths(p)
    /\ UNCHANGED <<now, source, tables, loaded, folded, rebuilt, overlap, together, emptied>>

\* The process dies; what it remembers in memory goes with it.
Crash(p) ==
    /\ Fault
    /\ pc[p] \in InCycle
    /\ pc' = [pc EXCEPT ![p] = IF p = "oneshot" THEN "exited" ELSE "idle"]
    /\ slept' = [slept EXCEPT ![p] = FALSE]
    /\ todo' = [todo EXCEPT ![p] = {}]
    /\ at' = [at EXCEPT ![p] = 0]
    /\ stream' = [stream EXCEPT ![p] = 1]
    /\ folded' = [folded EXCEPT ![p] = [h \in Hours |-> NoMark]]
    /\ rebuilt' = [rebuilt EXCEPT ![p] = [m \in Months |-> 0]]
    /\ UNCHANGED <<now, source, tables, loaded, overlap, together, emptied>>

-----------------------------------------------------------------------------
(* revenue_events: runRevenueEvents and republishBuckets *)

\* Candidates keep the watermark their staleness query returned.
HourCandidates(p) == {[key |-> h, src |-> SrcIngest(h)] : h \in StaleHours(p)}

CurrentMonth(p) == Min({MonthOf[c.key] : c \in todo[p]})
Current(p) == {c \in todo[p] : MonthOf[c.key] = CurrentMonth(p)}
CurrentHours(p) == {c.key : c \in Current(p)}

\* computedAt is read BEFORE the watermarks.
ReadClock(p) ==
    /\ Step(p, "clock", "stale")
    /\ at' = [at EXCEPT ![p] = now]
    /\ UNCHANGED <<now, source, tables, slept, loaded, todo, stream, folded, rebuilt, history>>

ReadStaleHours(p) ==
    /\ pc[p] = "stale"
    /\ IF StaleHours(p) = {} THEN AfterHours(p)
       ELSE /\ Step(p, "stale", "busy")
            /\ todo' = [todo EXCEPT ![p] = HourCandidates(p)]
            /\ UNCHANGED <<slept, at, stream>>
    /\ UNCHANGED <<now, source, tables, loaded, folded, rebuilt, history>>

\* stagingBusy: only a command in flight is seen, so a process between two
\* commands of its publication may be missed.
TwinFree(p) ==
    /\ \/ /\ Step(p, "busy", "drop")
          /\ overlap' = (overlap \/ pc[Other(p)] \in HourPublication)
       \/ /\ Step(p, "mbusy", "mdrop")
          /\ overlap' = (overlap \/ pc[Other(p)] \in MonthPublication)
    /\ UNCHANGED <<now, source, tables, slept, loaded, at, todo, stream, folded, rebuilt,
                   faults, together, emptied>>

TwinBusy(p) ==
    /\ \/ pc[p] = "busy" /\ pc[Other(p)] \in HourPublication /\ AfterHours(p)
       \/ pc[p] = "mbusy" /\ pc[Other(p)] \in MonthPublication /\ AfterMonths(p)
    /\ UNCHANGED <<now, source, tables, loaded, folded, rebuilt, history>>

\* Mutant: the twin is not dropped before it is filled.
DropTwinNot(p) ==
    /\ Step(p, "drop", "keep")
    /\ UNCHANGED <<now, source, tables, slept, loaded, at, todo, stream, folded, rebuilt, history>>

\* ALTER TABLE twin DROP PARTITION, first: a crashed run left rows there.
DropTwin(p) ==
    /\ Step(p, "drop", "keep")
    /\ twin' = twin \ RowsInMonth(twin, CurrentMonth(p))
    /\ UNCHANGED <<now, source, live, months, mtwin, slept, loaded, at, todo, stream,
                   folded, rebuilt, history>>

\* Mutant: the month's other hours are not copied.
KeptRowsNone(p) == {}

\* keptRevenueRowsSql: the live month's rows of every hour not recomputed.
KeptRows(p) ==
    {e \in RowsInMonth(live, CurrentMonth(p)) : HourOf[e.row] \notin CurrentHours(p)}

\* The marks of the current month's recomputed hours.
Mark(p) ==
    [h \in Hours |-> IF h \in CurrentHours(p)
                     THEN EmptyMark((CHOOSE c \in Current(p) : c.key = h).src, loaded[p])
                     ELSE folded[p][h]]

\* Mutant: the marks are remembered before the month is published.
KeepRowsMark(p) ==
    /\ Step(p, "keep", "write")
    /\ twin' = twin \cup KeptRows(p)
    /\ folded' = [folded EXCEPT ![p] = Mark(p)]
    /\ UNCHANGED <<now, source, live, months, mtwin, slept, loaded, at, todo, stream,
                   rebuilt, history>>

KeepRows(p) ==
    /\ Step(p, "keep", "write")
    /\ twin' = twin \cup KeptRows(p)
    /\ UNCHANGED <<now, source, live, months, mtwin, slept, loaded, at, todo, stream,
                   folded, rebuilt, history>>

\* One stream's INSERT: the stale hours' rows as the source reads now, stamped
\* with computedAt and the registry the statement was built from.
WriteStream(p) ==
    /\ pc[p] = "write"
    /\ twin' = twin \cup UNION {FoldRow(r, loaded[p], at[p]) :
                 r \in {x \in Rows : StreamOf[x] = stream[p] /\ HourOf[x] \in CurrentHours(p)}}
    /\ IF stream[p] < Streams
       THEN stream' = [stream EXCEPT ![p] = @ + 1] /\ UNCHANGED pc
       ELSE Step(p, "write", "swap") /\ UNCHANGED stream
    /\ UNCHANGED <<now, source, live, months, mtwin, slept, loaded, at, todo,
                   folded, rebuilt, history>>

\* ALTER TABLE live REPLACE PARTITION FROM twin, in one operation.
Swap(p) ==
    LET m == CurrentMonth(p)
        next == (live \ RowsInMonth(live, m)) \cup RowsInMonth(twin, m)
    IN /\ Step(p, "swap", "clear")
       /\ live' = next
       /\ emptied' = IF \E h \in CurrentHours(p) : RowsIn(live, h) # {} /\ RowsIn(next, h) = {}
                     THEN emptied \cup {m} ELSE emptied
       /\ UNCHANGED <<now, source, twin, months, mtwin, slept, loaded, at, todo, stream,
                      folded, rebuilt, faults, overlap, together>>

\* Only after the swap are the recomputed hours' marks remembered.
ClearTwin(p) ==
    /\ pc[p] = "clear"
    /\ twin' = twin \ RowsInMonth(twin, CurrentMonth(p))
    /\ folded' = [folded EXCEPT ![p] = Mark(p)]
    /\ IF todo[p] = Current(p) THEN AfterHours(p)
       ELSE /\ Step(p, "clear", "drop")
            /\ todo' = [todo EXCEPT ![p] = @ \ Current(p)]
            /\ stream' = [stream EXCEPT ![p] = 1]
            /\ UNCHANGED <<slept, at>>
    /\ UNCHANGED <<now, source, live, months, mtwin, loaded, rebuilt, history>>

-----------------------------------------------------------------------------
(* account_revenue: runAccountRevenue and publishPartitions *)

MonthCandidates(p) == {[key |-> m, src |-> MonthIngest(m)] : m \in StaleMonths(p)}

Month(p) == Min({c.key : c \in todo[p]})

ReadStaleMonths(p) ==
    /\ pc[p] = "mstale"
    /\ IF StaleMonths(p) = {} THEN AfterMonths(p)
       ELSE /\ Step(p, "mstale", "mbusy")
            /\ todo' = [todo EXCEPT ![p] = MonthCandidates(p)]
            /\ UNCHANGED <<slept, at, stream>>
    /\ UNCHANGED <<now, source, tables, loaded, folded, rebuilt, history>>

DropMonthTwin(p) ==
    /\ Step(p, "mdrop", "mfill")
    /\ mtwin' = [mtwin EXCEPT ![Month(p)] = EmptyMonth]
    /\ UNCHANGED <<now, source, live, twin, months, slept, loaded, at, todo, stream,
                   folded, rebuilt, history>>

\* The month's rows from the revenue rows published now; computed_at DEFAULT now().
FillMonth(p) ==
    /\ Step(p, "mfill", "mswap")
    /\ mtwin' = [mtwin EXCEPT ![Month(p)] =
                   [rows |-> @.rows \cup Summed(Month(p)),
                    at |-> IF Summed(Month(p)) = {} THEN @.at ELSE now]]
    /\ UNCHANGED <<now, source, live, twin, months, slept, loaded, at, todo, stream,
                   folded, rebuilt, history>>

SwapMonth(p) ==
    /\ Step(p, "mswap", "mclear")
    /\ months' = [months EXCEPT ![Month(p)] = mtwin[Month(p)]]
    /\ emptied' = emptied \ {Month(p)}
    /\ UNCHANGED <<now, source, live, twin, mtwin, slept, loaded, at, todo, stream,
                   folded, rebuilt, faults, overlap, together>>

ClearMonthTwin(p) ==
    LET done == CHOOSE c \in todo[p] : c.key = Month(p)
    IN /\ pc[p] = "mclear"
       /\ mtwin' = [mtwin EXCEPT ![done.key] = EmptyMonth]
       /\ rebuilt' = [rebuilt EXCEPT ![p][done.key] = done.src]
       /\ IF todo[p] = {done} THEN AfterMonths(p)
          ELSE /\ Step(p, "mclear", "mdrop")
               /\ todo' = [todo EXCEPT ![p] = @ \ {done}]
               /\ UNCHANGED <<slept, at, stream>>
       /\ UNCHANGED <<now, source, live, twin, months, loaded, folded, history>>

-----------------------------------------------------------------------------

Run(p) ==
    \/ ReadClock(p) \/ ReadStaleHours(p)
    \/ TwinFree(p) \/ DropTwin(p) \/ KeepRows(p) \/ WriteStream(p) \/ Swap(p) \/ ClearTwin(p)
    \/ ReadStaleMonths(p) \/ DropMonthTwin(p) \/ FillMonth(p) \/ SwapMonth(p)
    \/ ClearMonthTwin(p)

Next ==
    \/ Tick \/ CloseHour \/ ChangeRegistry
    \/ \E r \in Rows : Ingest(r) \/ Land(r)
    \/ \E p \in Procs : \/ StartCycle(p) \/ Run(p) \/ TwinBusy(p)
                        \/ StartWithoutAssets(p) \/ JobThrows(p) \/ Crash(p)

Spec == Init /\ [][Next]_vars

\* The container's loop and the clock go on, and an insert becomes visible.
FairSpec ==
    /\ Spec
    /\ WF_vars(Tick) /\ WF_vars(CloseHour)
    /\ \A r \in Rows : WF_vars(Land(r))
    /\ WF_vars(StartCycle("container"))
    /\ \A p \in Procs : WF_vars(Run(p))

-----------------------------------------------------------------------------
(* Properties *)

Stamped == [version : Nat, at : Nat]
Folded == [row : Rows, version : Nat \ {0}, fp : 0..MaxFaults, at : Nat \ {0}]
Summaries == [rows : SUBSET (Rows \X Nat \X Nat), at : Nat]

(* Every variable has its type; computedAt is never ahead of the clock, and  *)
(* a job holds candidates exactly while it is publishing them.               *)
TypeOK ==
    /\ now \in 1..(Horizon + LateTicks)
    /\ sent \in [Rows -> Stamped] /\ seen \in [Rows -> Stamped]
    /\ cut \in Nat /\ registry \in 0..MaxFaults
    /\ live \subseteq Folded /\ twin \subseteq Folded
    /\ \A m \in Months : months[m] \in Summaries /\ mtwin[m] \in Summaries
    /\ pc \in [Procs -> InCycle \cup {"down", "idle", "exited"}]
    /\ \A p \in Procs : /\ loaded[p] \in 0..registry
                        /\ stream[p] \in 1..Streams
                        /\ at[p] <= now /\ slept[p] \in BOOLEAN
                        /\ todo[p] # {} <=> pc[p] \in HourPublication \cup MonthPublication
                                              \cup {"busy", "mbusy"}
    /\ faults \in 0..MaxFaults
    /\ overlap \in BOOLEAN /\ together \in BOOLEAN /\ emptied \subseteq Months

Fold(h, fp) == {<<r, seen[r].version, fp>> :
                  r \in {x \in Rows : HourOf[x] = h /\ FoldRow(x, fp, now) # {}}}

Held(h) == {<<e.row, e.version, e.fp>> : e \in RowsIn(live, h)}

(* staleBucketsSql re-marks "exactly" the hours that need it: an hour with   *)
(* rows that the staleness test passes over holds what a fresh fold of the   *)
(* visible source would, whatever landed, was replayed or crashed meanwhile. *)
UnmarkedIsRight ==
    \A h \in Hours : ~Marked(h, registry) => overlap \/ Held(h) = Fold(h, registry)

(* foldedEmptyBuckets: an hour left empty because the process remembers its  *)
(* watermark and fingerprint really folds to nothing.                        *)
RememberedIsEmpty ==
    \A p \in Procs, h \in Hours :
        /\ pc[p] \notin {"down", "exited"} /\ HasSource(h) /\ Settled(h)
        /\ loaded[p] = registry /\ Remembered(p, h)
        => overlap \/ Fold(h, registry) = {}

(* No hour is passed over wrongly, neither by the staleness test nor by the  *)
(* memory of a process.                                                      *)
PassedOverIsRight == UnmarkedIsRight /\ RememberedIsEmpty

(* The section note: the table never holds two versions of a row, so readers *)
(* need no FINAL, although every publication may be cut short.               *)
OneVersion ==
    overlap \/ \A a, b \in live : a.row = b.row => a = b

(* Tables and processes stay in their domains, one version per row.          *)
TablesSound == TypeOK /\ OneVersion

(* Readers see the previous month or the new one and never a gap: no step    *)
(* empties an hour unless a newer version of its rows folds to nothing.      *)
NoGap ==
    [][\A e \in live : RowsIn(live', HourOf[e.row]) = {} =>
          overlap \/ \E v \in e.version..seen[e.row].version : <<e.row, v>> \in Void]_vars

(* accountRevenueStaleMonthsSql: a month its test passes over is summed from *)
(* the revenue rows now published.  Cycles of two processes, and hours that  *)
(* came to fold to nothing, are outside the claim.                           *)
MonthIsRight ==
    \A m \in Months :
        ~together /\ ~overlap /\ m \notin emptied /\ ~MonthStale(m) => months[m].rows = Summed(m)

(* Every closed hour is in the end what a fresh fold gives, through late     *)
(* rows, corrections, a changed registry, failed jobs and crashes.           *)
HoursConverge ==
    <>[](overlap \/ \A h \in Hours : Held(h) = Fold(h, registry))

(* Every account_revenue month is in the end summed from the revenue rows    *)
(* that are published, whichever steps of the two jobs failed.               *)
MonthsConverge ==
    <>[](together \/ emptied # {} \/ \A m \in Months : months[m].rows = Summed(m))

(* Hours and months both converge on their sources.                          *)
Converges == HoursConverge /\ MonthsConverge
=============================================================================
