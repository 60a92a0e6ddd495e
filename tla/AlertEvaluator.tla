--------------------------- MODULE AlertEvaluator ---------------------------
(***************************************************************************)
(* One page-backed lane of the alert evaluator                             *)
(* (api/src/notifications/evaluator.ts): its cursor, the rotation over     *)
(* source groups, the window it matches, and the inbox its matches are     *)
(* written to (delivery.ts, notificationStore.ts).                         *)
(*                                                                         *)
(* A group stands for a watched target with one rule; a row <<g, h>> is    *)
(* what the feed of g shows of block h.  Each await of a tick whose answer *)
(* another process changes is a step.  Memory is lost in a crash; the      *)
(* inbox and the stored cursor are rows in ClickHouse.                     *)
(***************************************************************************)
EXTENDS Integers, Sequences, FiniteSets, FiniteSetsExt, Functions

CONSTANTS
  Groups,
  KeyOrder,                \* the place of a group's key among all, sorted
  Rows,                    \* the rows the feeds will ever show
  LateRows,                \* those that may trail the source watermark
  MaxHead,                 \* bound: the last block
  Flushes,                 \* bound: the blocks the indexer's flushes end at
  MAX_WINDOW_BLOCKS,
  TRAILING_RECHECK_BLOCKS,
  SOURCE_FETCH_CAP,
  INBOX_ROWS_PER_RULE,
  ACTIVITY_PAGE_WIDE,
  None,                    \* null
  MaxTroubles              \* bound: failures, crashes, and rules muted or unmuted

ASSUME AlertAssumption ==
  /\ IsFiniteSet(Groups) /\ KeyOrder \in [Groups -> Nat]
  /\ \A g, k \in Groups : KeyOrder[g] = KeyOrder[k] => g = k
  /\ MaxHead \in Nat \ {0} /\ Flushes \subseteq 1..MaxHead /\ MaxHead \in Flushes
  /\ Rows \subseteq Groups \X (1..MaxHead) /\ LateRows \subseteq Rows
  /\ {MAX_WINDOW_BLOCKS, SOURCE_FETCH_CAP, INBOX_ROWS_PER_RULE, ACTIVITY_PAGE_WIDE}
       \subseteq Nat \ {0}
  /\ {TRAILING_RECHECK_BLOCKS, MaxTroubles} \subseteq Nat
  /\ None \notin Nat

VARIABLES
  (* the indexer and the feeds *)
  head,        \* last block of raw-live in raw_ingestion_state
  source,      \* the block every feed has reached, late rows apart
  revealed,    \* the late rows that have become visible
  (* rows of the notification tables *)
  active,      \* groups whose rule is not muted
  stored,      \* the persisted cursor
  inbox,       \* notification ids with a row
  (* memory of the process *)
  cursor, dirty, seen, rotation,
  remembered,  \* recentNotificationIds
  (* the tick *)
  at, tickHead, tickSource, window, keys, queue, visited, matches,
  thrown,      \* matches whose rendering has thrown
  (* history and bounds *)
  told,        \* rows some inbox row stood for
  writtenOff,  \* untold rows the lane gave up: clamp, full page, seeding, muted
  swallowed,   \* untold rows of a digest dropped as a duplicate
  unrendered,  \* untold rows left out of a batch because their rendering threw
  uncertain,   \* an insert failed after the server had applied it
  restarted,   \* the process has died before
  faults, toggles

world  == <<head, source, revealed>>
tables == <<active, stored, inbox>>
memory == <<cursor, dirty, seen, rotation, remembered>>
tick   == <<at, tickHead, tickSource, window, keys, queue, visited, matches, thrown>>
ledger == <<told, writtenOff, swallowed, unrendered, uncertain, restarted>>
bounds == <<faults, toggles>>
vars   == <<world, tables, memory, tick, ledger, bounds>>

Height(r) == r[2]
Visible(r) == IF r \in LateRows THEN r \in revealed ELSE Height(r) <= source

Fault == faults + toggles < MaxTroubles /\ faults' = faults + 1

Init ==
  /\ head = 1 /\ source = 1 /\ revealed = {}
  /\ active \in (SUBSET Groups) \ {{}} /\ stored = None /\ inbox = {}
  /\ cursor = None /\ dirty = FALSE /\ seen = <<>> /\ rotation = 0 /\ remembered = {}
  /\ at = "idle" /\ tickHead = None /\ tickSource = None /\ window = None
  /\ keys = {} /\ queue = <<>> /\ visited = {} /\ matches = {} /\ thrown = {}
  /\ told = {} /\ writtenOff = {} /\ swallowed = {}
  /\ unrendered = {} /\ uncertain = FALSE /\ restarted = FALSE
  /\ faults = 0 /\ toggles = 0

-----------------------------------------------------------------------------
(* The world: the chain advances, the feeds follow in their own time.      *)

\* The head is read in one step only: it need not move during the rest of a tick.
\* What the feeds show is read by the visits, and their watermark at the start.
AdvanceHead ==
  /\ at = "idle"
  /\ head' \in {b \in Flushes : b > head}
  /\ UNCHANGED <<source, revealed, tables, memory, tick, ledger, bounds>>

\* A late row is visible before the feeds are TRAILING_RECHECK_BLOCKS past it.
AdvanceSource ==
  /\ at = "idle" \/ queue # <<>>
  /\ source' \in {b \in Flushes : b > source}
  /\ \A r \in LateRows \ revealed : source' < Height(r) + TRAILING_RECHECK_BLOCKS
  /\ UNCHANGED <<head, revealed, tables, memory, tick, ledger, bounds>>

Reveal(r) ==
  /\ at = "idle" \/ queue # <<>>
  /\ r \in LateRows \ revealed /\ Height(r) <= source
  /\ revealed' = revealed \cup {r}
  /\ UNCHANGED <<head, source, tables, memory, tick, ledger, bounds>>

\* What a muted rule missed is not owed to its owner when it is unmuted.
ToggleRule(g) ==
  /\ faults + toggles < MaxTroubles /\ toggles' = toggles + 1
  /\ IF g \in active
       THEN active' = active \ {g} /\ UNCHANGED writtenOff
       ELSE /\ active' = active \cup {g}
            /\ writtenOff' = writtenOff \cup {r \in Rows \ told : r[1] = g /\ Height(r) <= head}
  /\ UNCHANGED <<world, stored, inbox, memory, tick, told, swallowed, unrendered,
                 uncertain, restarted, faults>>

-----------------------------------------------------------------------------
(* runEvaluatorTick.                                                       *)

\* The locals of a tick go out of scope.
Settle(next) ==
  /\ at' = next /\ tickHead' = None /\ tickSource' = None /\ window' = None
  /\ keys' = {} /\ queue' = <<>> /\ visited' = {} /\ matches' = {} /\ thrown' = {}

TickDone == Settle("idle")

\* flushCursors follows, forced when the tick had matches.
ToFlush == Settle(IF matches = {} THEN "flush" ELSE "flushNow")

ReadHead ==
  /\ at = "idle"
  /\ at' = "source" /\ tickHead' = head
  /\ UNCHANGED <<world, tables, memory, tickSource, window, keys, queue, visited, matches,
                 thrown, ledger, bounds>>

\* An unreadable head ends the tick.
HeadUnreadable ==
  /\ at = "source" /\ Fault
  /\ TickDone
  /\ UNCHANGED <<world, tables, memory, ledger, toggles>>

\* The watermark, read before the lane reads its source; unreadable, it is null.
ReadSource ==
  /\ at = "source"
  /\ \/ tickSource' = source /\ UNCHANGED faults
     \/ tickSource' = None /\ Fault
  /\ at' = "lane"
  /\ UNCHANGED <<world, tables, memory, tickHead, window, keys, queue, visited, matches,
                 thrown, ledger, toggles>>

-----------------------------------------------------------------------------
(* runKindLane.                                                            *)

resolveWindow(c, h) ==
  LET to == Max({c, h})
  IN  [from |-> IF to - c > MAX_WINDOW_BLOCKS THEN to - MAX_WINDOW_BLOCKS ELSE c, to |-> to]

\* The lower end, exclusive, of what a page-backed lane matches.
recheckFrom(w) == Max({0, w.from - TRAILING_RECHECK_BLOCKS})

\* No active rule, or nothing above the cursor: the tick has no lane to advance.
LaneIdle ==
  /\ at = "lane"
  /\ \/ active = {}
     \/ active # {} /\ cursor # None /\ tickHead <= cursor
  /\ ToFlush
  /\ UNCHANGED <<world, tables, memory, ledger, bounds>>

\* The first run: everything already indexed is history.  The cursor is kept in
\* memory even if the write fails.
SeedCursor ==
  /\ at = "lane" /\ active # {} /\ cursor = None
  /\ cursor' = tickHead /\ dirty' = FALSE
  /\ \/ stored' = tickHead /\ UNCHANGED faults
     \/ UNCHANGED stored /\ Fault
  /\ writtenOff' = writtenOff \cup {r \in Rows \ told : Height(r) <= tickHead}
  /\ ToFlush
  /\ UNCHANGED <<world, active, inbox, seen, rotation, remembered, told, swallowed,
                 unrendered, uncertain, restarted, toggles>>

\* The active groups in the order of their keys, counted from 0.
GroupAt(i) ==
  CHOOSE g \in active : Cardinality({k \in active : KeyOrder[k] < KeyOrder[g]}) = i

\* Blocks the clamp skips are given up (the re-check may still find their rows).
BeginLane ==
  /\ at = "lane" /\ active # {} /\ cursor # None /\ tickHead > cursor
  /\ LET w     == resolveWindow(cursor, tickHead)
         n     == Cardinality(active)
         start == rotation % n
         take  == Min({n, SOURCE_FETCH_CAP})
     IN  /\ window' = w
         /\ keys' = active
         /\ queue' = [i \in 1..take |-> GroupAt((start + i - 1) % n)]
         /\ rotation' = (start + take) % n
         /\ writtenOff' = IF w.from = cursor THEN writtenOff
                          ELSE writtenOff \cup {r \in Rows \ told : Height(r) <= w.from}
  /\ at' = "visit" /\ tickHead' = None
  /\ visited' = {} /\ matches' = {} /\ thrown' = {}
  /\ UNCHANGED <<world, tables, cursor, dirty, seen, remembered, tickSource,
                 told, swallowed, unrendered, uncertain, restarted, bounds>>

\* fetchActivityPage: the newest rows of the feed, as many as the wide page has.
Page(g) ==
  LET rows == {r \in Rows : r[1] = g /\ Visible(r)}
  IN  {r \in rows : Cardinality({q \in rows : Height(q) > Height(r)}) < ACTIVITY_PAGE_WIDE}

\* Mutant: only the cursor's own window is matched.
MatchedOnce(r) == Height(r) > window.from /\ Height(r) <= window.to

Matched(r) == Height(r) > recheckFrom(window) /\ Height(r) <= window.to

\* One group of visitGroups.  Rows a full page pushed out are given up.
Visit ==
  /\ at = "visit" /\ queue # <<>>
  /\ LET g == Head(queue)
     IN  /\ matches' = matches \cup {r \in Page(g) : Matched(r)}
         /\ visited' = visited \cup {g}
         /\ writtenOff' = writtenOff \cup
              {r \in Rows \ told : r[1] = g /\ Visible(r) /\ Matched(r) /\ r \notin Page(g)}
  /\ queue' = Tail(queue)
  /\ UNCHANGED <<world, tables, memory, at, tickHead, tickSource, window, keys, thrown,
                 told, swallowed, unrendered, uncertain, restarted, bounds>>

\* One group's source failing leaves it unvisited and the others alone.
VisitFails ==
  /\ at = "visit" /\ queue # <<>> /\ Fault
  /\ queue' = Tail(queue)
  /\ UNCHANGED <<world, tables, memory, at, tickHead, tickSource, window, keys, visited,
                 matches, thrown, ledger, toggles>>

-----------------------------------------------------------------------------
(* laneCursor: where the lane may stand once its matches are stored.       *)

\* Mutant: the ingestion head is taken for what the source has shown.
windowCoveredToHead(w, s) == w.to

\* Mutant: the lane follows the source past the window it matched.
windowCoveredToSource(w, s) == Max({w.from, s})

windowCoveredTo(w, s) == Max({w.from, Min({w.to, s})})

\* groupsCoveredTo, its map: raised for the groups visited, pruned to the
\* current ones.
SeenAfter(covered) ==
  [g \in (DOMAIN seen \cup visited) \cap keys |->
     LET old == IF g \in DOMAIN seen THEN seen[g] ELSE 0
     IN  IF g \in visited THEN Max({old, covered}) ELSE old]

\* groupsCoveredTo, its result: a group never read holds the lane.
CoveredFloor(s, covered) ==
  IF keys \subseteq DOMAIN s
    THEN Max({cursor, Min({covered} \cup {s[g] : g \in keys})})
    ELSE cursor

-----------------------------------------------------------------------------
(* dispatch: what is new becomes detail rows and one digest per rule,      *)
(* written in one insert.                                                  *)

RowId(r) == <<r[1], "row", Height(r), Height(r)>>
DigestId(rs) == LET hs == {Height(r) : r \in rs}
                IN  <<(CHOOSE r \in rs : TRUE)[1], "digest", Min(hs), Max(hs)>>

\* Rules muted meanwhile, rows already delivered and rows that cannot be rendered
\* are left out.
Fresh(g) == {r \in matches \ thrown : r[1] = g /\ g \in active /\ RowId(r) \notin remembered}

Detailed(g) == {r \in Fresh(g) :
                  Cardinality({q \in Fresh(g) : Height(q) < Height(r)}) < INBOX_ROWS_PER_RULE}
Overflow(g) == Fresh(g) \ Detailed(g)

\* Rendering a rule's matches throws, and the rule's guard swallows it: before its
\* detail rows are in the batch, so that all its rows are left out, or in its digest.
\* Each rule has a guard of its own, and the tick goes on.
DispatchThrows(g) ==
  /\ at = "visit" /\ queue = <<>> /\ Fault
  /\ \E lost \in {Fresh(g), Overflow(g)} \ {{}} : thrown' = thrown \cup lost
  /\ UNCHANGED <<world, tables, memory, at, tickHead, tickSource, window, keys, queue, visited,
                 matches, ledger, toggles>>

\* prepareNotifications: a digest whose id is known is dropped as a duplicate.
Digests == {rs \in {Overflow(g) : g \in Groups} : rs # {} /\ DigestId(rs) \notin remembered}

Batch == {RowId(r) : r \in UNION {Detailed(g) : g \in Groups}} \cup {DigestId(rs) : rs \in Digests}

\* The rows the batch stands for.
Carried == (UNION {Detailed(g) : g \in Groups}) \cup (UNION Digests)

\* Untold rows whose digest is dropped: another digest with the same ends was written
\* before the restart.
Swallowed == (UNION {Overflow(g) : g \in Groups}) \ (Carried \cup told)

\* Rows of the batch that get an inbox row beside one they already have.
Repeated == {r \in Carried \cap told :
               \/ r \notin UNION Digests /\ RowId(r) \notin inbox
               \/ \E rs \in Digests : r \in rs /\ DigestId(rs) \notin inbox}

\* What is told after all is not lost.
InsertBatch ==
  /\ inbox' = inbox \cup Batch
  /\ told' = told \cup Carried
  /\ writtenOff' = writtenOff \ Carried

\* commitNotifications remembers what a digest covers beside the ids written.
RememberedAfter == remembered \cup Batch \cup {RowId(r) : r \in Carried}

\* The insert is acknowledged: remember, send, advance the cursor, also past the
\* rows whose rendering threw.
Deliver ==
  /\ at = "visit" /\ queue = <<>>
  /\ InsertBatch
  /\ remembered' = RememberedAfter
  /\ LET covered == windowCoveredTo(window, IF tickSource = None THEN window.from ELSE tickSource)
         s       == SeenAfter(covered)
         to      == CoveredFloor(s, covered)
     IN  /\ seen' = s
         /\ cursor' = to
         /\ dirty' = (dirty \/ to # cursor)
  /\ swallowed' = (swallowed \ Carried) \cup Swallowed
  /\ unrendered' = (unrendered \ Carried) \cup (thrown \ told)
  /\ ToFlush
  /\ UNCHANGED <<world, active, stored, rotation, uncertain, restarted, bounds>>

\* The insert fails, or its answer is lost after the server applied it: nothing
\* is remembered and the cursor stays.
InboxWriteFails ==
  /\ at = "visit" /\ queue = <<>> /\ Batch # {} /\ Fault
  /\ \/ UNCHANGED <<inbox, told, writtenOff, swallowed, unrendered, uncertain>>
     \/ /\ InsertBatch /\ uncertain' = TRUE
        /\ swallowed' = swallowed \ Carried /\ unrendered' = unrendered \ Carried
  /\ ToFlush
  /\ UNCHANGED <<world, active, stored, memory, restarted, toggles>>

-----------------------------------------------------------------------------
(* flushCursors.                                                           *)

\* The cursor is written at once after a tick with matches, else when a minute
\* has passed.
FlushCursor ==
  /\ at \in {"flush", "flushNow"} /\ dirty
  /\ stored' = cursor /\ dirty' = FALSE
  /\ TickDone
  /\ UNCHANGED <<world, active, inbox, cursor, seen, rotation, remembered, ledger, bounds>>

\* The cursor is no longer dirty although its write fails.
FlushFails ==
  /\ at \in {"flush", "flushNow"} /\ dirty /\ Fault
  /\ dirty' = FALSE
  /\ TickDone
  /\ UNCHANGED <<world, tables, cursor, seen, rotation, remembered, ledger, toggles>>

SkipFlush ==
  /\ \/ at = "flush"
     \/ at = "flushNow" /\ ~dirty
  /\ TickDone
  /\ UNCHANGED <<world, tables, memory, ledger, bounds>>

\* Mutant: the dedup set starts empty.
LoadedIdsNone == {}

\* loadNotifications: the ids of the inbox, whatever their digests covered.
LoadedIds == inbox

\* The process dies; the next one loads the tables.
Crash ==
  /\ Fault
  /\ cursor' = stored /\ dirty' = FALSE /\ seen' = <<>> /\ rotation' = 0
  /\ remembered' = LoadedIds /\ restarted' = TRUE
  /\ TickDone
  /\ UNCHANGED <<world, tables, told, writtenOff, swallowed, unrendered, uncertain, toggles>>

-----------------------------------------------------------------------------
WorldMoves == AdvanceHead \/ AdvanceSource \/ \E r \in LateRows : Reveal(r)

Tick ==
  \/ ReadHead \/ ReadSource \/ LaneIdle \/ SeedCursor \/ BeginLane
  \/ Visit \/ Deliver \/ FlushCursor \/ SkipFlush

Next ==
  \/ WorldMoves
  \/ \E g \in Groups : ToggleRule(g)
  \/ Tick \/ HeadUnreadable \/ VisitFails \/ (\E g \in Groups : DispatchThrows(g))
  \/ InboxWriteFails \/ FlushFails \/ Crash

Spec == Init /\ [][Next]_vars

\* The interval timer keeps the ticks coming; the chain and the feeds advance
\* whatever the ticks do (strong fairness, for AdvanceHead waits for the idle
\* states between them; together, for there is an end to what they can do).
FairSpec == Spec /\ WF_vars(Tick) /\ SF_vars(WorldMoves)

-----------------------------------------------------------------------------
Ids == Groups \X {"row", "digest"} \X (1..MaxHead) \X (1..MaxHead)

TypeOK ==
  /\ head \in 1..MaxHead /\ source \in 1..MaxHead /\ revealed \subseteq LateRows
  /\ active \subseteq Groups /\ inbox \subseteq Ids /\ remembered \subseteq Ids
  /\ {stored, cursor, tickHead, tickSource} \subseteq 1..MaxHead \cup {None}
  /\ {dirty, uncertain, restarted} \subseteq BOOLEAN
  /\ DOMAIN seen \subseteq Groups /\ \A g \in DOMAIN seen : seen[g] \in 0..MaxHead
  /\ rotation \in 0..Cardinality(Groups)
  /\ at \in {"idle", "source", "lane", "visit", "flush", "flushNow"}
  /\ window # None => /\ window \in [from : 0..MaxHead, to : 0..MaxHead]
                       /\ window.to - window.from \in 1..MAX_WINDOW_BLOCKS
  /\ keys \subseteq Groups /\ visited \subseteq keys /\ Range(queue) \subseteq keys
  /\ matches \subseteq Rows /\ thrown \subseteq matches /\ told \subseteq Rows
  /\ writtenOff \cup swallowed \cup unrendered \subseteq Rows

\* A delivery that says it succeeded has lost rows in two ways only.  A row of an
\* active rule that no inbox row stands for and that the lane did not give up lies
\* above the cursor, or is a late row the next window still matches, unless its
\* rendering threw, or it was dropped with its digest: that takes a restart, and a
\* digest of the inbox whose ends lie on either side of the row.
NothingLost ==
  /\ cursor # None =>
       \A r \in Rows \ (told \cup writtenOff \cup swallowed \cup unrendered) :
         r[1] \in active =>
           \/ Height(r) > cursor
           \/ r \in LateRows /\ Height(r) > cursor - TRAILING_RECHECK_BLOCKS
  /\ swallowed # {} => restarted
  /\ \A r \in swallowed : \E a, b \in 1..MaxHead :
       a < Height(r) /\ Height(r) < b /\ <<r[1], "digest", a, b>> \in inbox

\* The persisted cursor never runs ahead of memory, so a restart repeats a window
\* and does not skip one; memory never runs ahead of the ingestion head, though
\* the feeds may.
CursorBehind ==
  cursor # None => /\ stored # None => stored <= cursor
                   /\ cursor <= head

\* The tick's state is well-formed, its window within the bound, and no cursor is
\* ahead of what it stands for.
CursorInv == TypeOK /\ CursorBehind

\* While nothing fails no row is told twice, although every tick reads again what
\* the one before has matched.  After a failure or a restart what has a row of its
\* own in the inbox is not told again either, unless the answer of an insert was
\* lost; repeats are rows only a digest stood for.
RepeatsExplained ==
  [][\A r \in Repeated :
       inbox' # inbox => /\ faults' > 0
                         /\ uncertain \/ RowId(r) \notin inbox]_vars

\* Whatever fails on the way and however the groups rotate, every row of a rule that
\* stays active is told in the end, or given up, or lost in one of the two ways of
\* NothingLost.  Late rows of the last blocks would take further blocks to be read.
EventuallyTold ==
  <>[](\A r \in Rows :
         /\ r[1] \in active
         /\ r \notin LateRows \/ Height(r) <= MaxHead - TRAILING_RECHECK_BLOCKS
         => r \in told \cup writtenOff \cup swallowed \cup unrendered)
=============================================================================
