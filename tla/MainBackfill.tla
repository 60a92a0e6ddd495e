---------------------------- MODULE MainBackfill ----------------------------
(***************************************************************************)
(* The price half of scripts/ingestion-supervisor.sh: cleanup_stopped_main *)
(* and ensure_main_workers, beside the containers they start, the raw      *)
(* ranges the price pipeline reads and the live follower that publishes    *)
(* the first block.                                                        *)
(*                                                                         *)
(* Main ranges have no rows of their own: what has been claimed is read    *)
(* back from the names of the containers and from min(block_height) of     *)
(* blocks.  Every docker or ClickHouse call whose answer another process   *)
(* can change is a step; a container is named by its range <<from, to>>.   *)
(***************************************************************************)
EXTENDS RawCoverage, FiniteSets

CONSTANTS
  Top,              \* the first block the live follower publishes
  RawRanges,        \* the rows of raw_ingestion_ranges
  MAIN_WORKERS,
  MAIN_MAX_RANGES,
  PublicationChunk, \* heights per insert into blocks
  NoRange,
  MaxFaults         \* bound: faults of all kinds together

ASSUME MainBackfillAssumption ==
  /\ Top \in Nat
  /\ \A r \in RawRanges : r[1] \in Nat /\ r[2] \in Nat /\ r[1] <= r[2] /\ r[2] < Top
  /\ IsFiniteSet(RawRanges)
  /\ {MAIN_WORKERS, MAIN_MAX_RANGES, PublicationChunk} \subseteq Nat \ {0}
  /\ MaxFaults \in Nat

VARIABLES
  blocks,      \* heights with a row in blocks
  checkpoints, \* ranges whose pipeline saved its last block
  completed,   \* rows of RawRanges with status completed
  broken,      \* heights whose raw parent hash differs from the block below
  box,         \* containers: a function from the ranges that have one
  at,          \* the supervisor's next call
  todo,        \* stopped containers still to be handled by this cleanup
  cur,         \* the range at hand
  frontier,    \* what min_known_main_from has gathered
  (* history and bounds *)
  dropped,     \* heights of containers removed while unpublished
  faults       \* how often each fault has happened

loopVars == <<at, todo, cur, frontier>>
rawVars  == <<completed, broken>>
vars     == <<blocks, checkpoints, rawVars, box, loopVars, dropped, faults>>

\* A container fails, is ended by SIGTERM; the supervisor dies; a docker ps call
\* fails; a completed raw range is marked failed again.
FaultKinds == {"crash", "stop", "script", "docker", "downgrade"}

FaultCount ==
  faults.crash + faults.stop + faults.script + faults.docker + faults.downgrade

Fault(f) == FaultCount < MaxFaults /\ faults' = [faults EXCEPT ![f] = @ + 1]

\* The ranges a main container can be given.
Claims == {r \in (0..Top) \X (0..Top) : r[1] <= r[2] /\ r[2] < Top}

Names   == DOMAIN box
Running == {r \in Names : box[r].status = "up"}

Init ==
  /\ blocks = {} /\ checkpoints = {}
  /\ completed = {}
  /\ broken \in {{}} \cup {{r[2] + 1} : r \in RawRanges}
  /\ box = <<>>
  /\ at = "list" /\ todo = {} /\ cur = NoRange /\ frontier = Top
  /\ dropped = {}
  /\ faults = [f \in FaultKinds |-> 0]

-----------------------------------------------------------------------------
(* The price pipeline of one container: src/indexer.ts and src/db/         *)
(* database.ts on a bounded range.  Everything is staged in memory until   *)
(* the last block and then published in ascending chunks.                  *)

\* A run whose checkpoint is already at its last block has nothing to do.
Started(r) == [status |-> "up",
               phase  |-> IF r \in checkpoints THEN "done" ELSE "index",
               next   |-> r[1]]

Exit(r, status) == box' = [box EXCEPT ![r].status = status]

\* Indexes and stages the whole range; the assertion fails when some of it is
\* not covered by completed raw ranges, and the process exits with 1.
Index(r) ==
  /\ r \in Running /\ box[r].phase = "index"
  /\ IF FinalizedRawCoverage(completed, r[1], r[2])
       THEN box' = [box EXCEPT ![r].phase = "publish"]
       ELSE Exit(r, "exited1")
  /\ UNCHANGED <<blocks, checkpoints, rawVars, loopVars, dropped, faults>>

\* One chunk of publishDeferred's last loop, the inserts into blocks.
PublishChunk(r) ==
  /\ r \in Running /\ box[r].phase = "publish"
  /\ LET last == Min({box[r].next + PublicationChunk - 1, r[2]})
     IN  /\ blocks' = blocks \cup box[r].next..last
         /\ box' = [box EXCEPT ![r] = [status |-> "up", next |-> last + 1,
                                       phase |-> IF last = r[2] THEN "save" ELSE "publish"]]
  /\ UNCHANGED <<checkpoints, rawVars, loopVars, dropped, faults>>

SaveCheckpoint(r) ==
  /\ r \in Running /\ box[r].phase = "save"
  /\ checkpoints' = checkpoints \cup {r}
  /\ box' = [box EXCEPT ![r].phase = "done"]
  /\ UNCHANGED <<blocks, rawVars, loopVars, dropped, faults>>

\* The processor returns at the end of its range.
Return(r) ==
  /\ r \in Running /\ box[r].phase = "done"
  /\ Exit(r, "exited0")
  /\ UNCHANGED <<blocks, checkpoints, rawVars, loopVars, dropped, faults>>

Crash(r) ==
  /\ r \in Running /\ Fault("crash")
  /\ Exit(r, "exited1")
  /\ UNCHANGED <<blocks, checkpoints, rawVars, loopVars, dropped>>

\* SIGTERM: ten seconds later the process exits with 0 wherever it is.
Shutdown(r) ==
  /\ r \in Running /\ Fault("stop")
  /\ Exit(r, "exited0")
  /\ UNCHANGED <<blocks, checkpoints, rawVars, loopVars, dropped>>

-----------------------------------------------------------------------------
(* The world around: raw workers, the archive and the live follower.       *)

CompleteRaw(q) ==
  /\ q \in RawRanges \ completed
  /\ completed' = completed \cup {q}
  /\ UNCHANGED <<blocks, checkpoints, broken, box, loopVars, dropped, faults>>

\* The raw half of the supervisor may mark a completed range failed again.
DowngradeRaw(q) ==
  /\ q \in completed /\ Fault("downgrade")
  /\ completed' = completed \ {q}
  /\ UNCHANGED <<blocks, checkpoints, broken, box, loopVars, dropped>>

RelinkRaw ==
  /\ broken # {}
  /\ broken' = {}
  /\ UNCHANGED <<blocks, checkpoints, completed, box, loopVars, dropped, faults>>

LiveMain ==
  /\ Top \notin blocks
  /\ blocks' = blocks \cup {Top}
  /\ UNCHANGED <<checkpoints, rawVars, box, loopVars, dropped, faults>>

-----------------------------------------------------------------------------
(* cleanup_stopped_main.                                                   *)

ListStopped ==
  /\ at = "list"
  /\ todo' = Names \ Running
  /\ at' = "clean"
  /\ UNCHANGED <<blocks, checkpoints, rawVars, box, cur, frontier, dropped, faults>>

Unpublished(r) == Heights(r) \ blocks

RemoveContainer(r) == box' = [q \in Names \ {r} |-> box[q]]

\* Mutant: a failed container is removed like a completed one.
CleanStoppedAll(r) ==
  /\ at = "clean" /\ r \in todo
  /\ todo' = todo \ {r}
  /\ RemoveContainer(r)
  /\ dropped' = IF box[r].status = "exited0" THEN dropped \cup Unpublished(r) ELSE dropped
  /\ UNCHANGED <<blocks, checkpoints, rawVars, at, cur, frontier, faults>>

\* Mutant: a failed container is left where it is.
CleanStoppedKept(r) ==
  /\ at = "clean" /\ r \in todo
  /\ todo' = todo \ {r}
  /\ IF box[r].status = "exited0"
       THEN RemoveContainer(r) /\ dropped' = dropped \cup Unpublished(r)
       ELSE UNCHANGED <<box, dropped>>
  /\ UNCHANGED <<blocks, checkpoints, rawVars, at, cur, frontier, faults>>

\* Exit status 0 is taken for completion; after any other the same range is
\* started again.
CleanStopped(r) ==
  /\ at = "clean" /\ r \in todo
  /\ todo' = todo \ {r}
  /\ RemoveContainer(r)
  /\ IF box[r].status = "exited0"
       THEN at' = at /\ cur' = cur /\ dropped' = dropped \cup Unpublished(r)
       ELSE at' = "restart" /\ cur' = r /\ dropped' = dropped
  /\ UNCHANGED <<blocks, checkpoints, rawVars, frontier, faults>>

\* start_main_range: a container that exists is left alone.
StartMainRange(r) == box' = [q \in Names \cup {r} |-> IF q \in Names THEN box[q] ELSE Started(q)]

Restart ==
  /\ at = "restart"
  /\ StartMainRange(cur)
  /\ at' = "clean" /\ cur' = NoRange
  /\ UNCHANGED <<blocks, checkpoints, rawVars, todo, frontier, dropped, faults>>

CleanDone ==
  /\ at = "clean" /\ todo = {}
  /\ at' = "count"
  /\ UNCHANGED <<blocks, checkpoints, rawVars, box, todo, cur, frontier, dropped, faults>>

-----------------------------------------------------------------------------
(* ensure_main_workers, one turn of its loop per claim.  A docker ps that  *)
(* fails in it does not end the script: errexit is off inside the command  *)
(* substitutions and the pipeline goes on with no lines.                   *)

\* Sleeps until the next poll.
Leave == at' = "list" /\ cur' = NoRange /\ frontier' = Top

\* Mutant: one container too many.
SlotFreeLoose == Cardinality(Running) <= MAIN_WORKERS

SlotFree == Cardinality(Running) < MAIN_WORKERS

CountActive ==
  /\ at = "count"
  /\ \/ /\ IF SlotFree
             THEN at' = "names" /\ UNCHANGED <<cur, frontier>>
             ELSE Leave
        /\ UNCHANGED faults
     \/ /\ Fault("docker")
        /\ at' = "names" /\ UNCHANGED <<cur, frontier>>
  /\ UNCHANGED <<blocks, checkpoints, rawVars, box, todo, dropped>>

\* Mutant: the containers in flight are not looked at.
KnownNamesNone == Top

KnownNames == Min({Top} \cup {r[1] : r \in Names})

\* min_known_main_from, its first source: the names of all main containers.
ReadNames ==
  /\ at = "names"
  /\ \/ frontier' = KnownNames /\ UNCHANGED faults
     \/ frontier' = Top /\ Fault("docker")
  /\ at' = "min"
  /\ UNCHANGED <<blocks, checkpoints, rawVars, box, todo, cur, dropped>>

\* Its second: min(block_height), which is 0 while blocks is empty.
ReadMin ==
  /\ at = "min"
  /\ LET low == Min({frontier, IF blocks = {} THEN 0 ELSE Min(blocks)})
     IN  IF low = 0 THEN Leave ELSE at' = "ranges" /\ frontier' = low /\ UNCHANGED cur
  /\ UNCHANGED <<blocks, checkpoints, rawVars, box, todo, dropped, faults>>

\* A further range of a batch has to end where the one above it begins.
Follows(q, p) == q[2] = p[1] - 1

\* A batch of n ranges from top downwards: the scan in descending order of to_block
\* passes over what overlaps and stops at the limit or at the first gap.
IsBatch(b, n, top) ==
  /\ b[1] = top
  /\ \A i \in 2..n : Follows(b[i], b[i - 1])
  /\ n = MAIN_MAX_RANGES \/ \A q \in completed : ~Follows(q, b[n])

\* The range with the highest end among those that begin at or below target has
\* to reach target; the batch is cut to it.
FindBatch ==
  /\ at = "ranges"
  /\ LET target == frontier - 1
         rows   == {q \in completed : q[1] <= target}
         tops   == {q \in rows : q[2] >= target /\ \A p \in rows : p[2] <= q[2]}
     IN  \/ tops = {} /\ Leave
         \/ \E top \in tops, n \in 1..MAIN_MAX_RANGES : \E b \in [1..n -> completed] :
              /\ IsBatch(b, n, top)
              /\ at' = "links" /\ cur' = <<b[n][1], target>> /\ UNCHANGED frontier
  /\ UNCHANGED <<blocks, checkpoints, rawVars, box, todo, dropped, faults>>

\* parent_link_breaks over the batch and the block above it.
CheckLinks ==
  /\ at = "links"
  /\ IF (cur[1] + 1)..(cur[2] + 1) \cap broken # {}
       THEN Leave
       ELSE at' = "start" /\ UNCHANGED <<cur, frontier>>
  /\ UNCHANGED <<blocks, checkpoints, rawVars, box, todo, dropped, faults>>

StartBatch ==
  /\ at = "start"
  /\ StartMainRange(cur)
  /\ at' = "count" /\ cur' = NoRange /\ frontier' = Top
  /\ UNCHANGED <<blocks, checkpoints, rawVars, todo, dropped, faults>>

\* The script dies (a call fails under errexit, or the host restarts it) and
\* begins again with the first call of its loop.
ScriptCrash ==
  /\ at # "list" /\ Fault("script")
  /\ Leave /\ todo' = {}
  /\ dropped' = IF at = "restart" THEN dropped \cup Unpublished(cur) ELSE dropped
  /\ UNCHANGED <<blocks, checkpoints, rawVars, box>>

-----------------------------------------------------------------------------
Script ==
  \/ ListStopped \/ CleanDone \/ Restart \/ (\E r \in todo : CleanStopped(r))
  \/ CountActive \/ ReadNames \/ ReadMin \/ FindBatch \/ CheckLinks \/ StartBatch

Worker(r) == Index(r) \/ PublishChunk(r) \/ SaveCheckpoint(r) \/ Return(r)

Next ==
  \/ Script \/ ScriptCrash
  \/ \E r \in Names : Worker(r) \/ Crash(r) \/ Shutdown(r)
  \/ \E q \in RawRanges : CompleteRaw(q) \/ DowngradeRaw(q)
  \/ RelinkRaw \/ LiveMain

Spec == Init /\ [][Next]_vars

\* Weak fairness of the containers, spelled out: one that is up always has a step.
WorkerFairness == []<>(Running = {}) \/ []<><<\E r \in Names : Worker(r)>>_vars

\* The loop runs on, the containers that are up get on with their ranges, and
\* the live follower publishes.
FairSpec == Spec /\ WF_vars(Script) /\ WF_vars(LiveMain) /\ WorkerFairness

-----------------------------------------------------------------------------
TypeOK ==
  /\ blocks \subseteq 0..Top /\ dropped \subseteq 0..Top
  /\ checkpoints \subseteq Claims /\ Names \subseteq Claims /\ todo \subseteq Claims
  /\ completed \subseteq RawRanges
  /\ \A r \in Names : /\ box[r].status \in {"up", "exited0", "exited1"}
                      /\ box[r].phase \in {"index", "publish", "save", "done"}
                      /\ box[r].next \in r[1]..(r[2] + 1)
  /\ at \in {"list", "clean", "restart", "count", "names", "min", "ranges", "links", "start"}
  /\ cur \in Claims \cup {NoRange}
  /\ frontier \in 0..Top
  /\ faults \in [FaultKinds -> 0..MaxFaults]

\* missingRawCoverage names exactly the blocks of a span that no completed raw
\* range holds, each once and in order, and mergeRawRanges returns ranges that
\* neither overlap nor touch: the arithmetic the price backfill trusts to refuse
\* a span it cannot read whole.  So a span is refused exactly when it is not covered.
CoverageExact ==
  \A from, to \in 0..Top :
    from <= to =>
      LET ranges  == getCompletedRawRanges(completed, from, to)
          missing == missingRawCoverage(from, to, ranges)
      IN  /\ HeightsOf(missing) = from..to \ UNION {Heights(q) : q \in completed}
          /\ \A i \in DOMAIN missing : missing[i][1] <= missing[i][2]
          /\ Apart(missing) /\ Apart(ranges)
          /\ FinalizedRawCoverage(completed, from, to)
               <=> from..to \subseteq UNION {Heights(q) : q \in completed}

\* The price history has no silent hole: a block above the lowest one published
\* or claimed is published, or belongs to a container that will publish it (or
\* to the one being restarted), or its container was removed unpublished, which
\* only a SIGTERM taken for completion (exit status 0) or a supervisor that died
\* between removing and restarting a container does.
HolesAccounted ==
  blocks # {} =>
    LET low  == Min({Min(blocks)} \cup {r[1] : r \in Names})
        held == (UNION {Heights(r) : r \in Names})
                  \cup (IF at = "restart" THEN Heights(cur) ELSE {})
    IN  low..Top \subseteq blocks \cup held \cup dropped

\* Without a SIGTERM and without a death of the supervisor nothing is dropped:
\* failed containers, refused coverage, docker faults and downgraded raw ranges
\* cost no block.
DropsExplained == faults.stop = 0 /\ faults.script = 0 => dropped = {}

\* Every block the price backfill will never publish is the price of a SIGTERM or of
\* a dead supervisor, and of nothing else.
HolesExplained == HolesAccounted /\ DropsExplained

\* While docker ps answers, no two containers are given a common block and no
\* block that is already published is claimed again by a new range.
ClaimsDisjoint ==
  faults.docker = 0 =>
    /\ \A r, s \in Names : r = s \/ Heights(r) \cap Heights(s) = {}
    /\ at = "start" => Heights(cur) \cap (blocks \cup UNION {Heights(r) : r \in Names}) = {}

\* A range is claimed only over raw ranges that are completed (the main pipeline
\* reads raw output), wherever the frontier cuts them and however they overlap:
\* a new container is refused by the coverage check only if a completed range
\* was taken back meanwhile.
ClaimsCovered ==
  at \in {"links", "start"} /\ faults.downgrade = 0 =>
    FinalizedRawCoverage(completed, cur[1], cur[2])

\* What the loop claims and starts: well-formed, disjoint, and over finished raw data,
\* whatever changed between the reads that led to the claim.
ClaimsSound == TypeOK /\ ClaimsDisjoint /\ ClaimsCovered

\* ensure_main_workers keeps up to MAIN_WORKERS containers running
\* (scripts/ingestion-supervisor.sh, the comment above it).
MainWorkerCap == Cardinality(Running) <= MAIN_WORKERS

\* The cap is exceeded only after a container failed or refused its range, or a
\* docker ps call failed; a SIGTERM or a death of the supervisor cannot.  (It is
\* exceeded after a failure: a container that failed after the cleanup is replaced by
\* a new claim and restarted by the next cleanup beside it.)
CapExceededOnlyByFailures ==
  faults.crash + faults.docker + faults.downgrade = 0 => MainWorkerCap

\* Once the raw ranges stay completed and linked, the price backfill reaches
\* block 0: every block is published for good, or was dropped as above.
PriceBackfillCompletes ==
  <>[](completed = RawRanges /\ broken = {}) => <>[](0..Top \subseteq blocks \cup dropped)
=============================================================================
