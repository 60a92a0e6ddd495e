--------------------------- MODULE RawRangeWorker ---------------------------
(***************************************************************************)
(* The bounded raw-indexing workers (src/raw): each indexes the blocks of  *)
(* one range <<from, to>> into the raw tables, checkpoints, validates the  *)
(* range and marks it completed.  Workers of several ranges run at once    *)
(* and meet only in the database.                                          *)
(*                                                                         *)
(* A block is abstracted to the chain it belongs to: the block of chain v  *)
(* at height h has the hash <<h, v>> and the parent hash <<h-1, v>>, so    *)
(* two neighbouring blocks are linked exactly when their chains agree.     *)
(* Batches of the processor are one block long; longer ones only remove    *)
(* points at which the buffer may be flushed.                              *)
(***************************************************************************)
EXTENDS Integers, FiniteSets

CONSTANTS
  Ranges,      \* the ranges <<from, to>> being indexed
  LogCap,      \* bound of the failure-log count (see RangeJob)
  Chains,      \* the chains whose blocks the archive may serve
  Canonical,   \* the finalized one
  Absent,      \* "no block here" / "no previous block seen"
  NumTables,   \* raw tables in the order of flushAll; table 1 is raw_blocks
  FlushBlocks, \* RAW_FLUSH_BLOCKS
  MaxFaults    \* bound: crashes and SIGTERMs in one behaviour

ASSUME WorkerRangesAssumption ==
  /\ Ranges \subseteq Nat \X Nat
  /\ \A r \in Ranges : r[1] <= r[2]
  /\ \A r, s \in Ranges : r # s => r[2] < s[1] \/ s[2] < r[1]
ASSUME ChainsAssumption == Canonical \in Chains /\ Absent \notin Chains
ASSUME BoundsAssumption ==
  /\ LogCap \in Nat \ {0}
  /\ NumTables \in Nat \ {0}
  /\ FlushBlocks \in Nat \ {0}
  /\ MaxFaults \in Nat

From(r)   == r[1]
To(r)     == r[2]
Blocks(r) == From(r)..To(r)
Heights   == UNION {Blocks(r) : r \in Ranges}
Tables    == 1..NumTables
Cell      == Chains \cup {Absent}
NoCheckpoint == -1   \* no row in raw_ingestion_state

VARIABLES
  (* the world outside: the block archive *)
  archive,    \* the block it serves at each height, if any
  (* ClickHouse *)
  raw,        \* raw[t][h]: the rows of height h in table t
  checkpoint, \* raw_ingestion_state, one row per worker pipeline
  status,     \* raw_ingestion_ranges.status
  edge,       \* first_parent_hash and last_hash of the row, as chains
  failures,   \* rows of raw_ingestion_range_failures
  (* docker *)
  container,
  (* the worker process *)
  pc, head, prev, buf, tbl, bad, replay, marks,
  (* bound *)
  faults

db     == <<raw, checkpoint, status, edge, failures>>
memory == <<head, prev, buf, tbl, bad, replay, marks>>
vars   == <<archive, db, container, pc, memory, faults>>

NoEdge   == [firstParent |-> Absent, last |-> Absent]
EmptyBuf == [h \in Heights |-> Absent]

Init ==
  /\ archive    \in [Heights -> Cell]
  /\ raw        = [t \in Tables |-> [h \in Heights |-> Absent]]
  /\ checkpoint = [r \in Ranges |-> NoCheckpoint]
  /\ status     = [r \in Ranges |-> "none"]
  /\ edge       = [r \in Ranges |-> NoEdge]
  /\ failures   = [r \in Ranges |-> 0]
  /\ container  = [r \in Ranges |-> "none"]
  /\ pc         = [r \in Ranges |-> "off"]
  /\ head       = [r \in Ranges |-> NoCheckpoint]
  /\ prev       = [r \in Ranges |-> Absent]
  /\ buf        = [r \in Ranges |-> EmptyBuf]
  /\ tbl        = [r \in Ranges |-> 1]
  /\ bad        = [r \in Ranges |-> FALSE]
  /\ replay     = [r \in Ranges |-> FALSE]
  /\ marks      = [r \in Ranges |-> 0]
  /\ faults     = 0

Goto(r, from, to) ==
  /\ pc[r] = from
  /\ pc' = [pc EXCEPT ![r] = to]

-----------------------------------------------------------------------------
(* Starting.                                                               *)

\* Docker creates the container under the range's name, which it must not hold.
Launch(r) ==
  /\ container[r] = "none"
  /\ container' = [container EXCEPT ![r] = "up"]
  /\ Goto(r, "off", "boot")
  /\ UNCHANGED <<archive, db, memory, faults>>

Remove(r) ==
  /\ container[r] \in {"exited0", "exited1"}
  /\ container' = [container EXCEPT ![r] = "none"]
  /\ UNCHANGED <<archive, db, pc, memory, faults>>

\* Mutant: the checkpoint is not looked up.
rawResumeHeadFresh(r) == IF From(r) = 0 THEN -1 ELSE 0

\* The head the processor resumes from.
rawResumeHead(r) ==
  IF checkpoint[r] # NoCheckpoint THEN checkpoint[r]
  ELSE IF From(r) = 0 THEN -1 ELSE 0

\* Mutant: a checkpoint at the end of the range does not lead to validation.
StartRunIndexing(r) ==
  /\ Goto(r, "boot", "index")
  /\ head' = [head EXCEPT ![r] = rawResumeHead(r)]
  /\ IF status[r] = "completed"
       THEN UNCHANGED <<status, edge>>
       ELSE /\ status' = [status EXCEPT ![r] = "running"]
            /\ edge'   = [edge EXCEPT ![r] = NoEdge]
  /\ UNCHANGED <<archive, raw, checkpoint, failures, container,
                 prev, buf, tbl, bad, replay, marks, faults>>

\* connect, markRangeRunning, and the short cut of a checkpoint that already
\* reached the end of the range: validate, never index again.
StartRun(r) ==
  LET resume  == rawResumeHead(r)
      reached == resume >= To(r)
  IN
  /\ Goto(r, "boot", IF reached THEN "prev" ELSE "index")
  /\ head'   = [head EXCEPT ![r] = resume]
  /\ replay' = [replay EXCEPT ![r] = reached]
  /\ IF status[r] = "completed"
       THEN UNCHANGED <<status, edge>>
       ELSE /\ status' = [status EXCEPT ![r] = "running"]
            /\ edge'   = [edge EXCEPT ![r] = NoEdge]
  /\ UNCHANGED <<archive, raw, checkpoint, failures, container,
                 prev, buf, tbl, bad, marks, faults>>

-----------------------------------------------------------------------------
(* Indexing.                                                               *)

\* The processor hands over the lowest height above its head that the archive
\* serves; heights the archive lacks are passed over.
Served(r, h) ==
  /\ h \in Blocks(r)
  /\ h > head[r]
  /\ archive[h] # Absent
  /\ \A g \in Blocks(r) : head[r] < g /\ g < h => archive[g] = Absent

Pending(b) == Cardinality({h \in Heights : b[h] # Absent})

\* shouldFlushRaw: the end of the range and the block budget force a flush; the
\* row budget and the clock may force one at any batch.
FlushDecisions(b, reached) ==
  IF reached \/ Pending(b) >= FlushBlocks THEN {"flush"} ELSE {"flush", "index"}

\* Integrity checks between batches; a fresh process has nothing to compare with.
Intact(r, h) ==
  prev[r] # Absent => /\ h <= head[r] + 1
                      /\ archive[h] = prev[r]

\* One transact up to the flush decision.
IndexBlock(r) ==
  \E h \in Heights :
    LET added == [buf[r] EXCEPT ![h] = archive[h]] IN
    /\ Served(r, h)
    /\ Intact(r, h)
    /\ \E next \in FlushDecisions(added, h >= To(r)) : Goto(r, "index", next)
    /\ buf'  = [buf EXCEPT ![r] = added]
    /\ head' = [head EXCEPT ![r] = h]
    /\ prev' = [prev EXCEPT ![r] = archive[h]]
    /\ tbl'  = [tbl EXCEPT ![r] = 1]
    /\ UNCHANGED <<archive, db, container, bad, replay, marks, faults>>

\* A gap or a parent-hash mismatch is thrown.
IntegrityError(r) ==
  /\ Goto(r, "index", "throw")
  /\ \E h \in Heights : Served(r, h) /\ ~Intact(r, h)
  /\ UNCHANGED <<archive, db, container, memory, faults>>

\* Mutant: the checkpoint is saved after the first table.
FlushTableEarly(r) ==
  /\ Goto(r, "flush", "save")
  /\ raw' = [raw EXCEPT ![tbl[r]] =
               [h \in Heights |-> IF buf[r][h] # Absent THEN buf[r][h] ELSE @[h]]]
  /\ tbl' = [tbl EXCEPT ![r] = @ + 1]
  /\ UNCHANGED <<archive, checkpoint, status, edge, failures, container,
                 head, prev, buf, bad, replay, marks, faults>>

\* flushAll: one insert per table, raw_blocks first.
FlushTable(r) ==
  /\ Goto(r, "flush", IF tbl[r] = NumTables THEN "save" ELSE "flush")
  /\ raw' = [raw EXCEPT ![tbl[r]] =
               [h \in Heights |-> IF buf[r][h] # Absent THEN buf[r][h] ELSE @[h]]]
  /\ tbl' = [tbl EXCEPT ![r] = @ + 1]
  /\ UNCHANGED <<archive, checkpoint, status, edge, failures, container,
                 head, prev, buf, bad, replay, marks, faults>>

\* Mutant: the buffer is kept.
SaveCheckpointKeeping(r) ==
  /\ Goto(r, "save", IF head[r] >= To(r) THEN "prev" ELSE "index")
  /\ checkpoint' = [checkpoint EXCEPT ![r] = head[r]]
  /\ UNCHANGED <<archive, raw, status, edge, failures, container,
                 head, prev, buf, tbl, bad, replay, marks, faults>>

SaveCheckpoint(r) ==
  /\ Goto(r, "save", IF head[r] >= To(r) THEN "prev" ELSE "index")
  /\ checkpoint' = [checkpoint EXCEPT ![r] = head[r]]
  /\ buf' = [buf EXCEPT ![r] = EmptyBuf]
  /\ UNCHANGED <<archive, raw, status, edge, failures, container,
                 head, prev, tbl, bad, replay, marks, faults>>

\* The archive has nothing left for the range: the processor ends normally
\* without having reached the end, and what is buffered is dropped.
RunDry(r) ==
  /\ Goto(r, "index", "dry")
  /\ ~ \E h \in Heights : Served(r, h)
  /\ UNCHANGED <<archive, db, container, memory, faults>>

-----------------------------------------------------------------------------
(* Validation (finalizeRawRange).                                          *)

\* Mutant: blocks are counted, links are not looked at.
Whole(r) == \A h \in Blocks(r) : raw[1][h] # Absent

\* Block count, first and last height, and parent links inside the range.
WholeAndLinked(r) ==
  /\ \A h \in Blocks(r) : raw[1][h] # Absent
  /\ \A h \in Blocks(r) : h < To(r) => raw[1][h] = raw[1][h + 1]

\* The statistics of the range and the comparison with a completed range that
\* ends just below it.
ValidatePrevious(r) ==
  /\ Goto(r, "prev", "next")
  /\ bad' = [bad EXCEPT ![r] =
       \/ ~WholeAndLinked(r)
       \/ \E s \in Ranges : /\ To(s) = From(r) - 1
                            /\ status[s] = "completed"
                            /\ edge[s].last # raw[1][From(r)]]
  /\ UNCHANGED <<archive, db, container,
                 head, prev, buf, tbl, replay, marks, faults>>

\* The comparison with a completed range that starts just above it.
ValidateNext(r) ==
  LET mismatch == \E s \in Ranges : /\ From(s) = To(r) + 1
                                    /\ status[s] = "completed"
                                    /\ edge[s].firstParent # raw[1][To(r)]
  IN
  /\ Goto(r, "next", IF bad[r] \/ mismatch THEN "mark" ELSE "complete")
  /\ UNCHANGED <<archive, db, container, memory, faults>>

Complete(r) ==
  /\ Goto(r, "complete", "done")
  /\ status' = [status EXCEPT ![r] = "completed"]
  /\ edge' = [edge EXCEPT ![r] = [firstParent |-> raw[1][From(r)],
                                  last |-> raw[1][To(r)]]]
  /\ UNCHANGED <<archive, raw, checkpoint, failures, container, memory, faults>>

\* markRawRangeFailed leaves a completed range alone.
MarkFailedSkipped(r) ==
  /\ status[r] = "completed"
  /\ Goto(r, "mark", "throw")
  /\ UNCHANGED <<archive, db, container, memory, faults>>

\* Mutant: a completed range is marked failed as well.
MarkFailedAlways(r) ==
  /\ Goto(r, "mark", "log")
  /\ status' = [status EXCEPT ![r] = "failed"]
  /\ edge'   = [edge EXCEPT ![r] = NoEdge]
  /\ UNCHANGED <<archive, raw, checkpoint, failures, container, memory, faults>>

\* Otherwise it replaces the row ...
MarkFailed(r) ==
  /\ status[r] # "completed"
  /\ Goto(r, "mark", "log")
  /\ status' = [status EXCEPT ![r] = "failed"]
  /\ edge'   = [edge EXCEPT ![r] = NoEdge]
  /\ UNCHANGED <<archive, raw, checkpoint, failures, container, memory, faults>>

\* ... and appends to the failure log.  A validation repeated at start-up is
\* marked by finalizeRawRange and again by the handler that called it.
LogFailure(r) ==
  /\ Goto(r, "log", IF replay[r] /\ marks[r] = 0 THEN "mark" ELSE "throw")
  /\ failures' = [failures EXCEPT ![r] = IF @ < LogCap THEN @ + 1 ELSE @]
  /\ marks' = [marks EXCEPT ![r] = @ + 1]
  /\ UNCHANGED <<archive, raw, checkpoint, status, edge, container,
                 head, prev, buf, tbl, bad, replay, faults>>

-----------------------------------------------------------------------------
(* Ending.                                                                 *)

\* The process is gone and with it everything it held in memory.
Stop(r, code) ==
  /\ container' = [container EXCEPT ![r] = code]
  /\ pc'     = [pc EXCEPT ![r] = "off"]
  /\ head'   = [head EXCEPT ![r] = NoCheckpoint]
  /\ prev'   = [prev EXCEPT ![r] = Absent]
  /\ buf'    = [buf EXCEPT ![r] = EmptyBuf]
  /\ tbl'    = [tbl EXCEPT ![r] = 1]
  /\ bad'    = [bad EXCEPT ![r] = FALSE]
  /\ replay' = [replay EXCEPT ![r] = FALSE]
  /\ marks'  = [marks EXCEPT ![r] = 0]
  /\ UNCHANGED <<archive, db>>

ExitNormally(r) == pc[r] \in {"done", "dry"} /\ Stop(r, "exited0") /\ UNCHANGED faults

ExitOnError(r) == pc[r] = "throw" /\ Stop(r, "exited1") /\ UNCHANGED faults

\* A failed insert or read, a kill or an out-of-memory end at any step.
Crash(r) ==
  /\ pc[r] # "off"
  /\ faults < MaxFaults
  /\ faults' = faults + 1
  /\ Stop(r, "exited1")

\* SIGTERM: the process is ended with status 0 wherever it is ten seconds later.
Terminate(r) ==
  /\ pc[r] # "off"
  /\ faults < MaxFaults
  /\ faults' = faults + 1
  /\ Stop(r, "exited0")

-----------------------------------------------------------------------------
\* The archive fills a gap or replaces a block of another chain.
Heal(h) ==
  /\ archive[h] # Canonical
  /\ archive' = [archive EXCEPT ![h] = Canonical]
  /\ UNCHANGED <<db, container, pc, memory, faults>>

Step(r) ==
  \/ StartRun(r)
  \/ IndexBlock(r) \/ IntegrityError(r) \/ RunDry(r)
  \/ FlushTable(r) \/ SaveCheckpoint(r)
  \/ ValidatePrevious(r) \/ ValidateNext(r) \/ Complete(r)
  \/ MarkFailedSkipped(r) \/ MarkFailed(r) \/ LogFailure(r)
  \/ ExitNormally(r) \/ ExitOnError(r)

Next ==
  \/ \E r \in Ranges : \/ Launch(r) \/ Remove(r)
                       \/ Step(r)
                       \/ Crash(r) \/ Terminate(r)
  \/ \E h \in Heights : Heal(h)

Spec == Init /\ [][Next]_vars

-----------------------------------------------------------------------------
(* Properties.                                                             *)

PCs == {"off", "boot", "index", "flush", "save", "dry", "prev", "next",
        "complete", "mark", "log", "throw", "done"}

\* Rows, checkpoints, docker's view and each process stay in their domains; a flush
\* never passes the last table.
TypeOK ==
  /\ archive    \in [Heights -> Cell]
  /\ raw        \in [Tables -> [Heights -> Cell]]
  /\ checkpoint \in [Ranges -> Nat \cup {NoCheckpoint}]
  /\ status     \in [Ranges -> {"none", "running", "completed", "failed"}]
  /\ edge       \in [Ranges -> [firstParent : Cell, last : Cell]]
  /\ failures   \in [Ranges -> 0..LogCap]
  /\ container  \in [Ranges -> {"none", "up", "exited0", "exited1"}]
  /\ pc         \in [Ranges -> PCs]
  /\ head       \in [Ranges -> Nat \cup {-1}]
  /\ prev       \in [Ranges -> Cell]
  /\ buf        \in [Ranges -> [Heights -> Cell]]
  /\ tbl        \in [Ranges -> 1..NumTables + 1]
  /\ bad        \in [Ranges -> BOOLEAN]
  /\ replay     \in [Ranges -> BOOLEAN]
  /\ marks      \in [Ranges -> 0..2]
  /\ faults     \in 0..MaxFaults

\* Up to its checkpoint a pipeline has written a block to every raw table or to
\* none: wherever the process dies between two of flushAll's inserts, the
\* checkpoint it left behind makes the next process write that block again.
CheckpointCovered ==
  \A r \in Ranges : \A h \in Blocks(r) :
    h <= checkpoint[r] => \A t \in Tables : raw[t][h] = raw[1][h]

\* A completed range is complete and parent-linked in every table, although
\* finalizeRawRange looks at raw_blocks only.
CompletedWhole ==
  \A r \in Ranges : status[r] = "completed" =>
    \A t \in Tables : \A h \in Blocks(r) :
      /\ raw[t][h] # Absent
      /\ h < To(r) => raw[t][h] = raw[t][h + 1]

\* No worker takes a completed range back, however often it is started again
\* (markRawRangeRunning and markRawRangeFailed both look before they write).
CompletedKept ==
  [][\A r \in Ranges : status[r] = "completed" => status'[r] = "completed"]_vars

\* The data of a completed range never changes: a replay only validates.
CompletedFrozen ==
  [][\A r \in Ranges : status[r] = "completed" =>
       \A t \in Tables : \A h \in Blocks(r) : raw'[t][h] = raw[t][h]]_vars

\* The row a completed range is compared by describes the blocks in raw_blocks.
EdgeMatchesData ==
  \A r \in Ranges : status[r] = "completed" =>
    edge[r] = [firstParent |-> raw[1][From(r)], last |-> raw[1][To(r)]]

-----------------------------------------------------------------------------
(* The inductive invariant behind the safety properties.                   *)

\* A process runs exactly in a container that is up, and marks its range failed
\* at most twice, only after a validation.
ProcessInv ==
  \A r \in Ranges :
    /\ pc[r] # "off" <=> container[r] = "up"
    /\ pc[r] \notin {"mark", "log", "throw"} => marks[r] = 0
    /\ pc[r] \in {"mark", "log"} => marks[r] <= 1

\* What is buffered lies in the range, above the checkpoint and below the head.
BufferInv ==
  \A r \in Ranges : \A h \in Heights : buf[r][h] # Absent =>
    /\ pc[r] \in {"index", "flush", "save", "dry", "throw"}
    /\ h \in Blocks(r)
    /\ checkpoint[r] < h
    /\ h <= head[r]

\* Nothing was ever written that the archive does not still serve.
ArchiveInv ==
  /\ \A t \in Tables : \A h \in Heights : raw[t][h] # Absent => archive[h] # Absent
  /\ \A r \in Ranges : \A h \in Heights : buf[r][h] # Absent => archive[h] # Absent

Indexing(r) == pc[r] \in {"index", "flush", "save"}

\* A height between checkpoint and head is buffered, or no table has it.
SkipInv ==
  \A r \in Ranges : Indexing(r) =>
    /\ checkpoint[r] <= head[r]
    /\ \A h \in Blocks(r) : checkpoint[r] < h /\ h <= head[r] /\ buf[r][h] = Absent
         => \A t \in Tables : raw[t][h] = Absent

\* The tables a flush has passed hold what is buffered.
FlushInv ==
  \A r \in Ranges :
    /\ pc[r] = "flush" => tbl[r] <= NumTables
    /\ pc[r] = "save"  => tbl[r] = NumTables + 1
    /\ pc[r] \in {"flush", "save"} =>
         \A t \in Tables : \A h \in Heights :
           t < tbl[r] /\ buf[r][h] # Absent => raw[t][h] = buf[r][h]

\* Validation starts only once the checkpoint has reached the end, and what it
\* has accepted stays true.
ValidationInv ==
  \A r \in Ranges :
    /\ pc[r] \in {"prev", "next", "complete", "mark", "log"} => checkpoint[r] >= To(r)
    /\ \/ pc[r] = "next" /\ ~bad[r]
       \/ pc[r] = "complete"
       \/ status[r] = "completed"
       => checkpoint[r] >= To(r) /\ WholeAndLinked(r)

\* Everything the safety properties rest on, preserved by every step of runRaw,
\* by crashes and by a healing archive.
IInv ==
  /\ TypeOK
  /\ ProcessInv
  /\ BufferInv
  /\ ArchiveInv
  /\ SkipInv
  /\ FlushInv
  /\ CheckpointCovered
  /\ ValidationInv

-----------------------------------------------------------------------------
(* What the supervisor sees of a worker is a RangeJob.                     *)

JobPhase(p) == CASE p = "off"  -> "off"
                 [] p = "boot" -> "boot"
                 [] p = "log"  -> "log"
                 [] p = "done" -> "done"
                 [] OTHER      -> "work"

Job == INSTANCE RangeJob WITH
         job <- [r \in Ranges |-> [phase |-> JobPhase(pc[r]), marks |-> marks[r]]]

\* Every step of a worker is a step, or no step, of the job its supervisor
\* relies on.
ImplementsJob == Job!JobSpec

-----------------------------------------------------------------------------
(* Liveness.                                                               *)

\* Docker is asked again and again to run a range that is not completed, and a
\* running process goes on; crashes are bounded by MaxFaults.
Fairness ==
  \A r \in Ranges : /\ WF_vars(Launch(r) /\ status[r] # "completed")
                    /\ WF_vars(Remove(r))
                    /\ WF_vars(Step(r))

FairSpec == Spec /\ Fairness

Healthy   == \A h \in Heights : archive[h] = Canonical
Completed == \A r \in Ranges : status[r] = "completed"

\* With an archive that serves the whole chain, every range is completed in
\* spite of crashes and terminations at any step.
HealthyCompletes == Healthy => <>Completed

\* "archive gaps can heal later. Retry stale blocked ranges [...] so healed gaps
\* do not stall the historical frontier forever": once the archive serves the
\* whole chain, retried ranges complete.
HealedCompletes == Healthy ~> Completed
=============================================================================
