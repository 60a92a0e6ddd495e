------------------------------ MODULE RangeJob ------------------------------
(***************************************************************************)
(* What one bounded raw-indexing container promises its supervisor.        *)
(*                                                                         *)
(* A range <<from, to>> is indexed by a container whose only visible       *)
(* effects are its own exit status, the row of the range in                *)
(* raw_ingestion_ranges (status) and the rows it appends to                *)
(* raw_ingestion_range_failures (failures).  How blocks are fetched,       *)
(* buffered, flushed and validated is left out: RawRangeWorker models it   *)
(* and implements this specification.  Supervisor composes many of these   *)
(* jobs with the supervisor's loop.                                        *)
(***************************************************************************)
EXTENDS Integers

CONSTANTS
  Ranges,    \* the ranges <<from, to>> that may be indexed
  LogCap     \* failure rows are counted up to this bound; the supervisor
             \* only compares the count with its (smaller) retry limit

ASSUME RangesAssumption ==
  /\ Ranges \subseteq Nat \X Nat
  /\ \A r \in Ranges : r[1] <= r[2]
ASSUME LogCapAssumption == LogCap \in Nat \ {0}

VARIABLES
  container, \* docker's view of the range's container
  status,    \* status column of the range's row, "none" when there is no row
  failures,  \* rows of the range in the append-only failure log
  job        \* progress of the process inside the container

jobVars == <<container, status, failures, job>>

Status    == {"none", "running", "completed", "failed", "blocked"}
Container == {"none", "up", "exited0", "exited1"}
Phase     == {"off", "boot", "work", "log", "done"}

Off == [phase |-> "off", marks |-> 0]

\* Appending one row to the failure log of r.
LogRow(r) ==
  failures' = [failures EXCEPT ![r] = IF @ < LogCap THEN @ + 1 ELSE @]

JobInit ==
  /\ container = [r \in Ranges |-> "none"]
  /\ status    = [r \in Ranges |-> "none"]
  /\ failures  = [r \in Ranges |-> 0]
  /\ job       = [r \in Ranges |-> Off]

-----------------------------------------------------------------------------
(* The environment: docker starts the container and removes a stopped one. *)

Launch(r) ==
  /\ container[r] = "none"
  /\ container' = [container EXCEPT ![r] = "up"]
  /\ job' = [job EXCEPT ![r] = [phase |-> "boot", marks |-> 0]]
  /\ UNCHANGED <<status, failures>>

Remove(r) ==
  /\ container[r] \in {"exited0", "exited1"}
  /\ container' = [container EXCEPT ![r] = "none"]
  /\ UNCHANGED <<status, failures, job>>

-----------------------------------------------------------------------------
(* The job.                                                                *)

\* markRawRangeRunning: a completed range keeps its row.
MarkRunning(r) ==
  /\ job[r].phase = "boot"
  /\ job' = [job EXCEPT ![r].phase = "work"]
  /\ status' = [status EXCEPT ![r] = IF @ = "completed" THEN @ ELSE "running"]
  /\ UNCHANGED <<container, failures>>

\* The first insert of markRawRangeFailed, which a completed range skips.
\* One process calls it at most twice.
MarkFailed(r) ==
  /\ job[r].phase = "work"
  /\ job[r].marks < 2
  /\ status[r] # "completed"
  /\ job' = [job EXCEPT ![r].phase = "log"]
  /\ status' = [status EXCEPT ![r] = "failed"]
  /\ UNCHANGED <<container, failures>>

\* Its second insert.
LogFailure(r) ==
  /\ job[r].phase = "log"
  /\ job' = [job EXCEPT ![r] = [phase |-> "work", marks |-> @.marks + 1]]
  /\ LogRow(r)
  /\ UNCHANGED <<container, status>>

\* The completed row of finalizeRawRange; a process that has marked its range
\* failed never completes it.
MarkCompleted(r) ==
  /\ job[r].phase = "work"
  /\ job[r].marks = 0
  /\ job' = [job EXCEPT ![r].phase = "done"]
  /\ status' = [status EXCEPT ![r] = "completed"]
  /\ UNCHANGED <<container, failures>>

\* The process ends: "exited0" after the last batch, when the processor runs
\* out of blocks, or ten seconds after a SIGTERM; "exited1" on any error or kill.
Exit(r, code) ==
  /\ container[r] = "up"
  /\ container' = [container EXCEPT ![r] = code]
  /\ job' = [job EXCEPT ![r] = Off]
  /\ UNCHANGED <<status, failures>>

JobStep(r) ==
  \/ MarkRunning(r)
  \/ MarkFailed(r)
  \/ LogFailure(r)
  \/ MarkCompleted(r)
  \/ \E code \in {"exited0", "exited1"} : Exit(r, code)

JobNext == \E r \in Ranges : Launch(r) \/ Remove(r) \/ JobStep(r)

JobSpec == JobInit /\ [][JobNext]_jobVars

JobTypeOK ==
  /\ container \in [Ranges -> Container]
  /\ status    \in [Ranges -> Status]
  /\ failures  \in [Ranges -> 0..LogCap]
  /\ job       \in [Ranges -> [phase : Phase, marks : 0..2]]
=============================================================================
