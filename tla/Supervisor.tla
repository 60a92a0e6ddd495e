----------------------------- MODULE Supervisor -----------------------------
(***************************************************************************)
(* The raw-backfill half of scripts/ingestion-supervisor.sh: one loop that *)
(* restarts stopped containers, recovers ranges without a container and    *)
(* claims the next lower range, next to the containers it started, the     *)
(* live follower that seeds the frontier, and the clock.                   *)
(*                                                                         *)
(* Every docker or ClickHouse call of the loop is a step of its own, so a  *)
(* container may end, a row may change or the supervisor may die between   *)
(* any two.  Reads that nobody but the supervisor can invalidate are taken *)
(* together.                                                               *)
(*                                                                         *)
(* A docker or ClickHouse call that fails without ending the script is a   *)
(* choice of its step, paid from the fault budget: a failed count of the   *)
(* running containers reads 0, a failed listing is empty, a container that *)
(* docker ps did not show does not exist, a failed status or count query   *)
(* answers nothing, and the oldest known height is the least of those that *)
(* did come back.  History variables keep what such an answer led to.      *)
(***************************************************************************)
EXTENDS RangeJob, FiniteSets

CONSTANTS
  Top,                    \* bound: the highest block the live follower reaches
  RANGE_SIZE,
  RAW_WORKERS,
  RAW_FAILED_RETRY_LIMIT,
  NoRange,
  MaxFaults               \* bound: crashes, failed validations, failed queries

ASSUME SupervisorAssumption ==
  /\ Top \in Nat
  /\ RANGE_SIZE \in Nat \ {0}
  /\ \A r \in Ranges : r[2] < Top
  /\ \A m \in 1..Top : <<IF m < RANGE_SIZE THEN 0 ELSE m - RANGE_SIZE, m - 1>> \in Ranges
  /\ IsFiniteSet(Ranges)
  /\ RAW_WORKERS \in Nat \ {0}
  /\ RAW_FAILED_RETRY_LIMIT \in 1..LogCap
  /\ MaxFaults \in Nat
  /\ NoRange \notin Ranges

VARIABLES
  ctx,      \* the function of the loop being run: "cleanup", "recover", "ensure"
  at,       \* the next call in it
  cur,      \* the range at hand, NoRange between two
  todo,     \* what is left of the list the function iterates over: each range
            \* with the status it was listed with
  liveHead, \* last_block of the raw-live checkpoint, 0 when there is none
  stale,    \* ranges whose row is older than the interval its status asks for
  (* history and bound *)
  claimed,  \* ranges started as new
  unlucky,  \* ranges about which a query or an insert of the supervisor failed
  misread,  \* ranges started below a frontier that was read too high
  miscounts,\* times a full house was counted as having a free slot
  origin,   \* the height the first claim was made below, 0 before it
  faults

loopVars == <<ctx, at, cur, todo>>
history  == <<claimed, unlucky, misread, miscounts, origin, faults>>
vars     == <<jobVars, loopVars, liveHead, stale, history>>

From(r) == r[1]
To(r)   == r[2]
Active  == {r \in Ranges : container[r] = "up"}

\* Mutant: one container too many.
slots_full_late == Cardinality(Active) > RAW_WORKERS

raw_worker_slots_full == Cardinality(Active) >= RAW_WORKERS

NoRows  == [r \in {} |-> "none"]
Rest(r) == [s \in DOMAIN todo \ {r} |-> todo[s]]

Init ==
  /\ JobInit
  /\ ctx = "cleanup" /\ at = "list" /\ cur = NoRange /\ todo = NoRows
  /\ liveHead  = 0
  /\ stale     = {}
  /\ claimed   = {}
  /\ unlucky   = {}
  /\ misread   = {}
  /\ miscounts = 0
  /\ origin    = 0
  /\ faults    = 0

Fault == faults < MaxFaults /\ faults' = faults + 1

\* A query or an insert about range r fails and the script carries on.
QueryFails(r) == Fault /\ unlucky' = unlucky \cup {r}

\* What no call of cleanup and recovery changes, but for the count of containers.
Record == <<claimed, misread, miscounts, origin>>

\* The call ends the turn of the range at hand, or leaves it at hand.
EndTurn == cur' = IF at' = "next" THEN NoRange ELSE cur

-----------------------------------------------------------------------------
(* cleanup_stopped_raw.                                                    *)

\* A listing that fails ends the script.
ListStopped ==
  /\ ctx = "cleanup" /\ at = "list"
  /\ todo' = [r \in {s \in Ranges : container[s] \in {"exited0", "exited1"}} |-> container[r]]
  /\ at' = "next"
  /\ UNCHANGED <<jobVars, ctx, cur, liveHead, stale, history>>

\* Mutant: exit status 0 is taken for completion.
TakeStoppedTrusting(r) ==
  /\ ctx = "cleanup" /\ at = "next"
  /\ r \in DOMAIN todo
  /\ todo' = Rest(r)
  /\ cur' = r
  /\ at' = IF todo[r] = "exited0" THEN "drop" ELSE "mark"
  /\ UNCHANGED <<jobVars, ctx, liveHead, stale, history>>

\* A container that exited 0 with its range completed is only removed; when the
\* status query fails the range counts as not completed.
TakeStopped(r) ==
  /\ ctx = "cleanup" /\ at = "next"
  /\ r \in DOMAIN todo
  /\ todo' = Rest(r)
  /\ cur' = r
  /\ IF todo[r] = "exited0" /\ status[r] = "completed"
       THEN \/ at' = "drop" /\ UNCHANGED <<unlucky, faults>>
            \/ at' = "mark" /\ QueryFails(r)
       ELSE at' = "mark" /\ UNCHANGED <<unlucky, faults>>
  /\ UNCHANGED <<jobVars, ctx, liveHead, stale, Record>>

StoppedDone ==
  /\ ctx = "cleanup" /\ at = "next"
  /\ DOMAIN todo = {}
  /\ ctx' = "recover" /\ at' = "list"
  /\ UNCHANGED <<jobVars, cur, todo, liveHead, stale, history>>

-----------------------------------------------------------------------------
(* Calls shared by cleanup_stopped_raw and recover_orphaned_raw.           *)

\* The supervisor writes the row of the range at hand, or fails to.
WriteRow(st) ==
  \/ /\ status' = [status EXCEPT ![cur] = st]
     /\ stale' = stale \ {cur}
     /\ UNCHANGED <<unlucky, faults>>
  \/ QueryFails(cur) /\ UNCHANGED <<status, stale>>

\* mark_raw_range_failed_from_supervisor: the row, then the log.
MarkRow ==
  /\ at = "mark" /\ at' = "log"
  /\ WriteRow("failed")
  /\ UNCHANGED <<container, failures, job, ctx, cur, todo, liveHead, Record>>

MarkLog ==
  /\ at = "log" /\ at' = "block"
  /\ \/ LogRow(cur) /\ UNCHANGED <<unlucky, faults>>
     \/ QueryFails(cur) /\ UNCHANGED failures
  /\ UNCHANGED <<container, status, job, ctx, cur, todo, liveHead, stale, Record>>

Exhausted(r) == failures[r] >= RAW_FAILED_RETRY_LIMIT

\* block_raw_range_if_retry_exhausted: the limit is reached ...
Block ==
  /\ at = "block"
  /\ Exhausted(cur)
  /\ at' = IF ctx = "cleanup" THEN "drop" ELSE "next"
  /\ EndTurn
  /\ WriteRow("blocked")
  /\ UNCHANGED <<container, failures, job, ctx, todo, liveHead, Record>>

\* Mutant: the limit is not looked at.
DoNotBlockEver ==
  /\ at = "block" /\ at' = "slots"
  /\ UNCHANGED <<jobVars, ctx, cur, todo, liveHead, stale, history>>

\* ... or it is not, or the count is not to be had and is taken for 0.
DoNotBlock ==
  /\ at = "block" /\ at' = "slots"
  /\ IF Exhausted(cur) THEN QueryFails(cur) ELSE UNCHANGED <<unlucky, faults>>
  /\ UNCHANGED <<jobVars, ctx, cur, todo, liveHead, stale, Record>>

\* With the cap reached cleanup removes the container and defers the restart,
\* and recovery ends.
SlotsFull ==
  /\ at = "slots"
  /\ raw_worker_slots_full
  /\ IF ctx = "cleanup" THEN at' = "drop" /\ UNCHANGED todo
                        ELSE at' = "next" /\ todo' = NoRows
  /\ EndTurn
  /\ UNCHANGED <<jobVars, ctx, liveHead, stale, history>>

\* A slot is free, or docker ps failed and the containers counted are 0.
SlotFree ==
  /\ at = "slots"
  /\ at' = IF ctx = "cleanup" THEN "swap" ELSE "start"
  /\ IF raw_worker_slots_full THEN Fault /\ miscounts' = miscounts + 1
                              ELSE UNCHANGED <<faults, miscounts>>
  /\ UNCHANGED <<jobVars, ctx, cur, todo, liveHead, stale, claimed, unlucky, misread, origin>>

\* remove_container, for good or before a restart.  When docker rm fails and the
\* docker ps that looks for the container fails too, it counts as removed.
RemoveStopped ==
  /\ \/ at = "drop" /\ at' = "next"
     \/ at = "swap" /\ at' = "start"
  /\ EndTurn
  /\ \/ Remove(cur) /\ UNCHANGED faults
     \/ UNCHANGED jobVars /\ Fault
  /\ UNCHANGED <<ctx, todo, liveHead, stale, unlucky, Record>>

\* start_raw_range returns at once when the container exists; when docker ps fails
\* to show it, the name is taken and the script ends.
Start ==
  /\ at = "start" /\ at' = "next"
  /\ EndTurn
  /\ IF container[cur] = "none" THEN Launch(cur) ELSE UNCHANGED jobVars
  /\ IF ctx = "ensure"
       THEN /\ claimed' = claimed \cup {cur}
            /\ origin' = IF claimed = {} THEN To(cur) + 1 ELSE origin
       ELSE UNCHANGED <<claimed, origin>>
  /\ UNCHANGED <<ctx, todo, liveHead, stale, unlucky, misread, miscounts, faults>>

-----------------------------------------------------------------------------
(* recover_orphaned_raw.                                                   *)

HoldsBlocked(r) ==
  \E s \in Ranges : /\ s # r
                    /\ status[s] = "blocked"
                    /\ From(s) >= From(r) /\ To(s) <= To(r)

Listed(S) == [r \in S |-> status[r]]

\* Mutant: blocked ranges are never retried.
ListOrphansUnblocked ==
  /\ ctx = "recover" /\ at = "list"
  /\ todo' = Listed({r \in Ranges : \/ status[r] = "failed"
                                    \/ status[r] = "running" /\ r \in stale})
  /\ at' = "next"
  /\ UNCHANGED <<jobVars, ctx, cur, liveHead, stale, history>>

\* A query that fails lists nothing.
ListOrphans ==
  /\ ctx = "recover" /\ at = "list"
  /\ \/ /\ todo' = Listed({r \in Ranges :
                             \/ status[r] = "failed"
                             \/ status[r] = "running" /\ r \in stale
                             \/ status[r] = "blocked" /\ r \in stale /\ ~HoldsBlocked(r)})
        /\ UNCHANGED faults
     \/ todo' = NoRows /\ Fault
  /\ at' = "next"
  /\ UNCHANGED <<jobVars, ctx, cur, liveHead, stale, unlucky, Record>>

\* What is done for a range without a container, by the status it was listed with.
OrphanCall == [running |-> "mark", failed |-> "block", blocked |-> "slots"]

\* Highest range first.  A range that has a container is left alone, unless
\* docker ps fails and the container is not seen.
TakeOrphan(r) ==
  /\ ctx = "recover" /\ at = "next"
  /\ r \in DOMAIN todo
  /\ \A s \in DOMAIN todo : From(s) <= From(r)
  /\ todo' = Rest(r)
  /\ \/ container[r] # "none" /\ at' = "next" /\ UNCHANGED <<cur, faults>>
     \/ /\ at' = OrphanCall[todo[r]] /\ cur' = r
        /\ IF container[r] # "none" THEN Fault ELSE UNCHANGED faults
  /\ UNCHANGED <<jobVars, ctx, liveHead, stale, unlucky, Record>>

OrphansDone ==
  /\ ctx = "recover" /\ at = "next"
  /\ DOMAIN todo = {}
  /\ ctx' = "ensure"
  /\ UNCHANGED <<jobVars, at, cur, todo, liveHead, stale, history>>

-----------------------------------------------------------------------------
(* ensure_raw_workers.                                                     *)

\* The calls of one turn of the loop that fail and are passed over.
Calls == {"count", "names", "rows", "head", "frontier"}

Lose(lost) == IF lost = {} THEN UNCHANGED faults ELSE Fault

\* The heights min_known_raw_from takes the minimum of when the calls in lost fail.
Known(lost) ==
  {From(r) : r \in {s \in Ranges : \/ container[s] # "none" /\ "names" \notin lost
                                   \/ status[s] # "none" /\ "rows" \notin lost}}
    \cup (IF liveHead > 0 /\ "head" \notin lost THEN {liveHead} ELSE {})

oldest_raw_frontier_blocked(m) ==
  LET rows == {r \in Ranges : From(r) = m /\ status[r] # "none"}
  IN  rows # {} /\ \A r \in rows : status[r] = "blocked"

\* m is the oldest known height and there is a lower range to start; a frontier
\* whose rows cannot be read counts as not blocked.
Frontier(lost, m) ==
  /\ m \in Known(lost)
  /\ \A k \in Known(lost) : m <= k
  /\ "frontier" \in lost \/ ~oldest_raw_frontier_blocked(m)
  /\ m > 0

NextRange(m) == <<IF m < RANGE_SIZE THEN 0 ELSE m - RANGE_SIZE, m - 1>>

ChooseNext(lost, m) ==
  /\ ctx = "ensure" /\ at = "next"
  /\ Lose(lost)
  /\ "count" \in lost \/ ~raw_worker_slots_full
  /\ Frontier(lost, m)
  /\ cur' = NextRange(m)
  /\ at' = "start"
  /\ miscounts' = IF raw_worker_slots_full THEN miscounts + 1 ELSE miscounts
  /\ misread' = IF \E k \in Known({}) : k < m THEN misread \cup {NextRange(m)} ELSE misread
  /\ UNCHANGED <<jobVars, ctx, todo, liveHead, stale, claimed, unlucky, origin>>

\* The end of the loop body; the loop sleeps and starts again.
EnsureDone(lost) ==
  /\ ctx = "ensure" /\ at = "next"
  /\ Lose(lost)
  /\ \/ raw_worker_slots_full /\ "count" \notin lost
     \/ ~ \E m \in Known(lost) : Frontier(lost, m)
  /\ ctx' = "cleanup" /\ at' = "list"
  /\ UNCHANGED <<jobVars, cur, todo, liveHead, stale, unlucky, Record>>

\* The script dies: killed, or a call it does not guard failed.
SupervisorCrash ==
  /\ <<ctx, at>> # <<"cleanup", "list">>
  /\ Fault
  /\ ctx' = "cleanup" /\ at' = "list" /\ cur' = NoRange /\ todo' = NoRows
  /\ UNCHANGED <<jobVars, liveHead, stale, unlucky, Record>>

Loop ==
  \/ ListStopped \/ (\E r \in Ranges : TakeStopped(r)) \/ StoppedDone
  \/ MarkRow \/ MarkLog \/ Block \/ DoNotBlock \/ SlotsFull \/ SlotFree
  \/ RemoveStopped \/ Start
  \/ ListOrphans \/ (\E r \in Ranges : TakeOrphan(r)) \/ OrphansDone
  \/ \E lost \in SUBSET Calls : (\E m \in Known(lost) : ChooseNext(lost, m)) \/ EnsureDone(lost)

-----------------------------------------------------------------------------
(* The rest of the system.                                                 *)

Elsewhere == UNCHANGED <<loopVars, liveHead, unlucky, Record>>

\* What a container does by itself.
WorkerStep(r) ==
  /\ \/ MarkRunning(r) /\ stale' = stale \ {r}
     \/ LogFailure(r) /\ UNCHANGED stale
     \/ MarkCompleted(r) /\ stale' = stale \ {r}
     \/ job[r].marks > 0 /\ MarkFailed(r) /\ stale' = stale \ {r}
     \/ job[r].marks > 0 /\ Exit(r, "exited1") /\ UNCHANGED stale
     \/ job[r].phase = "done" /\ Exit(r, "exited0") /\ UNCHANGED stale
  /\ Elsewhere /\ UNCHANGED faults

\* A failed validation, a crash, a kill, a SIGTERM or a range the archive has
\* no more blocks for.
WorkerFault(r) ==
  /\ Fault
  /\ \/ job[r].marks = 0 /\ MarkFailed(r) /\ stale' = stale \ {r}
     \/ (\E code \in {"exited0", "exited1"} : Exit(r, code)) /\ UNCHANGED stale
  /\ Elsewhere

\* raw-live saves a checkpoint.
LiveAdvance ==
  /\ liveHead < Top
  /\ liveHead' \in liveHead + 1 .. Top
  /\ UNCHANGED <<jobVars, loopVars, stale, history>>

\* 15 minutes pass since a running row, or the cooldown since a blocked row,
\* was last written.
Age(r) ==
  /\ status[r] \in {"running", "blocked"}
  /\ r \notin stale
  /\ stale' = stale \cup {r}
  /\ UNCHANGED <<jobVars, loopVars, liveHead, history>>

Next ==
  \/ Loop
  \/ SupervisorCrash
  \/ \E r \in Ranges : WorkerStep(r) \/ WorkerFault(r) \/ Age(r)
  \/ LiveAdvance

Spec == Init /\ [][Next]_vars

-----------------------------------------------------------------------------
(* Properties.                                                             *)

\* The jobs and the loop stay in their domains; whenever a call is about a range,
\* there is one at hand, and ensure_raw_workers never reaches below block 0.
TypeOK ==
  /\ JobTypeOK
  /\ ctx \in {"cleanup", "recover", "ensure"}
  /\ at \in {"list", "next", "mark", "log", "block", "slots", "drop", "swap", "start"}
  /\ cur \in Ranges \cup {NoRange}
  /\ at \in {"mark", "log", "block", "slots", "drop", "swap", "start"} => cur \in Ranges
  /\ DOMAIN todo \subseteq Ranges
  /\ \A r \in DOMAIN todo : todo[r] \in Status \cup Container
  /\ liveHead \in 0..Top
  /\ stale \subseteq Ranges
  /\ claimed \subseteq Ranges
  /\ unlucky \subseteq Ranges
  /\ misread \subseteq Ranges
  /\ miscounts \in 0..faults
  /\ origin \in 0..Top
  /\ faults \in 0..MaxFaults

\* Three functions start containers and each counts the running ones well before
\* it starts its own: still no more than RAW_WORKERS run, but for one more with
\* every docker ps that failed while they were all busy and was taken for 0.
WorkerCap == Cardinality(Active) <= RAW_WORKERS + miscounts

\* A claimed range is never forgotten: it has a container or a row wherever the
\* script or the container dies, unless a query about it failed.  Without either
\* the frontier passes it by for good.
NothingForgotten ==
  \A r \in claimed \ unlucky :
    \/ container[r] # "none"
    \/ status[r] # "none"

\* A crash, a restart or a failed call leaves no block out: from any claim up to
\* the height the first one was made below, every block is claimed.  And no block is
\* claimed twice, but for a range that was started below a frontier read too high or
\* after a range was forgotten.
ClaimsTile ==
  /\ \A r \in claimed : \A b \in From(r)..(origin - 1) :
       \E q \in claimed : From(q) <= b /\ b <= To(q)
  /\ unlucky = {} =>
       \A r, s \in claimed \ misread : r # s => To(r) < From(s) \/ To(s) < From(r)

\* The loop keeps what it has claimed: through restarts and dead scripts the claims
\* tile the history, each stays known, and no call is about a range it does not have.
ClaimsInv == TypeOK /\ NothingForgotten /\ ClaimsTile

\* "letting a permanently failing range retry forever": once its failures reach
\* the limit a range is started again only as a blocked range whose row is older
\* than the cooldown, unless a query about it failed or the frontier was read too
\* high and it was taken for new.
NoHotRetry ==
  [][\A r \in Ranges \ (unlucky \cup misread) :
       container[r] = "none" /\ container'[r] = "up" /\ Exhausted(r)
         => status[r] = "blocked" /\ r \in stale]_vars

-----------------------------------------------------------------------------
(* Liveness.                                                               *)

\* The loop always continues (a dead script is restarted by its service), a
\* healthy container makes progress, and rows grow old.
Fairness ==
  /\ WF_vars(Loop)
  /\ WF_vars(LiveAdvance)
  /\ \A r \in Ranges : WF_vars(WorkerStep(r)) /\ WF_vars(Age(r))

FairSpec == Spec /\ Fairness

Finished ==
  /\ \E r \in claimed : From(r) = 0
  /\ \A r \in claimed : status[r] = "completed"

Forgotten == \E r \in claimed : container[r] = "none" /\ status[r] = "none"

\* With finitely many faults the backfill reaches block 0 with every claimed
\* range completed: neither the worker cap, nor the retry limit, nor a blocked
\* frontier, nor a failed query can wedge it, but for a range that was forgotten.
BackfillCompletes == <>[](Finished \/ Forgotten)
=============================================================================
