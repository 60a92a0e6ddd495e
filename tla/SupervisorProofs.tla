-------------------------- MODULE SupervisorProofs --------------------------
(***************************************************************************)
(* Proofs about Supervisor for every range size, worker cap, retry limit   *)
(* and number of faults.                                                   *)
(***************************************************************************)
EXTENDS Supervisor, FiniteSetTheorems, TLAPS

-----------------------------------------------------------------------------
(* The inductive invariant.                                                *)

\* A process runs exactly while its container is up, and once it has reached its
\* work its range has a row.
JobInv ==
  \A r \in Ranges :
    /\ job[r].phase # "off" <=> container[r] = "up"
    /\ job[r].phase = "log" => job[r].marks < 2
    /\ job[r].phase \in {"work", "log", "done"} => status[r] # "none"

\* Only a claimed range has a container, a row or failures, and every claim, the
\* first as well, is below raw-live's head.
OriginInv ==
  /\ \A r \in Ranges : container[r] # "none" \/ status[r] # "none" \/ failures[r] # 0
                         => r \in claimed
  /\ \A r \in claimed : To(r) < liveHead
  /\ claimed # {} => origin <= liveHead

AtHand == {"mark", "log", "block", "slots", "drop", "swap", "start"}

\* What cleanup_stopped_raw knows of the containers it has listed and not looked at;
\* one it is about to start again may still be there, stopped.
CleanupInv ==
  ctx = "cleanup" =>
    /\ at # "list" => \A r \in DOMAIN todo : /\ container[r] \in {"exited0", "exited1"}
                                             /\ todo[r] = container[r]
    /\ at \in AtHand => cur \in claimed /\ cur \notin DOMAIN todo
    /\ at \in AtHand \ {"start"} => container[cur] \in {"exited0", "exited1"}
    /\ at = "start" => container[cur] # "up"

\* What recover_orphaned_raw knows of the rows it has listed and not looked at: the
\* row of a range that has no container is the one it has listed.
RecoverInv ==
  ctx = "recover" =>
    /\ at \notin {"drop", "swap"}
    /\ at # "list" => \A r \in DOMAIN todo :
         /\ r \in claimed /\ status[r] # "none"
         /\ todo[r] \in {"running", "failed", "blocked"}
         /\ container[r] = "none" => /\ status[r] = todo[r]
                                     /\ todo[r] = "blocked" => r \in stale
    /\ at \in AtHand => cur \in claimed /\ cur \notin DOMAIN todo /\ status[cur] # "none"

\* What ensure_raw_workers knows of the range it is about to start: it ends right
\* below a claim, or where the live follower has taken over; unless a call failed it
\* is new and below all claims.
EnsureInv ==
  ctx = "ensure" =>
    /\ at \in {"next", "start"}
    /\ at = "start" =>
         /\ cur \notin claimed \ (unlucky \cup misread)
         /\ To(cur) < liveHead
         /\ claimed # {} => \/ origin <= To(cur) + 1
                            \/ \E q \in claimed : From(q) = To(cur) + 1
         /\ unlucky = {} /\ cur \notin misread => \A r \in claimed : To(cur) < From(r)

\* Before a container is removed or started again its range has a row.
RowInv ==
  at \in {"log", "block", "slots", "drop", "swap", "start"} /\ ctx # "ensure" =>
    cur \in unlucky \/ status[cur] # "none"

\* Past the test of the retry limit the range at hand has retries left, or it is a
\* blocked range that has cooled down; one taken for an orphan in error has a
\* container, and is not started.
RetryInv ==
  at \in {"slots", "swap", "start"} /\ ctx # "ensure" /\ cur \notin unlucky /\ Exhausted(cur)
    /\ (ctx = "cleanup" \/ container[cur] = "none")
  => status[cur] = "blocked" /\ cur \in stale

\* The slot counted as free is still free when the container is started, but for the
\* slots miscounted.
SlotInv == at \in {"swap", "start"} => Cardinality(Active) < RAW_WORKERS + miscounts

IInv ==
  /\ TypeOK
  /\ JobInv /\ OriginInv
  /\ CleanupInv /\ RecoverInv /\ EnsureInv
  /\ RowInv /\ RetryInv /\ SlotInv
  /\ WorkerCap /\ NothingForgotten /\ ClaimsTile

-----------------------------------------------------------------------------
(* Facts about the constants and about single steps.                       *)

\* A range is a pair of heights below Top, and what ensure_raw_workers builds
\* below a known height is a range.
LEMMA RangeFacts ==
  /\ \A r \in Ranges : /\ From(r) \in Nat /\ To(r) \in Nat
                       /\ From(r) <= To(r) /\ To(r) < Top
  /\ \A m \in 1..Top : /\ NextRange(m) \in Ranges
                       /\ To(NextRange(m)) = m - 1
  /\ Top \in Nat /\ LogCap \in Nat /\ MaxFaults \in Nat
  /\ RAW_WORKERS \in Nat \ {0} /\ RAW_FAILED_RETRY_LIMIT \in Nat \ {0}
  /\ NoRange \notin Ranges
<1>1. ASSUME NEW r \in Ranges
      PROVE  From(r) \in Nat /\ To(r) \in Nat /\ From(r) <= To(r) /\ To(r) < Top
  BY RangesAssumption, SupervisorAssumption DEF From, To
<1>2. ASSUME NEW m \in 1..Top
      PROVE  NextRange(m) \in Ranges /\ To(NextRange(m)) = m - 1
  BY SupervisorAssumption DEF NextRange, To
<1> QED
  BY <1>1, <1>2, LogCapAssumption, SupervisorAssumption

\* The heights known are heights, whichever calls fail.
LEMMA KnownFacts ==
  ASSUME TypeOK, NEW lost
  PROVE  Known(lost) \subseteq 0..Top
  BY RangeFacts DEF Known, TypeOK

\* Removing containers from the running ones, or none, keeps the count bounded.
LEMMA ActiveShrinks ==
  ASSUME Active' \subseteq Active
  PROVE  Cardinality(Active') \in Nat /\ Cardinality(Active) \in Nat
         /\ Cardinality(Active') <= Cardinality(Active)
<1>1. Active \in SUBSET Ranges
  BY DEF Active
<1>2. IsFiniteSet(Active)
  BY <1>1, SupervisorAssumption, FS_Subset
<1>3. Active' \in SUBSET Active
  OBVIOUS
<1> HIDE DEF Active
<1>4. IsFiniteSet(Active') /\ Cardinality(Active') <= Cardinality(Active)
  BY <1>2, <1>3, FS_Subset
<1> QED
  BY <1>2, <1>4, FS_CardinalityType

\* What a container does by itself touches its own range only, and only while it
\* is up; it never takes a row away and never starts another container.
LEMMA WorkerEffect ==
  ASSUME TypeOK, JobInv, NEW r \in Ranges, WorkerStep(r) \/ WorkerFault(r)
  PROVE  /\ UNCHANGED <<loopVars, liveHead, unlucky, Record>>
         /\ container[r] = "up"
         /\ \A s \in Ranges : s # r => /\ container'[s] = container[s]
                                       /\ status'[s] = status[s]
                                       /\ failures'[s] = failures[s]
                                       /\ job'[s] = job[s]
                                       /\ s \in stale' <=> s \in stale
         /\ container'[r] \in {"up", "exited0", "exited1"}
         /\ status'[r] = status[r] \/ status'[r] # "none"
         /\ JobTypeOK' /\ stale' \subseteq Ranges
         /\ faults' \in faults..MaxFaults
         /\ JobInv'
         /\ Active' \subseteq Active
<1> USE RangeFacts DEF TypeOK, JobTypeOK, JobInv, Container, Status, Phase
<1>1. UNCHANGED <<loopVars, liveHead, unlucky, Record>>
  BY DEF WorkerStep, WorkerFault, Elsewhere
<1>2. faults' \in faults..MaxFaults
  BY DEF WorkerStep, WorkerFault, Fault
<1>3. CASE MarkRunning(r) /\ stale' = stale \ {r}
  BY <1>1, <1>2, <1>3 DEF MarkRunning, Active
<1>4. CASE LogFailure(r) /\ UNCHANGED stale
  BY <1>1, <1>2, <1>4 DEF LogFailure, LogRow, Active
<1>5. CASE MarkCompleted(r) /\ stale' = stale \ {r}
  BY <1>1, <1>2, <1>5 DEF MarkCompleted, Active
<1>6. CASE MarkFailed(r) /\ stale' = stale \ {r}
  BY <1>1, <1>2, <1>6 DEF MarkFailed, Active
<1>7. CASE (\E code \in {"exited0", "exited1"} : Exit(r, code)) /\ UNCHANGED stale
  BY <1>1, <1>2, <1>7 DEF Exit, Off, Active
<1> QED
  BY <1>3, <1>4, <1>5, <1>6, <1>7 DEF WorkerStep, WorkerFault

-----------------------------------------------------------------------------
(* Every step keeps each part of the invariant, one case per action.                *)

\* The loop and the jobs keep their types.
LEMMA TypeStep == IInv /\ [Next]_vars => TypeOK'
<1> SUFFICES ASSUME IInv, [Next]_vars PROVE TypeOK'
  OBVIOUS
<1>0. TypeOK /\ JobInv /\ RecoverInv /\ OriginInv
  BY DEF IInv
<1> USE <1>0, RangeFacts DEF TypeOK, JobTypeOK, Container, Status, Phase
<1>1. CASE ListStopped
  BY <1>1 DEF ListStopped, jobVars, loopVars, history
<1>2. ASSUME NEW r \in Ranges, TakeStopped(r)
      PROVE  TypeOK'
  BY <1>2 DEF TakeStopped, Rest, Record, QueryFails, Fault, jobVars, loopVars, history
<1>3. CASE StoppedDone
  BY <1>3 DEF StoppedDone, jobVars, loopVars, history
<1>4. CASE MarkRow
  BY <1>4 DEF MarkRow, Record, WriteRow, QueryFails, Fault, jobVars, loopVars, history
<1>5. CASE MarkLog
  BY <1>5 DEF MarkLog, Record, LogRow, QueryFails, Fault, jobVars, loopVars, history
<1>6. CASE Block
  BY <1>6 DEF Block, EndTurn, Record, WriteRow, QueryFails, Fault, jobVars, loopVars, history
<1>7. CASE DoNotBlock
  BY <1>7 DEF DoNotBlock, Record, QueryFails, Fault, jobVars, loopVars, history
<1>8. CASE SlotsFull
  BY <1>8 DEF SlotsFull, EndTurn, NoRows, jobVars, loopVars, history
<1>9. CASE SlotFree
  BY <1>9 DEF SlotFree, Fault, jobVars, loopVars, history
<1>10. CASE RemoveStopped
  BY <1>10 DEF RemoveStopped, EndTurn, Fault, Record, Remove, jobVars, loopVars, history
<1>11. CASE Start
  BY <1>11 DEF Start, EndTurn, Launch, jobVars, loopVars, history
<1>12. CASE ListOrphans
  <2>1. /\ DOMAIN todo' \subseteq Ranges
        /\ \A r \in DOMAIN todo' : todo'[r] \in Status \cup Container
    BY <1>12 DEF ListOrphans, Listed, NoRows
  <2>2. faults' \in faults..MaxFaults
    BY <1>12 DEF ListOrphans, Fault
  <2> QED
    BY <1>12, <2>1, <2>2 DEF ListOrphans, Record, jobVars
<1>13. ASSUME NEW r \in Ranges, TakeOrphan(r)
       PROVE  TypeOK'
  <2>1. OrphanCall[todo[r]] \in {"mark", "block", "slots"}
    BY <1>13 DEF TakeOrphan, OrphanCall, RecoverInv
  <2> QED
    BY <1>13, <2>1 DEF TakeOrphan, Rest, Fault, Record, jobVars
<1>14. CASE OrphansDone
  BY <1>14 DEF OrphansDone, jobVars, loopVars, history
<1>15. ASSUME NEW lost \in SUBSET Calls, NEW m \in Known(lost), ChooseNext(lost, m)
       PROVE  TypeOK'
  <2>1. NextRange(m) \in Ranges
    BY <1>15, KnownFacts DEF ChooseNext, Frontier
  <2>2. faults' \in faults..MaxFaults
    BY <1>15 DEF ChooseNext, Lose, Fault
  <2>3. miscounts' \in 0..faults'
    <3>1. raw_worker_slots_full => lost # {}
      BY <1>15 DEF ChooseNext
    <3> QED
      BY <1>15, <3>1 DEF ChooseNext, Lose, Fault
  <2> QED
    BY <1>15, <2>1, <2>2, <2>3 DEF ChooseNext, jobVars
<1>16. ASSUME NEW lost \in SUBSET Calls, EnsureDone(lost)
       PROVE  TypeOK'
  BY <1>16 DEF EnsureDone, Lose, Fault, Record, jobVars, loopVars, history
<1>17. CASE SupervisorCrash
  BY <1>17 DEF SupervisorCrash, NoRows, Record, Fault, jobVars, loopVars, history
<1>18. ASSUME NEW r \in Ranges, WorkerStep(r) \/ WorkerFault(r)
       PROVE  TypeOK'
  BY <1>18, WorkerEffect DEF loopVars, Record
<1>19. ASSUME NEW r \in Ranges, Age(r)
       PROVE  TypeOK'
  BY <1>19 DEF Age, jobVars, loopVars, history
<1>20. CASE LiveAdvance
  BY <1>20 DEF LiveAdvance, jobVars, loopVars, history
<1>21. CASE UNCHANGED vars
  BY <1>21 DEF vars, jobVars, loopVars, history
<1> QED
  BY <1>1, <1>2, <1>3, <1>4, <1>5, <1>6, <1>7, <1>8, <1>9, <1>10, <1>11,
     <1>12, <1>13, <1>14, <1>15, <1>16, <1>17, <1>18, <1>19, <1>20, <1>21
  DEF Next, Loop

\* Containers and their processes stay in step.
LEMMA JobInvStep == IInv /\ [Next]_vars => JobInv'
<1> SUFFICES ASSUME IInv, [Next]_vars PROVE JobInv'
  OBVIOUS
<1>0. TypeOK /\ JobInv /\ CleanupInv /\ RecoverInv
  BY DEF IInv
<1> USE <1>0, RangeFacts DEF TypeOK, JobTypeOK, JobInv, Container, Status, Phase
<1>1. CASE ListStopped
  BY <1>1 DEF ListStopped, jobVars, loopVars, history
<1>2. ASSUME NEW r \in Ranges, TakeStopped(r)
      PROVE  JobInv'
  BY <1>2 DEF TakeStopped, Rest, Record, QueryFails, Fault, jobVars, loopVars, history
<1>3. CASE StoppedDone
  BY <1>3 DEF StoppedDone, jobVars, loopVars, history
<1>4. CASE MarkRow
  BY <1>4 DEF MarkRow, Record, WriteRow, QueryFails, Fault, jobVars, loopVars, history
<1>5. CASE MarkLog
  BY <1>5 DEF MarkLog, Record, LogRow, QueryFails, Fault, jobVars, loopVars, history
<1>6. CASE Block
  BY <1>6 DEF Block, EndTurn, Record, WriteRow, QueryFails, Fault, jobVars, loopVars, history
<1>7. CASE DoNotBlock
  BY <1>7 DEF DoNotBlock, Record, QueryFails, Fault, jobVars, loopVars, history
<1>8. CASE SlotsFull
  BY <1>8 DEF SlotsFull, EndTurn, NoRows, jobVars, loopVars, history
<1>9. CASE SlotFree
  BY <1>9 DEF SlotFree, Fault, jobVars, loopVars, history
<1>10. CASE RemoveStopped
  BY <1>10 DEF RemoveStopped, EndTurn, Fault, Record, Remove, jobVars, loopVars, history
<1>11. CASE Start
  BY <1>11 DEF Start, EndTurn, Launch, jobVars, loopVars, history
<1>12. CASE ListOrphans
  BY <1>12 DEF ListOrphans, Listed, NoRows, Fault, Record, jobVars, loopVars, history
<1>13. ASSUME NEW r \in Ranges, TakeOrphan(r)
       PROVE  JobInv'
  BY <1>13 DEF TakeOrphan, Rest, OrphanCall, Fault, Record, jobVars, loopVars, history
<1>14. CASE OrphansDone
  BY <1>14 DEF OrphansDone, jobVars, loopVars, history
<1>15. ASSUME NEW lost \in SUBSET Calls, NEW m \in Known(lost), ChooseNext(lost, m)
       PROVE  JobInv'
  BY <1>15 DEF ChooseNext, Lose, Fault, Frontier, jobVars, loopVars, history
<1>16. ASSUME NEW lost \in SUBSET Calls, EnsureDone(lost)
       PROVE  JobInv'
  BY <1>16 DEF EnsureDone, Lose, Fault, Record, jobVars, loopVars, history
<1>17. CASE SupervisorCrash
  BY <1>17 DEF SupervisorCrash, NoRows, Record, Fault, jobVars, loopVars, history
<1>18. ASSUME NEW r \in Ranges, WorkerStep(r) \/ WorkerFault(r)
       PROVE  JobInv'
  BY <1>18, WorkerEffect
<1>19. ASSUME NEW r \in Ranges, Age(r)
       PROVE  JobInv'
  BY <1>19 DEF Age, jobVars, loopVars, history
<1>20. CASE LiveAdvance
  BY <1>20 DEF LiveAdvance, jobVars, loopVars, history
<1>21. CASE UNCHANGED vars
  BY <1>21 DEF vars, jobVars, loopVars, history
<1> QED
  BY <1>1, <1>2, <1>3, <1>4, <1>5, <1>6, <1>7, <1>8, <1>9, <1>10, <1>11,
     <1>12, <1>13, <1>14, <1>15, <1>16, <1>17, <1>18, <1>19, <1>20, <1>21
  DEF Next, Loop

\* Containers, rows and failures come from claims only.
LEMMA OriginStep == IInv /\ [Next]_vars => OriginInv'
<1> SUFFICES ASSUME IInv, [Next]_vars PROVE OriginInv'
  OBVIOUS
<1>0. TypeOK /\ JobInv /\ OriginInv /\ CleanupInv /\ RecoverInv /\ EnsureInv
  BY DEF IInv
<1> USE <1>0, RangeFacts DEF OriginInv, TypeOK, JobTypeOK, CleanupInv, RecoverInv, EnsureInv, AtHand
<1>1. CASE ListStopped
  BY <1>1 DEF ListStopped, jobVars, loopVars, history
<1>2. ASSUME NEW r \in Ranges, TakeStopped(r)
      PROVE  OriginInv'
  BY <1>2 DEF TakeStopped, Rest, Record, QueryFails, Fault, jobVars, loopVars, history
<1>3. CASE StoppedDone
  BY <1>3 DEF StoppedDone, jobVars, loopVars, history
<1>4. CASE MarkRow
  BY <1>4 DEF MarkRow, Record, WriteRow, QueryFails, Fault, jobVars, loopVars, history
<1>5. CASE MarkLog
  BY <1>5 DEF MarkLog, Record, LogRow, QueryFails, Fault, jobVars, loopVars, history
<1>6. CASE Block
  BY <1>6 DEF Block, EndTurn, Record, WriteRow, QueryFails, Fault, jobVars, loopVars, history
<1>7. CASE DoNotBlock
  BY <1>7 DEF DoNotBlock, Record, QueryFails, Fault, jobVars, loopVars, history
<1>8. CASE SlotsFull
  BY <1>8 DEF SlotsFull, EndTurn, NoRows, jobVars, loopVars, history
<1>9. CASE SlotFree
  BY <1>9 DEF SlotFree, Fault, jobVars, loopVars, history
<1>10. CASE RemoveStopped
  BY <1>10 DEF RemoveStopped, EndTurn, Fault, Record, Remove, jobVars, loopVars, history
<1>11. CASE Start
  BY <1>11 DEF Start, EndTurn, Launch, jobVars, loopVars, history
<1>12. CASE ListOrphans
  BY <1>12 DEF ListOrphans, Listed, NoRows, Fault, Record, jobVars, loopVars, history
<1>13. ASSUME NEW r \in Ranges, TakeOrphan(r)
       PROVE  OriginInv'
  BY <1>13 DEF TakeOrphan, Rest, OrphanCall, Fault, Record, jobVars, loopVars, history
<1>14. CASE OrphansDone
  BY <1>14 DEF OrphansDone, jobVars, loopVars, history
<1>15. ASSUME NEW lost \in SUBSET Calls, NEW m \in Known(lost), ChooseNext(lost, m)
       PROVE  OriginInv'
  BY <1>15 DEF ChooseNext, Lose, Fault, Frontier, jobVars, loopVars, history
<1>16. ASSUME NEW lost \in SUBSET Calls, EnsureDone(lost)
       PROVE  OriginInv'
  BY <1>16 DEF EnsureDone, Lose, Fault, Record, jobVars, loopVars, history
<1>17. CASE SupervisorCrash
  BY <1>17 DEF SupervisorCrash, NoRows, Record, Fault, jobVars, loopVars, history
<1>18. ASSUME NEW r \in Ranges, WorkerStep(r) \/ WorkerFault(r)
       PROVE  OriginInv'
  BY <1>18, WorkerEffect DEF loopVars, Record
<1>19. ASSUME NEW r \in Ranges, Age(r)
       PROVE  OriginInv'
  BY <1>19 DEF Age, jobVars, loopVars, history
<1>20. CASE LiveAdvance
  BY <1>20 DEF LiveAdvance, jobVars, loopVars, history
<1>21. CASE UNCHANGED vars
  BY <1>21 DEF vars, jobVars, loopVars, history
<1> QED
  BY <1>1, <1>2, <1>3, <1>4, <1>5, <1>6, <1>7, <1>8, <1>9, <1>10, <1>11,
     <1>12, <1>13, <1>14, <1>15, <1>16, <1>17, <1>18, <1>19, <1>20, <1>21
  DEF Next, Loop

\* What cleanup_stopped_raw knows stays true.
LEMMA CleanupStep == IInv /\ [Next]_vars => CleanupInv'
<1> SUFFICES ASSUME IInv, [Next]_vars PROVE CleanupInv'
  OBVIOUS
<1>0. TypeOK /\ JobInv /\ OriginInv /\ CleanupInv
  BY DEF IInv
<1> USE <1>0, RangeFacts DEF CleanupInv, OriginInv, TypeOK, JobTypeOK, AtHand
<1>1. CASE ListStopped
  BY <1>1 DEF ListStopped, jobVars, loopVars, history
<1>2. ASSUME NEW r \in Ranges, TakeStopped(r)
      PROVE  CleanupInv'
  BY <1>2 DEF TakeStopped, Rest, Record, QueryFails, Fault, jobVars, loopVars, history
<1>3. CASE StoppedDone
  BY <1>3 DEF StoppedDone, jobVars, loopVars, history
<1>4. CASE MarkRow
  BY <1>4 DEF MarkRow, Record, WriteRow, QueryFails, Fault, jobVars, loopVars, history
<1>5. CASE MarkLog
  BY <1>5 DEF MarkLog, Record, LogRow, QueryFails, Fault, jobVars, loopVars, history
<1>6. CASE Block
  BY <1>6 DEF Block, EndTurn, Record, WriteRow, QueryFails, Fault, jobVars, loopVars, history
<1>7. CASE DoNotBlock
  BY <1>7 DEF DoNotBlock, Record, QueryFails, Fault, jobVars, loopVars, history
<1>8. CASE SlotsFull
  BY <1>8 DEF SlotsFull, EndTurn, NoRows, jobVars, loopVars, history
<1>9. CASE SlotFree
  BY <1>9 DEF SlotFree, Fault, jobVars, loopVars, history
<1>10. CASE RemoveStopped
  BY <1>10 DEF RemoveStopped, EndTurn, Fault, Record, Remove, jobVars, loopVars, history
<1>11. CASE Start
  BY <1>11 DEF Start, EndTurn, Launch, jobVars, loopVars, history
<1>12. CASE ListOrphans
  BY <1>12 DEF ListOrphans, Listed, NoRows, Fault, Record, jobVars, loopVars, history
<1>13. ASSUME NEW r \in Ranges, TakeOrphan(r)
       PROVE  CleanupInv'
  BY <1>13 DEF TakeOrphan, Rest, OrphanCall, Fault, Record, jobVars, loopVars, history
<1>14. CASE OrphansDone
  BY <1>14 DEF OrphansDone, jobVars, loopVars, history
<1>15. ASSUME NEW lost \in SUBSET Calls, NEW m \in Known(lost), ChooseNext(lost, m)
       PROVE  CleanupInv'
  BY <1>15 DEF ChooseNext, Lose, Fault, Frontier, jobVars, loopVars, history
<1>16. ASSUME NEW lost \in SUBSET Calls, EnsureDone(lost)
       PROVE  CleanupInv'
  BY <1>16 DEF EnsureDone, Lose, Fault, Record, jobVars, loopVars, history
<1>17. CASE SupervisorCrash
  BY <1>17 DEF SupervisorCrash, NoRows, Record, Fault, jobVars, loopVars, history
<1>18. ASSUME NEW r \in Ranges, WorkerStep(r) \/ WorkerFault(r)
       PROVE  CleanupInv'
  BY <1>18, WorkerEffect DEF loopVars, Record
<1>19. ASSUME NEW r \in Ranges, Age(r)
       PROVE  CleanupInv'
  BY <1>19 DEF Age, jobVars, loopVars, history
<1>20. CASE LiveAdvance
  BY <1>20 DEF LiveAdvance, jobVars, loopVars, history
<1>21. CASE UNCHANGED vars
  BY <1>21 DEF vars, jobVars, loopVars, history
<1> QED
  BY <1>1, <1>2, <1>3, <1>4, <1>5, <1>6, <1>7, <1>8, <1>9, <1>10, <1>11,
     <1>12, <1>13, <1>14, <1>15, <1>16, <1>17, <1>18, <1>19, <1>20, <1>21
  DEF Next, Loop

\* What recover_orphaned_raw knows stays true.
LEMMA RecoverStep == IInv /\ [Next]_vars => RecoverInv'
<1> SUFFICES ASSUME IInv, [Next]_vars PROVE RecoverInv'
  OBVIOUS
<1>0. TypeOK /\ JobInv /\ OriginInv /\ CleanupInv /\ RecoverInv
  BY DEF IInv
<1> USE <1>0, RangeFacts DEF RecoverInv, OriginInv, TypeOK, JobTypeOK, AtHand
<1>1. CASE ListStopped
  BY <1>1 DEF ListStopped, jobVars, loopVars, history
<1>2. ASSUME NEW r \in Ranges, TakeStopped(r)
      PROVE  RecoverInv'
  BY <1>2 DEF TakeStopped, Rest, Record, QueryFails, Fault, jobVars, loopVars, history
<1>3. CASE StoppedDone
  BY <1>3 DEF StoppedDone, jobVars, loopVars, history
<1>4. CASE MarkRow
  BY <1>4 DEF MarkRow, Record, WriteRow, QueryFails, Fault, jobVars, loopVars, history
<1>5. CASE MarkLog
  BY <1>5 DEF MarkLog, Record, LogRow, QueryFails, Fault, jobVars, loopVars, history
<1>6. CASE Block
  BY <1>6 DEF Block, EndTurn, Record, WriteRow, QueryFails, Fault, jobVars, loopVars, history
<1>7. CASE DoNotBlock
  BY <1>7 DEF DoNotBlock, Record, QueryFails, Fault, jobVars, loopVars, history
<1>8. CASE SlotsFull
  BY <1>8 DEF SlotsFull, EndTurn, NoRows, jobVars, loopVars, history
<1>9. CASE SlotFree
  BY <1>9 DEF SlotFree, Fault, jobVars, loopVars, history
<1>10. CASE RemoveStopped
  BY <1>10 DEF RemoveStopped, EndTurn, Fault, Record, Remove, jobVars, loopVars, history
<1>11. CASE Start
  BY <1>11 DEF Start, EndTurn, Launch, jobVars, loopVars, history
<1>12. CASE ListOrphans
  BY <1>12 DEF ListOrphans, Listed, NoRows, Fault, Record, jobVars, loopVars, history
<1>13. ASSUME NEW r \in Ranges, TakeOrphan(r)
       PROVE  RecoverInv'
  BY <1>13 DEF TakeOrphan, Rest, OrphanCall, Fault, Record, jobVars, loopVars, history
<1>14. CASE OrphansDone
  BY <1>14 DEF OrphansDone, jobVars, loopVars, history
<1>15. ASSUME NEW lost \in SUBSET Calls, NEW m \in Known(lost), ChooseNext(lost, m)
       PROVE  RecoverInv'
  BY <1>15 DEF ChooseNext, Lose, Fault, Frontier, jobVars, loopVars, history
<1>16. ASSUME NEW lost \in SUBSET Calls, EnsureDone(lost)
       PROVE  RecoverInv'
  BY <1>16 DEF EnsureDone, Lose, Fault, Record, jobVars, loopVars, history
<1>17. CASE SupervisorCrash
  BY <1>17 DEF SupervisorCrash, NoRows, Record, Fault, jobVars, loopVars, history
<1>18. ASSUME NEW r \in Ranges, WorkerStep(r) \/ WorkerFault(r)
       PROVE  RecoverInv'
  BY <1>18, WorkerEffect DEF loopVars, Record
<1>19. ASSUME NEW r \in Ranges, Age(r)
       PROVE  RecoverInv'
  BY <1>19 DEF Age, jobVars, loopVars, history
<1>20. CASE LiveAdvance
  BY <1>20 DEF LiveAdvance, jobVars, loopVars, history
<1>21. CASE UNCHANGED vars
  BY <1>21 DEF vars, jobVars, loopVars, history
<1> QED
  BY <1>1, <1>2, <1>3, <1>4, <1>5, <1>6, <1>7, <1>8, <1>9, <1>10, <1>11,
     <1>12, <1>13, <1>14, <1>15, <1>16, <1>17, <1>18, <1>19, <1>20, <1>21
  DEF Next, Loop

\* The row written before a container is removed stays.
LEMMA RowStep == IInv /\ [Next]_vars => RowInv'
<1> SUFFICES ASSUME IInv, [Next]_vars PROVE RowInv'
  OBVIOUS
<1>0. TypeOK /\ JobInv /\ OriginInv /\ CleanupInv /\ RecoverInv /\ EnsureInv /\ RowInv
  BY DEF IInv
<1> USE <1>0, RangeFacts DEF RowInv, CleanupInv, RecoverInv, EnsureInv, TypeOK, JobTypeOK, AtHand
<1>1. CASE ListStopped
  BY <1>1 DEF ListStopped, jobVars, loopVars, history
<1>2. ASSUME NEW r \in Ranges, TakeStopped(r)
      PROVE  RowInv'
  BY <1>2 DEF TakeStopped, Rest, Record, QueryFails, Fault, jobVars, loopVars, history
<1>3. CASE StoppedDone
  BY <1>3 DEF StoppedDone, jobVars, loopVars, history
<1>4. CASE MarkRow
  BY <1>4 DEF MarkRow, Record, WriteRow, QueryFails, Fault, jobVars, loopVars, history
<1>5. CASE MarkLog
  BY <1>5 DEF MarkLog, Record, LogRow, QueryFails, Fault, jobVars, loopVars, history
<1>6. CASE Block
  BY <1>6 DEF Block, EndTurn, Record, WriteRow, QueryFails, Fault, jobVars, loopVars, history
<1>7. CASE DoNotBlock
  BY <1>7 DEF DoNotBlock, Record, QueryFails, Fault, jobVars, loopVars, history
<1>8. CASE SlotsFull
  BY <1>8 DEF SlotsFull, EndTurn, NoRows, jobVars, loopVars, history
<1>9. CASE SlotFree
  BY <1>9 DEF SlotFree, Fault, jobVars, loopVars, history
<1>10. CASE RemoveStopped
  BY <1>10 DEF RemoveStopped, EndTurn, Fault, Record, Remove, jobVars, loopVars, history
<1>11. CASE Start
  BY <1>11 DEF Start, EndTurn, Launch, jobVars, loopVars, history
<1>12. CASE ListOrphans
  BY <1>12 DEF ListOrphans, Listed, NoRows, Fault, Record, jobVars, loopVars, history
<1>13. ASSUME NEW r \in Ranges, TakeOrphan(r)
       PROVE  RowInv'
  BY <1>13 DEF TakeOrphan, Rest, OrphanCall, Fault, Record, jobVars, loopVars, history
<1>14. CASE OrphansDone
  BY <1>14 DEF OrphansDone, jobVars, loopVars, history
<1>15. ASSUME NEW lost \in SUBSET Calls, NEW m \in Known(lost), ChooseNext(lost, m)
       PROVE  RowInv'
  BY <1>15 DEF ChooseNext, Lose, Fault, Frontier, jobVars, loopVars, history
<1>16. ASSUME NEW lost \in SUBSET Calls, EnsureDone(lost)
       PROVE  RowInv'
  BY <1>16 DEF EnsureDone, Lose, Fault, Record, jobVars, loopVars, history
<1>17. CASE SupervisorCrash
  BY <1>17 DEF SupervisorCrash, NoRows, Record, Fault, jobVars, loopVars, history
<1>18. ASSUME NEW r \in Ranges, WorkerStep(r) \/ WorkerFault(r)
       PROVE  RowInv'
  BY <1>18, WorkerEffect DEF loopVars, Record
<1>19. ASSUME NEW r \in Ranges, Age(r)
       PROVE  RowInv'
  BY <1>19 DEF Age, jobVars, loopVars, history
<1>20. CASE LiveAdvance
  BY <1>20 DEF LiveAdvance, jobVars, loopVars, history
<1>21. CASE UNCHANGED vars
  BY <1>21 DEF vars, jobVars, loopVars, history
<1> QED
  BY <1>1, <1>2, <1>3, <1>4, <1>5, <1>6, <1>7, <1>8, <1>9, <1>10, <1>11,
     <1>12, <1>13, <1>14, <1>15, <1>16, <1>17, <1>18, <1>19, <1>20, <1>21
  DEF Next, Loop

\* The retries counted stay counted.
LEMMA RetryStep == IInv /\ [Next]_vars => RetryInv'
<1> SUFFICES ASSUME IInv, [Next]_vars PROVE RetryInv'
  OBVIOUS
<1>0. TypeOK /\ JobInv /\ OriginInv /\ CleanupInv /\ RecoverInv /\ EnsureInv /\ RetryInv
  BY DEF IInv
<1> USE <1>0, RangeFacts DEF RetryInv, CleanupInv, RecoverInv, EnsureInv, TypeOK, JobTypeOK, AtHand, Exhausted
<1>1. CASE ListStopped
  BY <1>1 DEF ListStopped, jobVars, loopVars, history
<1>2. ASSUME NEW r \in Ranges, TakeStopped(r)
      PROVE  RetryInv'
  BY <1>2 DEF TakeStopped, Rest, Record, QueryFails, Fault, jobVars, loopVars, history
<1>3. CASE StoppedDone
  BY <1>3 DEF StoppedDone, jobVars, loopVars, history
<1>4. CASE MarkRow
  BY <1>4 DEF MarkRow, Record, WriteRow, QueryFails, Fault, jobVars, loopVars, history
<1>5. CASE MarkLog
  BY <1>5 DEF MarkLog, Record, LogRow, QueryFails, Fault, jobVars, loopVars, history
<1>6. CASE Block
  BY <1>6 DEF Block, EndTurn, Record, WriteRow, QueryFails, Fault, jobVars, loopVars, history
<1>7. CASE DoNotBlock
  BY <1>7 DEF DoNotBlock, Record, QueryFails, Fault, jobVars, loopVars, history
<1>8. CASE SlotsFull
  BY <1>8 DEF SlotsFull, EndTurn, NoRows, jobVars, loopVars, history
<1>9. CASE SlotFree
  BY <1>9 DEF SlotFree, Fault, jobVars, loopVars, history
<1>10. CASE RemoveStopped
  BY <1>10 DEF RemoveStopped, EndTurn, Fault, Record, Remove, jobVars, loopVars, history
<1>11. CASE Start
  BY <1>11 DEF Start, EndTurn, Launch, jobVars, loopVars, history
<1>12. CASE ListOrphans
  BY <1>12 DEF ListOrphans, Listed, NoRows, Fault, Record, jobVars, loopVars, history
<1>13. ASSUME NEW r \in Ranges, TakeOrphan(r)
       PROVE  RetryInv'
  BY <1>13 DEF TakeOrphan, Rest, OrphanCall, Fault, Record, jobVars, loopVars, history
<1>14. CASE OrphansDone
  BY <1>14 DEF OrphansDone, jobVars, loopVars, history
<1>15. ASSUME NEW lost \in SUBSET Calls, NEW m \in Known(lost), ChooseNext(lost, m)
       PROVE  RetryInv'
  BY <1>15 DEF ChooseNext, Lose, Fault, Frontier, jobVars, loopVars, history
<1>16. ASSUME NEW lost \in SUBSET Calls, EnsureDone(lost)
       PROVE  RetryInv'
  BY <1>16 DEF EnsureDone, Lose, Fault, Record, jobVars, loopVars, history
<1>17. CASE SupervisorCrash
  BY <1>17 DEF SupervisorCrash, NoRows, Record, Fault, jobVars, loopVars, history
<1>18. ASSUME NEW r \in Ranges, WorkerStep(r) \/ WorkerFault(r)
       PROVE  RetryInv'
  <2>1. UNCHANGED <<ctx, at, cur, unlucky>>
    BY <1>18, WorkerEffect DEF loopVars
  <2>2. CASE cur = r
    <3>1. container[r] = "up" /\ container'[r] # "none"
      BY <1>18, WorkerEffect
    <3> QED
      BY <2>1, <2>2, <3>1
  <2>3. CASE cur # r
    <3> SUFFICES ASSUME at \in {"slots", "swap", "start"}
                 PROVE  RetryInv'
      BY <2>1
    <3>1. /\ container'[cur] = container[cur] /\ status'[cur] = status[cur]
          /\ failures'[cur] = failures[cur] /\ (cur \in stale' <=> cur \in stale)
      BY <1>18, <2>3, WorkerEffect
    <3> QED
      BY <2>1, <3>1
  <2> QED
    BY <2>2, <2>3
<1>19. ASSUME NEW r \in Ranges, Age(r)
       PROVE  RetryInv'
  BY <1>19 DEF Age, jobVars, loopVars, history
<1>20. CASE LiveAdvance
  BY <1>20 DEF LiveAdvance, jobVars, loopVars, history
<1>21. CASE UNCHANGED vars
  BY <1>21 DEF vars, jobVars, loopVars, history
<1> QED
  BY <1>1, <1>2, <1>3, <1>4, <1>5, <1>6, <1>7, <1>8, <1>9, <1>10, <1>11,
     <1>12, <1>13, <1>14, <1>15, <1>16, <1>17, <1>18, <1>19, <1>20, <1>21
  DEF Next, Loop

\* No claim is forgotten.
LEMMA ForgottenStep == IInv /\ [Next]_vars => NothingForgotten'
<1> SUFFICES ASSUME IInv, [Next]_vars PROVE NothingForgotten'
  OBVIOUS
<1>0. TypeOK /\ JobInv /\ OriginInv /\ CleanupInv /\ RecoverInv /\ EnsureInv /\ RowInv /\ NothingForgotten
  BY DEF IInv
<1> USE <1>0, RangeFacts DEF NothingForgotten, RowInv, CleanupInv, RecoverInv, EnsureInv, TypeOK, JobTypeOK, AtHand
<1>1. CASE ListStopped
  BY <1>1 DEF ListStopped, jobVars, loopVars, history
<1>2. ASSUME NEW r \in Ranges, TakeStopped(r)
      PROVE  NothingForgotten'
  BY <1>2 DEF TakeStopped, Rest, Record, QueryFails, Fault, jobVars, loopVars, history
<1>3. CASE StoppedDone
  BY <1>3 DEF StoppedDone, jobVars, loopVars, history
<1>4. CASE MarkRow
  BY <1>4 DEF MarkRow, Record, WriteRow, QueryFails, Fault, jobVars, loopVars, history
<1>5. CASE MarkLog
  BY <1>5 DEF MarkLog, Record, LogRow, QueryFails, Fault, jobVars, loopVars, history
<1>6. CASE Block
  BY <1>6 DEF Block, EndTurn, Record, WriteRow, QueryFails, Fault, jobVars, loopVars, history
<1>7. CASE DoNotBlock
  BY <1>7 DEF DoNotBlock, Record, QueryFails, Fault, jobVars, loopVars, history
<1>8. CASE SlotsFull
  BY <1>8 DEF SlotsFull, EndTurn, NoRows, jobVars, loopVars, history
<1>9. CASE SlotFree
  BY <1>9 DEF SlotFree, Fault, jobVars, loopVars, history
<1>10. CASE RemoveStopped
  BY <1>10 DEF RemoveStopped, EndTurn, Fault, Record, Remove, jobVars, loopVars, history
<1>11. CASE Start
  BY <1>11 DEF Start, EndTurn, Launch, jobVars, loopVars, history
<1>12. CASE ListOrphans
  BY <1>12 DEF ListOrphans, Listed, NoRows, Fault, Record, jobVars, loopVars, history
<1>13. ASSUME NEW r \in Ranges, TakeOrphan(r)
       PROVE  NothingForgotten'
  BY <1>13 DEF TakeOrphan, Rest, OrphanCall, Fault, Record, jobVars, loopVars, history
<1>14. CASE OrphansDone
  BY <1>14 DEF OrphansDone, jobVars, loopVars, history
<1>15. ASSUME NEW lost \in SUBSET Calls, NEW m \in Known(lost), ChooseNext(lost, m)
       PROVE  NothingForgotten'
  BY <1>15 DEF ChooseNext, Lose, Fault, Frontier, jobVars, loopVars, history
<1>16. ASSUME NEW lost \in SUBSET Calls, EnsureDone(lost)
       PROVE  NothingForgotten'
  BY <1>16 DEF EnsureDone, Lose, Fault, Record, jobVars, loopVars, history
<1>17. CASE SupervisorCrash
  BY <1>17 DEF SupervisorCrash, NoRows, Record, Fault, jobVars, loopVars, history
<1>18. ASSUME NEW r \in Ranges, WorkerStep(r) \/ WorkerFault(r)
       PROVE  NothingForgotten'
  BY <1>18, WorkerEffect DEF loopVars, Record
<1>19. ASSUME NEW r \in Ranges, Age(r)
       PROVE  NothingForgotten'
  BY <1>19 DEF Age, jobVars, loopVars, history
<1>20. CASE LiveAdvance
  BY <1>20 DEF LiveAdvance, jobVars, loopVars, history
<1>21. CASE UNCHANGED vars
  BY <1>21 DEF vars, jobVars, loopVars, history
<1> QED
  BY <1>1, <1>2, <1>3, <1>4, <1>5, <1>6, <1>7, <1>8, <1>9, <1>10, <1>11,
     <1>12, <1>13, <1>14, <1>15, <1>16, <1>17, <1>18, <1>19, <1>20, <1>21
  DEF Next, Loop

\* What ensure_raw_workers knows of its new range stays true.
LEMMA EnsureStep == IInv /\ [Next]_vars => EnsureInv'
<1> SUFFICES ASSUME IInv, [Next]_vars PROVE EnsureInv'
  OBVIOUS
<1>0. TypeOK /\ JobInv /\ OriginInv /\ EnsureInv /\ NothingForgotten
  BY DEF IInv
<1> USE <1>0, RangeFacts DEF EnsureInv, OriginInv, TypeOK, JobTypeOK, AtHand
<1>1. CASE ListStopped
  BY <1>1 DEF ListStopped, jobVars, loopVars, history
<1>2. ASSUME NEW r \in Ranges, TakeStopped(r)
      PROVE  EnsureInv'
  BY <1>2 DEF TakeStopped, Rest, Record, QueryFails, Fault, jobVars, loopVars, history
<1>3. CASE StoppedDone
  BY <1>3 DEF StoppedDone, jobVars, loopVars, history
<1>4. CASE MarkRow
  BY <1>4 DEF MarkRow, Record, WriteRow, QueryFails, Fault, jobVars, loopVars, history
<1>5. CASE MarkLog
  BY <1>5 DEF MarkLog, Record, LogRow, QueryFails, Fault, jobVars, loopVars, history
<1>6. CASE Block
  BY <1>6 DEF Block, EndTurn, Record, WriteRow, QueryFails, Fault, jobVars, loopVars, history
<1>7. CASE DoNotBlock
  BY <1>7 DEF DoNotBlock, Record, QueryFails, Fault, jobVars, loopVars, history
<1>8. CASE SlotsFull
  BY <1>8 DEF SlotsFull, EndTurn, NoRows, jobVars, loopVars, history
<1>9. CASE SlotFree
  BY <1>9 DEF SlotFree, Fault, jobVars, loopVars, history
<1>10. CASE RemoveStopped
  BY <1>10 DEF RemoveStopped, EndTurn, Fault, Record, Remove, jobVars, loopVars, history
<1>11. CASE Start
  BY <1>11 DEF Start, EndTurn, Launch, jobVars, loopVars, history
<1>12. CASE ListOrphans
  BY <1>12 DEF ListOrphans, Listed, NoRows, Fault, Record, jobVars, loopVars, history
<1>13. ASSUME NEW r \in Ranges, TakeOrphan(r)
       PROVE  EnsureInv'
  BY <1>13 DEF TakeOrphan, Rest, OrphanCall, Fault, Record, jobVars, loopVars, history
<1>14. CASE OrphansDone
  BY <1>14 DEF OrphansDone, jobVars, loopVars, history
<1>15. ASSUME NEW lost \in SUBSET Calls, NEW m \in Known(lost), ChooseNext(lost, m)
       PROVE  EnsureInv'
  <2>1. m \in 1..Top /\ cur' = NextRange(m) /\ cur' \in Ranges /\ To(cur') = m - 1
    BY <1>15, KnownFacts DEF ChooseNext, Frontier
  <2>2. UNCHANGED <<jobVars, ctx, liveHead, claimed, unlucky, origin>> /\ at' = "start"
    BY <1>15 DEF ChooseNext
  <2>3. m <= liveHead
    BY <2>1 DEF Known
  <2>4. ASSUME claimed # {}
        PROVE  origin <= m \/ \E q \in claimed : From(q) = m
    <3>1. CASE m = liveHead
      BY <2>4, <3>1
    <3>2. CASE m # liveHead
      <4>1. PICK q \in Ranges : From(q) = m /\ (container[q] # "none" \/ status[q] # "none")
        BY <3>2 DEF Known
      <4> QED
        BY <4>1
    <3> QED
      BY <3>1, <3>2
  <2>5. ASSUME cur' \notin misread'
        PROVE  \A q \in claimed \ unlucky : m <= From(q)
    <3>1. ASSUME NEW k \in Known({})
          PROVE  m <= k
      BY <1>15, <2>1, <2>5, <3>1, KnownFacts DEF ChooseNext
    <3>2. ASSUME NEW q \in claimed \ unlucky
          PROVE  From(q) \in Known({})
      BY <3>2 DEF Known, NothingForgotten
    <3> QED
      BY <3>1, <3>2
  <2>6. cur' \notin claimed \ (unlucky \cup misread')
    <3> SUFFICES ASSUME cur' \in claimed, cur' \notin unlucky, cur' \notin misread'
                 PROVE  FALSE
      OBVIOUS
    <3>1. m <= From(cur')
      BY <2>5
    <3> QED
      BY <2>1, <3>1
  <2>7. ASSUME unlucky = {}, cur' \notin misread', NEW r \in claimed
        PROVE  To(cur') < From(r)
    BY <2>1, <2>5, <2>7
  <2> QED
    BY <2>1, <2>2, <2>3, <2>4, <2>6, <2>7 DEF jobVars
<1>16. ASSUME NEW lost \in SUBSET Calls, EnsureDone(lost)
       PROVE  EnsureInv'
  BY <1>16 DEF EnsureDone, Lose, Fault, Record, jobVars, loopVars, history
<1>17. CASE SupervisorCrash
  BY <1>17 DEF SupervisorCrash, NoRows, Record, Fault, jobVars, loopVars, history
<1>18. ASSUME NEW r \in Ranges, WorkerStep(r) \/ WorkerFault(r)
       PROVE  EnsureInv'
  BY <1>18, WorkerEffect DEF loopVars, Record
<1>19. ASSUME NEW r \in Ranges, Age(r)
       PROVE  EnsureInv'
  BY <1>19 DEF Age, jobVars, loopVars, history
<1>20. CASE LiveAdvance
  BY <1>20 DEF LiveAdvance, jobVars, loopVars, history
<1>21. CASE UNCHANGED vars
  BY <1>21 DEF vars, jobVars, loopVars, history
<1> QED
  BY <1>1, <1>2, <1>3, <1>4, <1>5, <1>6, <1>7, <1>8, <1>9, <1>10, <1>11,
     <1>12, <1>13, <1>14, <1>15, <1>16, <1>17, <1>18, <1>19, <1>20, <1>21
  DEF Next, Loop

\* Only start_raw_range makes a container run.
LEMMA OnlyStart == IInv /\ [Next]_vars => Start \/ Active' \subseteq Active
<1> SUFFICES ASSUME IInv, [Next]_vars, ~Start PROVE Active' \subseteq Active
  OBVIOUS
<1>0. TypeOK /\ JobInv
  BY DEF IInv
<1> USE <1>0 DEF TypeOK, JobTypeOK
<1>1. CASE RemoveStopped
  BY <1>1 DEF RemoveStopped, EndTurn, Remove, Active, jobVars
<1>2. ASSUME NEW r \in Ranges, WorkerStep(r) \/ WorkerFault(r)
      PROVE  Active' \subseteq Active
  BY <1>2, WorkerEffect
<1>3. CASE UNCHANGED container
  BY <1>3 DEF Active
<1>4. ASSUME NEW r \in Ranges, TakeStopped(r) \/ TakeOrphan(r) \/ Age(r)
      PROVE  UNCHANGED container
  BY <1>4 DEF TakeStopped, Rest, Record, TakeOrphan, Age, jobVars
<1>5. ASSUME NEW lost \in SUBSET Calls,
             EnsureDone(lost) \/ \E m \in Known(lost) : ChooseNext(lost, m)
      PROVE  UNCHANGED container
  BY <1>5 DEF ChooseNext, EnsureDone, jobVars
<1>6. ASSUME \/ ListStopped \/ StoppedDone \/ MarkRow \/ MarkLog \/ Block \/ DoNotBlock
             \/ SlotsFull \/ SlotFree \/ ListOrphans \/ OrphansDone
             \/ SupervisorCrash \/ LiveAdvance \/ UNCHANGED vars
      PROVE  UNCHANGED container
  BY <1>6 DEF ListStopped, StoppedDone, MarkRow, MarkLog, Block, DoNotBlock, SlotsFull,
              SlotFree, ListOrphans, OrphansDone, SupervisorCrash,
              LiveAdvance, vars, jobVars
<1> QED
  BY <1>1, <1>2, <1>3, <1>4, <1>5, <1>6 DEF Next, Loop

\* Failed counts are never taken back.
LEMMA MiscountsGrow == IInv /\ [Next]_vars => miscounts <= miscounts'
<1> SUFFICES ASSUME IInv, [Next]_vars PROVE miscounts <= miscounts'
  OBVIOUS
<1>0. miscounts \in Nat
  BY RangeFacts DEF IInv, TypeOK
<1>1. CASE SlotFree
  BY <1>0, <1>1 DEF SlotFree
<1>2. ASSUME NEW lost \in SUBSET Calls, NEW m \in Known(lost), ChooseNext(lost, m)
      PROVE  miscounts <= miscounts'
  BY <1>0, <1>2 DEF ChooseNext
<1>3. CASE UNCHANGED miscounts
  BY <1>0, <1>3
<1>4. ASSUME NEW r \in Ranges, TakeStopped(r) \/ TakeOrphan(r) \/ Age(r)
                                \/ WorkerStep(r) \/ WorkerFault(r)
      PROVE  UNCHANGED miscounts
  BY <1>4 DEF TakeStopped, TakeOrphan, Age, WorkerStep, WorkerFault, Elsewhere, Record, history
<1>5. ASSUME NEW lost \in SUBSET Calls, EnsureDone(lost)
      PROVE  UNCHANGED miscounts
  BY <1>5 DEF EnsureDone, Record
<1>6. ASSUME \/ ListStopped \/ StoppedDone \/ MarkRow \/ MarkLog \/ Block \/ DoNotBlock
             \/ SlotsFull \/ RemoveStopped \/ Start \/ ListOrphans \/ OrphansDone
             \/ SupervisorCrash \/ LiveAdvance \/ UNCHANGED vars
      PROVE  UNCHANGED miscounts
  BY <1>6 DEF ListStopped, StoppedDone, MarkRow, MarkLog, Block, DoNotBlock, SlotsFull,
              RemoveStopped, Start, ListOrphans, OrphansDone, SupervisorCrash,
              LiveAdvance, vars, history, Record
<1> QED
  BY <1>1, <1>2, <1>3, <1>4, <1>5, <1>6 DEF Next, Loop

\* The cap holds, and a slot counted as free stays free until it is used.
LEMMA SlotStep == IInv /\ [Next]_vars => SlotInv' /\ WorkerCap'
<1> SUFFICES ASSUME IInv, [Next]_vars PROVE SlotInv' /\ WorkerCap'
  OBVIOUS
<1>0. TypeOK /\ TypeOK' /\ JobInv /\ SlotInv /\ WorkerCap
  BY TypeStep DEF IInv
<1>r. RecoverInv
  BY DEF IInv
<1>t. miscounts \in Nat /\ miscounts' \in Nat
  BY <1>0, RangeFacts DEF TypeOK
<1>m. miscounts <= miscounts'
  BY <1>t, MiscountsGrow
<1>1. CASE Start
  <2>1. IsFiniteSet(Active)
    <3>1. Active \in SUBSET Ranges
      BY DEF Active
    <3> QED
      BY <3>1, SupervisorAssumption, FS_Subset
  <2>2. Cardinality(Active) < RAW_WORKERS + miscounts /\ at' = "next"
    BY <1>0, <1>1 DEF Start, SlotInv
  <2>3. Active' \subseteq Active \cup {cur}
    BY <1>0, <1>1 DEF Start, Launch, Active, TypeOK, JobTypeOK, jobVars
  <2>4. /\ Cardinality(Active') <= Cardinality(Active) + 1
        /\ Cardinality(Active) \in Nat /\ Cardinality(Active') \in Nat
    <3> HIDE DEF Active
    <3>1. Cardinality(Active) \in Nat
      BY <2>1, FS_CardinalityType
    <3>2. /\ IsFiniteSet(Active \cup {cur})
          /\ Cardinality(Active \cup {cur}) =
               IF cur \in Active THEN Cardinality(Active) ELSE Cardinality(Active) + 1
      BY <2>1, FS_AddElement
    <3>3. IsFiniteSet(Active') /\ Cardinality(Active') <= Cardinality(Active \cup {cur})
      BY <2>3, <3>2, FS_Subset
    <3>4. Cardinality(Active') \in Nat
      BY <3>3, FS_CardinalityType
    <3> QED
      BY <3>1, <3>2, <3>3, <3>4
  <2> QED
    BY <1>t, <1>m, <2>2, <2>4, RangeFacts DEF SlotInv, WorkerCap
<1>2. CASE ~Start
  <2>1. Active' \subseteq Active
    BY <1>2, OnlyStart
  <2>2. /\ Cardinality(Active') \in Nat /\ Cardinality(Active) \in Nat
        /\ Cardinality(Active') <= Cardinality(Active)
    BY <2>1, ActiveShrinks
  <2>3. WorkerCap'
    BY <1>0, <1>t, <1>m, <2>2, RangeFacts DEF WorkerCap
  <2>4. at' \in {"swap", "start"} =>
          at \in {"swap", "start"} \/ Cardinality(Active) < RAW_WORKERS + miscounts'
    <3> SUFFICES ASSUME at' \in {"swap", "start"}, at \notin {"swap", "start"}
                 PROVE  Cardinality(Active) < RAW_WORKERS + miscounts'
      OBVIOUS
    <3>1. CASE SlotFree
      BY <1>0, <1>t, <2>2, <3>1, RangeFacts DEF SlotFree, raw_worker_slots_full, WorkerCap
    <3>2. ASSUME NEW lost \in SUBSET Calls, NEW m \in Known(lost), ChooseNext(lost, m)
          PROVE  Cardinality(Active) < RAW_WORKERS + miscounts'
      BY <1>0, <1>t, <2>2, <3>2, RangeFacts DEF ChooseNext, raw_worker_slots_full, WorkerCap
    <3>3. ASSUME NEW r \in Ranges, \/ TakeStopped(r) \/ Age(r)
                                    \/ WorkerStep(r) \/ WorkerFault(r)
          PROVE  FALSE
      BY <3>3 DEF TakeStopped, Age, WorkerStep, WorkerFault, Elsewhere, loopVars
    <3>4. ASSUME NEW r \in Ranges, TakeOrphan(r)
          PROVE  FALSE
      BY <1>r, <3>4 DEF TakeOrphan, OrphanCall, RecoverInv
    <3>5. ASSUME NEW lost \in SUBSET Calls, EnsureDone(lost)
          PROVE  FALSE
      BY <3>5 DEF EnsureDone
    <3>6. ASSUME \/ ListStopped \/ StoppedDone \/ MarkRow \/ MarkLog \/ Block
                 \/ DoNotBlock \/ SlotsFull \/ RemoveStopped \/ ListOrphans
                 \/ OrphansDone \/ SupervisorCrash \/ LiveAdvance
                 \/ UNCHANGED vars
          PROVE  FALSE
      BY <3>6 DEF ListStopped, StoppedDone, MarkRow, MarkLog, Block, DoNotBlock, SlotsFull,
                  RemoveStopped, ListOrphans, OrphansDone, SupervisorCrash,
                  LiveAdvance, vars, loopVars
    <3> QED
      BY <1>2, <3>1, <3>2, <3>3, <3>4, <3>5, <3>6 DEF Next, Loop
  <2> QED
    BY <1>0, <1>t, <1>m, <2>2, <2>3, <2>4, RangeFacts DEF SlotInv
<1> QED
  BY <1>1, <1>2

\* The claims keep tiling the history.
LEMMA TileStep == IInv /\ [Next]_vars => ClaimsTile'
<1> SUFFICES ASSUME IInv, [Next]_vars PROVE ClaimsTile'
  OBVIOUS
<1>0. TypeOK /\ JobInv /\ OriginInv /\ EnsureInv /\ ClaimsTile
  BY DEF IInv
<1> USE <1>0, RangeFacts DEF ClaimsTile, TypeOK
<1>1. CASE ListStopped
  BY <1>1 DEF ListStopped, jobVars, loopVars, history
<1>2. ASSUME NEW r \in Ranges, TakeStopped(r)
      PROVE  ClaimsTile'
  BY <1>2 DEF TakeStopped, Rest, Record, QueryFails, Fault, jobVars, loopVars, history
<1>3. CASE StoppedDone
  BY <1>3 DEF StoppedDone, jobVars, loopVars, history
<1>4. CASE MarkRow
  BY <1>4 DEF MarkRow, Record, WriteRow, QueryFails, Fault, jobVars, loopVars, history
<1>5. CASE MarkLog
  BY <1>5 DEF MarkLog, Record, LogRow, QueryFails, Fault, jobVars, loopVars, history
<1>6. CASE Block
  BY <1>6 DEF Block, EndTurn, Record, WriteRow, QueryFails, Fault, jobVars, loopVars, history
<1>7. CASE DoNotBlock
  BY <1>7 DEF DoNotBlock, Record, QueryFails, Fault, jobVars, loopVars, history
<1>8. CASE SlotsFull
  BY <1>8 DEF SlotsFull, EndTurn, NoRows, jobVars, loopVars, history
<1>9. CASE SlotFree
  BY <1>9 DEF SlotFree, Fault, jobVars, loopVars, history
<1>10. CASE RemoveStopped
  BY <1>10 DEF RemoveStopped, EndTurn, Fault, Record, Remove, jobVars, loopVars, history
<1>11. CASE Start
  <2>1. CASE ctx # "ensure"
    BY <1>11, <2>1 DEF Start
  <2>2. CASE ctx = "ensure"
    <3>1. /\ claimed' = claimed \cup {cur} /\ UNCHANGED <<unlucky, misread>>
          /\ cur \in Ranges /\ origin \in Nat
          /\ origin' = IF claimed = {} THEN To(cur) + 1 ELSE origin
      BY <1>11, <2>2 DEF Start
    <3>2. ASSUME NEW r \in claimed', NEW b \in From(r)..(origin' - 1)
          PROVE  \E q \in claimed' : From(q) <= b /\ b <= To(q)
      <4>1. CASE r # cur
        BY <3>1, <3>2, <4>1
      <4>2. CASE r = cur /\ b <= To(cur)
        BY <3>1, <3>2, <4>2
      <4>3. CASE r = cur /\ b > To(cur)
        <5>1. claimed # {} /\ origin' = origin /\ origin > To(cur) + 1
          BY <3>1, <3>2, <4>3
        <5>2. PICK q \in claimed : From(q) = To(cur) + 1
          BY <1>11, <2>2, <3>1, <5>1 DEF EnsureInv, Start
        <5>3. b \in From(q)..(origin - 1)
          BY <3>1, <3>2, <4>3, <5>1, <5>2
        <5> QED
          BY <3>1, <5>2, <5>3
      <4> QED
        BY <3>1, <3>2, <4>1, <4>2, <4>3
    <3>3. ASSUME unlucky' = {}, NEW r \in claimed' \ misread', NEW s \in claimed' \ misread', r # s
          PROVE  To(r) < From(s) \/ To(s) < From(r)
      BY <1>11, <2>2, <3>1, <3>3 DEF EnsureInv, Start
    <3> QED
      BY <3>2, <3>3
  <2> QED
    BY <2>1, <2>2
<1>12. CASE ListOrphans
  BY <1>12 DEF ListOrphans, Listed, NoRows, Fault, Record, jobVars, loopVars, history
<1>13. ASSUME NEW r \in Ranges, TakeOrphan(r)
       PROVE  ClaimsTile'
  BY <1>13 DEF TakeOrphan, Rest, OrphanCall, Fault, Record, jobVars, loopVars, history
<1>14. CASE OrphansDone
  BY <1>14 DEF OrphansDone, jobVars, loopVars, history
<1>15. ASSUME NEW lost \in SUBSET Calls, NEW m \in Known(lost), ChooseNext(lost, m)
       PROVE  ClaimsTile'
  BY <1>15 DEF ChooseNext, Lose, Fault, Frontier, jobVars, loopVars, history
<1>16. ASSUME NEW lost \in SUBSET Calls, EnsureDone(lost)
       PROVE  ClaimsTile'
  BY <1>16 DEF EnsureDone, Lose, Fault, Record, jobVars, loopVars, history
<1>17. CASE SupervisorCrash
  BY <1>17 DEF SupervisorCrash, NoRows, Record, Fault, jobVars, loopVars, history
<1>18. ASSUME NEW r \in Ranges, WorkerStep(r) \/ WorkerFault(r)
       PROVE  ClaimsTile'
  BY <1>18, WorkerEffect DEF loopVars, Record
<1>19. ASSUME NEW r \in Ranges, Age(r)
       PROVE  ClaimsTile'
  BY <1>19 DEF Age, jobVars, loopVars, history
<1>20. CASE LiveAdvance
  BY <1>20 DEF LiveAdvance, jobVars, loopVars, history
<1>21. CASE UNCHANGED vars
  BY <1>21 DEF vars, jobVars, loopVars, history
<1> QED
  BY <1>1, <1>2, <1>3, <1>4, <1>5, <1>6, <1>7, <1>8, <1>9, <1>10, <1>11,
     <1>12, <1>13, <1>14, <1>15, <1>16, <1>17, <1>18, <1>19, <1>20, <1>21
  DEF Next, Loop

-----------------------------------------------------------------------------
(* The theorems.                                                           *)

LEMMA InitIInv == Init => IInv
<1> SUFFICES ASSUME Init PROVE IInv
  OBVIOUS
<1> USE RangeFacts DEF Init, JobInit
<1>1. TypeOK
  BY DEF TypeOK, JobTypeOK, Container, Status, Phase, Off, NoRows
<1>2. JobInv /\ OriginInv
  BY DEF JobInv, OriginInv, Off
<1>3. CleanupInv /\ RecoverInv /\ EnsureInv /\ RowInv /\ RetryInv /\ SlotInv
  BY DEF CleanupInv, RecoverInv, EnsureInv, RowInv, RetryInv, SlotInv, AtHand
<1>4. Active = {}
  BY DEF Active
<1>5. WorkerCap
  BY <1>4, FS_EmptySet DEF WorkerCap
<1>6. NothingForgotten /\ ClaimsTile
  BY DEF NothingForgotten, ClaimsTile
<1> QED
  BY <1>1, <1>2, <1>3, <1>5, <1>6 DEF IInv

\* What the loop remembers of its earlier reads (the lists, the range at hand, the
\* free slot, the retries counted, the place below the lowest claim) stays true
\* through everything containers, raw-live and dying scripts do in between.
THEOREM SupervisorInvariant == Spec => []IInv
<1>1. IInv /\ [Next]_vars => IInv'
  BY TypeStep, JobInvStep, OriginStep, CleanupStep, RecoverStep, EnsureStep, RowStep,
     RetryStep, SlotStep, ForgottenStep, TileStep
  DEF IInv
<1> QED
  BY InitIInv, <1>1, PTL DEF Spec

\* ensure_raw_workers, cleanup_stopped_raw and recover_orphaned_raw together never
\* run more than RAW_WORKERS containers, however late they act on what they counted,
\* but for one more with every failed docker ps that was counted as 0.
THEOREM SupervisorWorkerCap == Spec => []WorkerCap
<1>1. IInv => WorkerCap
  BY DEF IInv
<1> QED
  BY <1>1, SupervisorInvariant, PTL

\* A crash, a restart or a failed call at any step skips no block; a range is not
\* claimed twice but below a frontier read too high, and a claimed range keeps a
\* container or a row, unless a query about a range failed.
THEOREM SupervisorClaims == Spec => []ClaimsInv
<1>1. IInv => ClaimsInv
  BY DEF IInv, ClaimsInv
<1> QED
  BY <1>1, SupervisorInvariant, PTL

\* A range whose failures have reached RAW_FAILED_RETRY_LIMIT is started again only
\* from a blocked row past its cooldown, unless a query about it failed or it was
\* taken for new below a frontier read too high.
THEOREM SupervisorNoHotRetry == Spec => NoHotRetry
<1> DEFINE Cold == \A r \in Ranges \ (unlucky \cup misread) :
             container[r] = "none" /\ container'[r] = "up" /\ Exhausted(r)
               => status[r] = "blocked" /\ r \in stale
<1>1. IInv /\ [Next]_vars => [Cold]_vars
  <2> SUFFICES ASSUME IInv, [Next]_vars,
                      NEW r \in Ranges \ (unlucky \cup misread), container[r] = "none",
                      container'[r] = "up", Exhausted(r)
               PROVE  status[r] = "blocked" /\ r \in stale
    OBVIOUS
  <2>1. TypeOK /\ OriginInv /\ EnsureInv /\ RetryInv
    BY DEF IInv
  <2>2. r \in Active' /\ r \notin Active
    BY DEF Active
  <2>3. Start
    BY <2>2, OnlyStart
  <2>4. r = cur
    BY <2>1, <2>3 DEF Start, Launch, TypeOK, JobTypeOK, jobVars
  <2>5. failures[r] # 0
    BY <2>1, RangeFacts DEF Exhausted, TypeOK, JobTypeOK
  <2>6. ctx # "ensure"
    BY <2>1, <2>3, <2>4, <2>5 DEF OriginInv, EnsureInv, Start
  <2> QED
    BY <2>1, <2>3, <2>4, <2>6 DEF RetryInv, Start
<1>2. NoHotRetry <=> [][Cold]_vars
  BY PTL DEF NoHotRetry
<1> QED
  BY <1>1, <1>2, SupervisorInvariant, PTL DEF Spec
=============================================================================
