---------------------------- MODULE PriceRollback ----------------------------
(***************************************************************************)
(* The operator's rollback (src/cli.ts, src/ohlc/repair.ts) beside the     *)
(* price pipelines: delete everything at or above a block, table by table, *)
(* clear the candles the deleted blocks touch, rebuild the part of the     *)
(* first candle that lies below, and set the checkpoint back.              *)
(*                                                                         *)
(* The live follower is stopped meanwhile and a rollback that failed is    *)
(* run again before it is started; the code asks neither.  One candle      *)
(* width stands for the eight.                                             *)
(***************************************************************************)
EXTENDS PricePublisher

CONSTANTS
  Candle,      \* heights per candle
  MaxRollbacks \* bound: rollbacks started

ASSUME CandleAssumption == Candle \in Nat \ {0} /\ MaxRollbacks \in Nat

VARIABLES
  at,        \* the rollback's next command, or "idle"
  target,    \* its block; kept after a failure, for the run that repeats it
  torn,      \* the last rollback failed
  low, high, \* first and last height with a row in `blocks` that it deletes
  rollbacks

rollback == <<at, target, torn, low, high, rollbacks>>
allVars  == <<vars, rollback>>
process  == <<pc, memory, origin, faults>>

None == -1   \* no height

RollbackInit ==
  /\ Init
  /\ at = "idle" /\ target = None /\ torn = FALSE
  /\ low = None /\ high = None
  /\ rollbacks = 0

Run(from, to) == at = from /\ at' = to

\* The time range is read from `blocks`, before anything is deleted.
BeginRollback(n) ==
  LET doomed == {h \in Heights : h >= n /\ Seen("blocks", h)} IN
  /\ Run("idle", "prices")
  /\ pc[Live] \in {"off", "done"}
  /\ rollbacks < MaxRollbacks
  /\ IF torn THEN n = target ELSE n <= checkpoint[Live]
  /\ target' = n
  /\ low'  \in {h \in Heights \cup {None} :
                  IF doomed = {} THEN h = None ELSE h \in doomed /\ \A g \in doomed : h <= g}
  /\ high' \in {h \in Heights \cup {None} :
                  IF doomed = {} THEN h = None ELSE h \in doomed /\ \A g \in doomed : g <= h}
  /\ rollbacks' = rollbacks + 1
  /\ UNCHANGED <<vars, torn>>

\* DELETE FROM t WHERE block_height >= target.
Delete(t, from, to) ==
  /\ Run(from, to)
  /\ rows' = [rows EXCEPT ![t] = [h \in Heights |-> IF h >= target THEN 0 ELSE @[h]]]
  /\ UNCHANGED <<ohlc, checkpoint, process, target, torn, low, high, rollbacks>>

DeletePrices  == Delete("prices", "prices", "volumes")
DeleteVolumes == Delete("trade_volume_by_account", "volumes", "blocks")

\* Mutant: blocks are kept.
DeleteBlocksNot ==
  /\ Run("blocks", "upgrades")
  /\ UNCHANGED <<vars, target, torn, low, high, rollbacks>>

DeleteBlocks  == Delete("blocks", "blocks", "upgrades")
DeleteUpgrades ==
  Delete("runtime_upgrades", "upgrades", IF low = None THEN "save" ELSE "clear")

Interval(h) == h \div Candle

\* clearOHLCForTimeRange: every candle from the first to the last deleted block.
ClearCandles ==
  /\ Run("clear", "restore")
  /\ ohlc' = [h \in Heights |->
                IF Interval(low) <= Interval(h) /\ Interval(h) <= Interval(high) THEN 0 ELSE ohlc[h]]
  /\ UNCHANGED <<rows, checkpoint, process, target, torn, low, high, rollbacks>>

\* restoreRollbackOHLCPrefix: count again the prices of the first candle below
\* the first deleted block, of heights that have a row in `blocks`.
RestorePrefix ==
  /\ Run("restore", "save")
  /\ ohlc' = [h \in Heights |->
                IF /\ Interval(h) = Interval(low) /\ h < low
                   /\ Seen("prices", h) /\ Seen("blocks", h)
                THEN More(ohlc[h]) ELSE ohlc[h]]
  /\ UNCHANGED <<rows, checkpoint, process, target, torn, low, high, rollbacks>>

\* The checkpoint is set to the block below the target, and the live follower
\* may be started again, as a new process.
ResetCheckpoint ==
  /\ Run("save", "idle")
  /\ checkpoint' = [checkpoint EXCEPT ![Live] = target - 1]
  /\ pc' = [pc EXCEPT ![Live] = "off"]
  /\ first' = [first EXCEPT ![Live] = TRUE]
  /\ target' = None /\ torn' = FALSE /\ low' = None /\ high' = None
  /\ UNCHANGED <<rows, ohlc, pos, buf, tbl, new, origin, faults, rollbacks>>

\* A command fails; what was deleted stays deleted.
RollbackFails ==
  /\ at # "idle"
  /\ faults < MaxFaults
  /\ faults' = faults + 1
  /\ at' = "idle" /\ torn' = TRUE /\ low' = None /\ high' = None
  /\ UNCHANGED <<db, pc, memory, origin, target, rollbacks>>

\* A step of a pipeline; the live follower waits for the rollback.
PipelineStep ==
  /\ Next
  /\ at # "idle" \/ torn => pc'[Live] = pc[Live]
  /\ UNCHANGED rollback

RollbackStep ==
  \/ \E n \in Span(Live) : BeginRollback(n)
  \/ DeletePrices \/ DeleteVolumes \/ DeleteBlocks \/ DeleteUpgrades
  \/ ClearCandles \/ RestorePrefix \/ ResetCheckpoint
  \/ RollbackFails

RollbackSpec == RollbackInit /\ [][PipelineStep \/ RollbackStep]_allVars

-----------------------------------------------------------------------------
(* Properties.                                                             *)

AtRest == at = "idle" /\ ~torn

\* Pipelines and rollback stay in their domains; candles are cleared only when the
\* rollback found blocks to take a time range from.
RollbackTypeOK ==
  /\ TypeOK
  /\ at \in {"idle", "prices", "volumes", "blocks", "upgrades", "clear", "restore", "save"}
  /\ target \in Span(Live) \cup {None}
  /\ torn \in BOOLEAN
  /\ low \in Heights \cup {None} /\ high \in Heights \cup {None}
  /\ at \in {"clear", "restore"} => low # None /\ high # None
  /\ rollbacks \in 0..MaxRollbacks

\* After a rollback, or one that failed and was repeated, a visible block again
\* has its prices and volumes, and everything the checkpoint has passed is published.
RestPublished ==
  /\ RollbackTypeOK
  /\ AtRest => Watermark /\ CheckpointPublished

\* "Writes and checkpoints are designed for replay and crash recovery": after a
\* rollback the candles count every price once.
RestCandles == AtRest => CandlesExact
=============================================================================
