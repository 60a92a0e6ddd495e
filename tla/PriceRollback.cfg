SPECIFICATION RollbackSpec
CONSTANTS
  Live <- MCLive
  Backfills <- MCBackfills
  Quiet = {3}
  Upgrades = {4}
  BATCH_SIZE = 1
  MaxFaults = 2
  Candle = 3
  MaxRollbacks = 2
CHECK_DEADLOCK FALSE
INVARIANTS
  RestPublished
