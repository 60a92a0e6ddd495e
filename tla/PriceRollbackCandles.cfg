SPECIFICATION RollbackSpec
CONSTANTS
  Live <- MCLive
  Backfills <- MCBackfills
  Quiet = {3}
  Upgrades = {4}
  BATCH_SIZE = 1
  MaxFaults = 1
  Candle = 2
  MaxRollbacks = 1
INVARIANTS
  RestCandles
CHECK_DEADLOCK FALSE
