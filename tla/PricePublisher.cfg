SPECIFICATION FairSpec
CONSTANTS
  Live <- MCLive
  Backfills <- MCBackfills
  Quiet = {1, 2, 5}
  Upgrades = {3}
  BATCH_SIZE = 1
  MaxFaults = 2
CHECK_DEADLOCK FALSE
INVARIANTS
  Watermark
  CandlesExact
  CheckpointPublished
  WholeRangePriced
PROPERTIES
  ImplementsPublication
  AllPublished
