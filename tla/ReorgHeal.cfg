SPECIFICATION FairSpec
CONSTANTS
  REORG_MAX_DEPTH = 2
  EventCount <- MCEventCount
  MaxEvents = 2
  MaxTip = 3
  MaxReorgs = 2
  MaxFaults = 2
  None = None
CHECK_DEADLOCK FALSE
INVARIANTS
  TipInv
PROPERTIES
  GoodTipKept
  RollbackShallow
  TipRecovers
