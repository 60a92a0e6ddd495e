SPECIFICATION Spec
CONSTANTS
  REORG_MAX_DEPTH = 2
  EventCount <- MCEventCount
  MaxEvents = 2
  MaxTip = 3
  MaxReorgs = 2
  MaxFaults = 0
  None = None
INVARIANTS
  OverwrittenInPlace
CHECK_DEADLOCK FALSE
