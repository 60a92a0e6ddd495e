SPECIFICATION FairSpec
CONSTANTS
  Ranges <- MCRanges
  LogCap = 1
  Chains = {main, fork}
  Canonical = main
  Absent = absent
  NumTables = 2
  FlushBlocks = 2
  MaxFaults = 2
INVARIANTS
  CheckpointCovered
  CompletedWhole
  IInv
PROPERTIES
  HealthyCompletes
  CompletedFrozen
  ImplementsJob
