SPECIFICATION FairSpec
CONSTANTS
  Ranges <- MCOneRange
  LogCap = 1
  Chains = {main}
  Canonical = main
  Absent = absent
  NumTables = 2
  FlushBlocks = 2
  MaxFaults = 0
PROPERTY HealedCompletes
