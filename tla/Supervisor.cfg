SPECIFICATION FairSpec
CONSTANTS
  Ranges <- MCRanges
  LogCap = 2
  Top = 5
  RANGE_SIZE = 2
  RAW_WORKERS = 1
  RAW_FAILED_RETRY_LIMIT = 2
  NoRange = NoRange
  MaxFaults = 2
INVARIANTS
  ClaimsInv
  WorkerCap
PROPERTIES
  NoHotRetry
  BackfillCompletes
