SPECIFICATION FairSpec
CONSTANTS
  Top = 4
  RawRanges <- MCRawRanges
  MAIN_WORKERS = 2
  MAIN_MAX_RANGES = 2
  PublicationChunk = 1
  NoRange = NoRange
  MaxFaults = 2
INVARIANTS
  CoverageExact
  HolesExplained
  ClaimsSound
  CapExceededOnlyByFailures
PROPERTIES
  PriceBackfillCompletes
