SPECIFICATION FairSpec
CONSTANTS
  kf = kf
  ks = ks
  kp = kp
  PlainKeys <- MCPlainKeys
  FoundKeys <- MCFoundKeys
  SwrKeys <- MCSwrKeys
  maxEntries = 2
  None = None
  MaxVersion = 1
  MaxInstalls = 1
INVARIANTS
  CacheInv
  SingleFlight
  InstallKept
PROPERTIES
  SeedFillsGaps
  LoadsSettle
