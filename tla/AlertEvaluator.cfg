SPECIFICATION FairSpec
CONSTANTS
  g1 = g1
  g2 = g2
  Groups <- MCGroups
  KeyOrder <- MCKeyOrder
  Rows <- MCRows
  LateRows <- MCLateRows
  None = None
  MaxHead = 6
  Flushes = {3, 5, 6}
  MAX_WINDOW_BLOCKS = 2
  TRAILING_RECHECK_BLOCKS = 4
  SOURCE_FETCH_CAP = 1
  INBOX_ROWS_PER_RULE = 1
  ACTIVITY_PAGE_WIDE = 4
  MaxTroubles = 1
INVARIANTS
  NothingLost
  CursorInv
PROPERTIES
  RepeatsExplained
  EventuallyTold
