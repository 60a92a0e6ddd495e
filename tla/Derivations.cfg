SPECIFICATION FairSpec
CHECK_DEADLOCK FALSE
CONSTANTS
    Hours <- MCHours
    MonthOf <- MCMonthOf
    Rows <- MCRows
    HourOf <- MCHourOf
    StreamOf <- MCStreamOf
    Streams = 2
    Void <- MCVoid
    Indexed <- MCIndexed
    MaxVersion <- MCMaxVersion
    SETTLE = 2
    LastIngest = 2
    LateTicks = 2
    MaxFaults = 1
INVARIANTS
  PassedOverIsRight
  TablesSound
  MonthIsRight
PROPERTIES
  NoGap
  Converges
