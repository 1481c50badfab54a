CONSTANTS
  None = None
  DayLength = 4
  WeekLength = 3
  MaxInstant = 1000
  LastDate = 100
  MaxTimes = 3
  MaxTypes = 2
  Cutoff = 12
  Budget = 2
  Zones = {"here", "there"}
  Version = 1
  RecordSets <- SmallRecordSets
  AlarmSets <- SmallAlarmSets
  Span = 12
  MaxNow = 14
  FoldStarts = FALSE
  MaxDepth = 3
  MaxNodes = 5
  Strings = {"k1", "k2"}
  Scalars = {"1"}
  MaxText = 11
  MessageIds = {"m1", "m2", "m3", "m4"}
  Capacity = 2
  MaxAccepted = 6
SPECIFICATION Spec
INVARIANTS
  TypeOK
  PlanIsWhole
  ParserIsExact
  DuplicateIsRecent
  SameAnswer
PROPERTIES
  NextIsFirst
  OneRingPerDate
CHECK_DEADLOCK FALSE
