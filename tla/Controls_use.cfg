CONSTANTS
  None = None
  Stable = 4
  Bounce = 1
  Gap = 6
  Budget = 15
  Wrap = 1024
  MaxPresses = 2
  MaxTime = 26
  MaxSkew = 2
  Turn = 2
  MaxShaft = 9
  MaxAttempts = 2
  MaxWindow = 2
  MaxCalls = 4
  Absent = Absent
  Corrupt = Corrupt
  MaxRevision = 2
  MaxEdits = 1
SPECIFICATION Spec
INVARIANTS
  TypeOK
  AnsweredInTime
  RotationAddsUp
  DecidedOnceInTime
PROPERTIES
  OneEventPerPress
  NoInventedMotion
  NoSilentRollback
CHECK_DEADLOCK FALSE
