CONSTANTS
  None = None
  AlarmIds = {1, 2}
  Grace = 1
  MinSnooze = 1
  MaxSnooze = 1
  Lifetime = 2
  MaxSnoozes = 1
  Retention = 1
  Capacity = 1
  TimeMax = 100
  MaxWall = 2
  MaxMono = 2
  MaxBoots = 2
  MaxRevision = 2
  Corrections = TRUE
SPECIFICATION Spec
INVARIANTS
  TypeOK
  NoInstantTwice
  OutcomesRemembered
PROPERTIES
  NoFutureSuppressed
  ImplementsLedger
CHECK_DEADLOCK FALSE
