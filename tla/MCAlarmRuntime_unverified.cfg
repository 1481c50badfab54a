CONSTANTS
  None = None
  AlarmIds = {1, 2}
  Grace = 1
  MinSnooze = 1
  MaxSnooze = 1
  Lifetime = 2
  MaxSnoozes = 1
  Retention = 1
  Capacity = 2
  TimeMax = 100
  MaxWall = 2
  MaxMono = 2
  MaxBoots = 2
  MaxRevision = 1
  SavedAlarms = {}
  MaxFailures = 1
  Failures = {"unverified"}
  Corrections = TRUE
  Concurrent = FALSE
  InitialDefs <- AnyArmed
SPECIFICATION Spec
INVARIANTS
  AlertMatchesJournal
CHECK_DEADLOCK FALSE
