CONSTANTS
  None = None
  AlarmIds = {1, 2, 3}
  Grace = 1
  MinSnooze = 1
  MaxSnooze = 1
  Lifetime = 2
  MaxSnoozes = 1
  Retention = 1
  Capacity = 2
  TimeMax = 100
  MaxWall = 3
  MaxMono = 3
  MaxBoots = 2
  MaxRevision = 1
  SavedAlarms = {}
  MaxFailures = 1
  Failures = {"busy", "fault_old", "fault_new"}
  Corrections = TRUE
  Concurrent = FALSE
  InitialDefs <- TogetherOrInTurn
SPECIFICATION Spec
INVARIANTS
  TypeOK
  TransitionsSavable
  OneStartPerTick
  AlertMatchesJournal
CHECK_DEADLOCK FALSE
