CONSTANTS
  None = None
  AlarmIds = {1, 2}
  Grace = 1
  MinSnooze = 1
  MaxSnooze = 1
  Lifetime = 2
  MaxSnoozes = 1
  Retention = 1
  Capacity = 2
  TimeMax = 100
  MaxWall = 2
  MaxMono = 2
  MaxBoots = 2
  MaxRevision = 2
  SavedAlarms = {1}
  MaxFailures = 1
  Failures = {"unverified", "fault_new", "fault_old", "busy"}
  Corrections = FALSE
  Concurrent = TRUE
  InitialDefs <- TogetherOrInTurn
SPECIFICATION Spec
PROPERTIES
  OutcomesFromCommittedSchedule
  ImplementsLedger
CHECK_DEADLOCK FALSE
