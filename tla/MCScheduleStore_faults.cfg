CONSTANTS
  None = None
  s1 = s1
  s2 = s2
  j0 = j0
  j1 = j1
  Tasks = {t1, t2}
  Schedules = {s1, s2}
  Journals = {j0, j1}
  EmptyJournal = j0
  InitialFlash <- AnyDevice
  MaxGeneration = 4
  MaxRevision = 3
  MaxBoots = 3
  MaxRot = 2
SPECIFICATION Spec
INVARIANTS
  TypeOK
  ReportedIsDurable
  NeverAmbiguous
  FallbackIsPrevious
PROPERTIES
  ImplementsRegister
  FutureRecordKept
CHECK_DEADLOCK FALSE
