CONSTANTS
  None = None
  Alarms = {a}
  Capacity = 1
  Window = 1
  MaxRequests = 4
  MaxAnswers = 2
  MaxRevision = 2
  Refreshes = TRUE
SPECIFICATION FairSpec
INVARIANTS
  TypeOK
  FlowFollowsExchange
  MirrorIsCommitted
  NoLostUpdate
PROPERTIES
  ReceiptAdvancesMirror
  ApplySettles
CHECK_DEADLOCK FALSE
