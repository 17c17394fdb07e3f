SPECIFICATION FairSpec
CONSTANTS
  o1 = o1
  o2 = o2
  Operators = {o1, o2}
  Ttls = {1, 2}
  MaxTime = 3
  MaxCalls = 3
  LedgerFaults = {"refused", "answer_lost"}
  NoOrder = NoOrder
CHECK_DEADLOCK FALSE
INVARIANTS
  AuditLeadsState
PROPERTIES
  PauseHolds
  ImplementsLatestOrder
  PausesEnd
