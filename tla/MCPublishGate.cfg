SPECIFICATION Spec
CONSTANTS
  o1 = o1
  o2 = o2
  a1 = a1
  a2 = a2
  Operators = {o1, o2}
  Ttls = {1}
  MaxTime = 2
  MaxCalls = 2
  LedgerFaults = {"refused"}
  NoOrder = NoOrder
  Author = author
  NoAuthor = NoAuthor
  Profiles <- MCProfiles
  Bodies <- MCBodies
  Reviews <- MCReviews
  NoVerdict = NoVerdict
  Webhooks <- MCWebhooks
  OnEvents = {"require_human"}
SYMMETRY Symmetric
CHECK_DEADLOCK FALSE
INVARIANTS
  FloorsHold
  JudgeHoldsR5
  FreezeHolds
  OnlyLatePausesAreMissed
  EveryWebhookTried
