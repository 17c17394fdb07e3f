SPECIFICATION StoreSpec
CONSTANTS
  p1 = p1
  p2 = p2
  h1 = h1
  c1 = c1
  PRs = {p1, p2}
  Heads = {h1}
  Policies = {c1}
  Times <- MCTimes
  Ttl = 1
  None = None
  NoVerdict = NoVerdict
INVARIANTS
  UniqueIds
  OneLiveRow
PROPERTIES
  RowsAreForever
  ImplementsRegister
