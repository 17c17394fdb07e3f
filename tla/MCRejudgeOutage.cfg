SPECIFICATION Spec
CONSTANTS
  p1 = p1
  p2 = p2
  h1 = h1
  h2 = h2
  c1 = c1
  c2 = c2
  a1 = a1
  w1 = w1
  PRs = {p1, p2}
  Heads = {h1, h2}
  Policies = {c1, c2}
  Times <- MCTimes
  Ttl = 0
  None = None
  NoVerdict = NoVerdict
  NoEntry = NoEntry
  NoAuthor = NoAuthor
  Author = author
  Workers = {w1}
  BodyOf <- MCBodyOf
  Reviews <- MCReviews
  Policy0 = c1
  Bundle <- MCBundle
  SeamFaults = {"run_reviews"}
  MaxRuns = 3
  MaxChanges = 1
CHECK_DEADLOCK FALSE
INVARIANTS
  FailureNeverAllows
