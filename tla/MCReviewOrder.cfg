SPECIFICATION Spec
CONSTANTS
  a1 = a1
  a2 = a2
  Author = author
  NoAuthor = NoAuthor
  ReceiptForms <- MCReceiptForms
  PackBodies <- MCPackBodies
  Bundles <- MCBundles
  Stops <- MCStops
  Heads = {h1}
  Policies = {c1}
  MaxPacks = 1
  MaxReceipts = 3
CHECK_DEADLOCK FALSE
INVARIANTS
  OrderFree
