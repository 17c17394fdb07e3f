SPECIFICATION Spec
CONSTANTS
  a1 = a1
  a2 = a2
  Author = author
  NoAuthor = NoAuthor
  ReceiptForms <- MCReceiptForms
  PackBodies <- MCPackBodies
  Bundles <- MCBundles
  Stops <- MCStops
  Heads = {h1}
  Policies = {c1}
  MaxPacks = 2
  MaxReceipts = 3
SYMMETRY Symmetric
CHECK_DEADLOCK FALSE
INVARIANTS
  TypeOK
  BlockVetoes
  AllowMergeIsBacked
  OrderFreeWhenConsistent
PROPERTIES
  RejectIsFinal
  AllowMergeLostOnlyToVeto
