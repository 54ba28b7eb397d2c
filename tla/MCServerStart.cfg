SPECIFICATION FairSpec
CONSTANTS
  p1 = p1
  p2 = p2
  c1 = c1
  c2 = c2
  c3 = c3
  Proc = {p1, p2}
  Primary = c1
  Alternates <- MCAlternates
INVARIANTS
  StartLockInv
  EachServerPaidFor
PROPERTIES
  EveryCommandEnds
  ClientHasSession
CHECK_DEADLOCK FALSE
