SPECIFICATION FairSpec
CONSTANTS
  NumBases = 2
  Conns = {c1, c2}
  Posters = {p1, p2}
  Msgs = {m1, m2}
  IntValues = 2
  None = None
CHECK_DEADLOCK FALSE
INVARIANTS
  ListsMatch
  WalkSafe
  OneOrder
PROPERTIES
  LoopReturns
