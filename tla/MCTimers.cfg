SPECIFICATION FairSpec
CONSTANTS
  Times = {1, 7, 11}
  Intervals = {2}
  StartTime = 6
  MaxTime = 9
  MaxCalls = 2
  WaitMs = 2
  IntLimit = 4
CHECK_DEADLOCK FALSE
INVARIANTS
  NoDangling
  Accounted
  Punctual
PROPERTY Comes
