SPECIFICATION FairSpec
CONSTANTS
  Conns = {c1, c2}
  Limits = {1, 2}
  PerSec = 2
  MaxTime = 5
CHECK_DEADLOCK FALSE
INVARIANTS
  IdsValid
  CalledWhenIdle
  NobodyMissed
PROPERTY
  IdleIsCalled
