SPECIFICATION FairSpec
CONSTANTS
  NumWorkers = 2
  Posters = {p1, p2}
  Tasks = {1, 2, 3}
  ConnOf <- MCConnOf
  Capacity = 2
  MaxSpurious = 1
  None = None
INVARIANTS
  TypeOK
  NoLostNotify
  ExitWakesAll
  SerialPerConn
PROPERTIES
  AcceptedIsRun
  JoinReturns
