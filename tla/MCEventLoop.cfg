SPECIFICATION FairSpec
CONSTANTS
  Callers = {p1, p2}
  Loop = Loop
  None = None
  Lost = Lost
  RecvMax = 2
  Tasks = {t1, t2, t3}
  Capacity = 2
  PipeCap = 3
INVARIANTS
  NoLostWakeup
  PromisesKept
  Inv
PROPERTIES
  ImplementsMailbox
  ExitEndsLoop
