SPECIFICATION Spec
CONSTANTS
  Conns = {c1, c2}
  Fds = {f1}
  Wakeup = Wakeup
  Listener = Listener
  NoFd = NoFd
  None = None
  Bad = Bad
  FdSetSize = 4
  MaxMsgs <- MCOneEach
  MaxCloses = 1
  Accepting = TRUE
  HangUpAfterBad = TRUE
SYMMETRY Symmetry
INVARIANTS
  DestroyedLast
