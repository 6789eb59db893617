SPECIFICATION Spec
CONSTANTS
  Loop = Loop
  Workers = {w}
  Plain = FALSE
  Msgs = {m1, m2, m3}
  MsgLen = 2
  SockBuf = 3
SYMMETRY Symmetry
CHECK_DEADLOCK FALSE
INVARIANT InOrder
