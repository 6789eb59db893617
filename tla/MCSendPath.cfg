SPECIFICATION FairSpec
CONSTANTS
  Loop = Loop
  Workers = {}
  Plain = TRUE
  Msgs = {m1, m2, m3}
  MsgLen = 2
  SockBuf = 3
CHECK_DEADLOCK FALSE
INVARIANTS
  TypeOK
PROPERTIES
  NoSpin
  ImplementsStream
