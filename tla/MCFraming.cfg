SPECIFICATION Spec
CONSTANTS
  Junk = Junk
  Exp = 3
  Sizes = {1, 2, 3}
  MaxMsgs = 3
  Header = 2
  MaxLen = 4
CHECK_DEADLOCK FALSE
INVARIANTS
  InTransit
  WholeMessages
  NothingHeld
