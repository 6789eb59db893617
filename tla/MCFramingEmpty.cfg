SPECIFICATION Spec
CONSTANTS
  Junk = Junk
  Exp = 3
  Sizes = {0, 1}
  MaxMsgs = 3
  Header = 2
  MaxLen = 4
CHECK_DEADLOCK FALSE
INVARIANT NothingHeld
