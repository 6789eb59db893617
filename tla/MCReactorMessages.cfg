SPECIFICATION FairSpec
CONSTANTS
  Conns = {c1, c2}
  Fds = {f1}
  Wakeup = Wakeup
  Listener = Listener
  NoFd = NoFd
  None = None
  Bad = Bad
  FdSetSize = 4
  MaxMsgs <- MCTwoAndNone
  MaxCloses = 1
  Accepting = TRUE
  HangUpAfterBad = FALSE
INVARIANTS
  DestroyedLast
  EndedIsGone
  MessagesOnce
  CallbackOnlyWhileOpen
  EndedForReason
PROPERTY
  EndIsReached
