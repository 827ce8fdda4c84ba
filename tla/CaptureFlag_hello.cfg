SPECIFICATION FairSpec
CONSTANTS
  Fd = {a, b}
  NoFd = NoFd
  Free = Free
  Wild = Wild
  Outside = Outside
  MaxPlayers = 1
  Cell <- DuelCell
  Origin <- Corner
  Garbage <- AtCorner
  Adj <- DuelAdj
  InitType <- DuelType
  JailScan <- DuelScan
  Objects <- NoObjects
  Habits <- AllowAgain
CHECK_DEADLOCK FALSE
PROPERTIES LockReturned
