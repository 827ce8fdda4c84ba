SPECIFICATION Spec
CONSTANTS
  Fd = {a, b}
  NoFd = NoFd
  Free = Free
  Wild = Wild
  Outside = Outside
  MaxPlayers = 1
  Cell <- DuelCell
  Origin <- Corner
  Garbage <- AtCorner
  Adj <- DuelAdj
  InitType <- DuelType
  JailScan <- DuelScan
  Objects <- OnlyFlags
  Habits <- AllowNothing
SYMMETRY Sym
CHECK_DEADLOCK FALSE
INVARIANTS OwnFlagNotCarriedHome
