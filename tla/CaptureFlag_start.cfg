SPECIFICATION Spec
CONSTANTS
  Fd = {a, b, c}
  NoFd = NoFd
  Free = Free
  Wild = Wild
  Outside = Outside
  MaxPlayers = 2
  Cell <- SquadsCell
  Origin <- Corner
  Garbage <- AtCorner
  Adj <- SquadsAdj
  InitType <- SquadsType
  JailScan <- SquadsScan
  Objects <- NoObjects
  Habits <- AllowLost
SYMMETRY Sym
CHECK_DEADLOCK FALSE
PROPERTIES StartPlacesAll
