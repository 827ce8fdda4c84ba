SPECIFICATION Spec
CONSTANTS
  Fd = {a, b, c}
  NoFd = NoFd
  Free = Free
  Wild = Wild
  Outside = Outside
  MaxPlayers = 2
  Cell <- SquadsCell
  Origin <- Corner
  Garbage <- AtCornerOrWild
  Adj <- SquadsAdj
  InitType <- SquadsType
  JailScan <- SquadsScan
  Objects <- NoObjects
  Habits <- AllowLostAndAgain
SYMMETRY Sym
CHECK_DEADLOCK FALSE
INVARIANTS TypeOK   OneHost
