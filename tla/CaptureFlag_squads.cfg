SPECIFICATION Spec
CONSTANTS
  Fd = {a, b, c, d}
  NoFd = NoFd
  Free = Free
  Wild = Wild
  Outside = Outside
  MaxPlayers = 2
  Cell <- SquadsCell
  Origin <- Corner
  Garbage <- AtCorner
  Adj <- SquadsAdj
  InitType <- SquadsType
  JailScan <- SquadsScan
  Objects <- NoObjects
  Habits <- AllowNothing
SYMMETRY Sym
CHECK_DEADLOCK FALSE
INVARIANTS PrisonersInJail
PROPERTIES PrisonersStay FreesWholeTeam
