SPECIFICATION FairSpec
CONSTANTS
  Fd = {a, b}
  NoFd = NoFd
  Free = Free
  Wild = Wild
  Outside = Outside
  MaxPlayers = 1
  Cell <- TunnelCell
  Origin <- Corner
  Garbage <- AtCorner
  Adj <- TunnelAdj
  InitType <- TunnelType
  JailScan <- TunnelScan
  Objects <- OneHammer
  Habits <- AllowLost
CHECK_DEADLOCK FALSE
INVARIANTS BrokenWallsJoinASide
 
