SPECIFICATION Spec
CONSTANTS
  Client = {a, b}
  Shell = Shell
  Stray = Stray
  Fd = {d1, d2, d3, d4}
  NoFd = NoFd
  Requesters = {Shell}
  MaxSubs = 2
CONSTRAINT SpoiledStops
SYMMETRY Sym
CHECK_DEADLOCK FALSE
INVARIANTS TypeOK SubscribersOpen CountMatches StaysInTable
PROPERTIES ReachesAll
