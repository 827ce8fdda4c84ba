SPECIFICATION Spec
CONSTANTS
  Client = {a, b}
  Shell = Shell
  Stray = Stray
  Fd = {d1, d2, d3}
  NoFd = NoFd
  Requesters = {Shell}
  MaxSubs = 2
SYMMETRY Sym
CHECK_DEADLOCK FALSE
PROPERTIES SubscriberRemoved
