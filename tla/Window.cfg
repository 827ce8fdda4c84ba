SPECIFICATION Spec
CONSTANTS
  WINDOW_SIZE = 2
  dimension = 5
  Spot <- Spots
  Player = {me, other}
  Me = me
CHECK_DEADLOCK FALSE
INVARIANTS
  TypeOK
  InsideMap
  SeesItself
  
PROPERTIES
  PanSteady
