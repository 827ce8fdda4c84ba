SPECIFICATION Spec
CONSTANTS
  dimension = 4
  File <- TheFile
  PROTO_SESSION_BUF_SIZE = 20
  Socket = 6
  MaxAsks = 3
CHECK_DEADLOCK FALSE
INVARIANTS
  TypeOK
  InStep
  BodyFits
  MapsAgree
  NoPhantom
PROPERTIES
  Refines
  
  
