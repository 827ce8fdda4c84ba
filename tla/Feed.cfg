SPECIFICATION Spec
CONSTANTS
  c1 = c1
  c2 = c2
  NoOne = NoOne
  Objs = Objs
  w1 = w1
  Unset = Unset
  Client <- Two
  Wall <- OneWall
  Habit <- Habits
  MaxRequests <- Commands
  EvtCap = 1
  AckCap = 4
  Slow <- InTime
INVARIANTS
  TypeOK
  AnswersMatch
  NoLostUpdate
  MapFollows
  
PROPERTIES
  Refines
