SPECIFICATION Spec
CONSTANTS
  w1 = w1
  w2 = w2
  Waiters = {w1, w2}
  MaxHandles = 2
INVARIANTS
  TypeOK
  ToldTheTruth
  OutlivesHandles
PROPERTIES
  WaitersReturn
CHECK_DEADLOCK FALSE
