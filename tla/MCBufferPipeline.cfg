SPECIFICATION Spec
CONSTANTS
  p1 = p1
  p2 = p2
  Poppers = {p1, p2}
  NoItem = NoItem
  NumBuffers = 5
  Sizes = {1, 2}
  Limit = 2
INVARIANTS
  TypeOK
  EveryBufferOnce
  OnlyOvertakenStay
PROPERTIES
  GetReturns
  DestructionReleases
CHECK_DEADLOCK FALSE
