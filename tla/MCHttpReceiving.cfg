SPECIFICATION Spec
CONSTANTS
  SizeMax = 31
  Texts <- SomeTexts
  LaterTexts <- Shorter
  MaxPieces = 4
  MaxRequests = 2
  MaxThrows = 1
  Junk = Junk
INVARIANTS
  TypeOK
  CutDoesNotMatter
  BodyNeverStrays
  ToldInOrder
  AccumulatedIsBody
  StreamsReadAsText
CHECK_DEADLOCK FALSE
