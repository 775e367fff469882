SPECIFICATION Spec
CONSTANTS
  a = a
  b = b
  c = c
  d = d
  g1 = g1
  g2 = g2
  x = x
  ch = ch
  k = k
  Null = Null
  Never = Never
  Manual = Manual
  Nodes <- FullNodes
  Channels = {ch}
  Groups = {g1, g2}
  External = {}
  Edges <- LoopEdges
  GroupOf <- LoopGroups
  Keys = {k}
  Values = {1}
  Borrows <- LoopBorrowed
  FreshParams <- NullEmptyOrOne
  Sources <- LoopSource
  SendTargets = {}
  Throwing = {}
  Catching = {}
  MaxPushes = 4
  MaxDequeue = 1
INVARIANT InheritsFromOwnPacket
CHECK_DEADLOCK FALSE
