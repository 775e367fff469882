SPECIFICATION Spec
CONSTANTS
  a = a
  b = b
  c = c
  d = d
  g1 = g1
  g2 = g2
  x = x
  ch = ch
  k = k
  Null = Null
  Never = Never
  Manual = Manual
  Nodes <- FullNodes
  Channels = {ch}
  Groups = {g1, g2}
  External = {x}
  Edges <- FullEdges
  GroupOf <- FullGroups
  Keys = {k}
  Values = {1}
  Borrows <- BorrowedWithin
  FreshParams <- NullOrOne
  Sources <- SharedSource
  SendTargets = {a}
  Throwing = {b, c}
  Catching = {a}
  MaxPushes = 2
  MaxDequeue = 2
INVARIANTS
  TypeOK
  NoStrandedPacket
  HandlersStayHome
PROPERTIES
  ImplementsDelivery
CHECK_DEADLOCK FALSE
