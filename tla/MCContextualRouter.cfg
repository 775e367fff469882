SPECIFICATION Spec
CONSTANTS
  One = One
  In = In
  Out = Out
  k = k
  i1 = i1
  i2 = i2
  i3 = i3
  None = None
  Instances = {i1, i2, i3}
  Contexts <- SomeContexts
  Types <- AllTypes
  MaxDepth = 3
SYMMETRY InstanceSymmetry
INVARIANTS
  TypeOK
  TablesMirror
  ContextsApart
  SourcesKnowPusher
  GroupsCohere
  RemovedIsGone
CHECK_DEADLOCK FALSE
