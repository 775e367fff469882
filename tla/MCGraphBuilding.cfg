SPECIFICATION Spec
CONSTANTS
  once = once
  pass = pass
  n3 = n3
  None = None
  Interface = pass
  SingleContext = {pass}
  Default = Default
  g1 = g1
  n1 = n1
  n2 = n2
  i1 = i1
  i2 = i2
  c1 = c1
  direct = direct
  Nodes = {n1, n2, n3}
  Channels = {c1}
  Instances = {i1, i2}
  Types = {once}
  Given = {pass}
  Groups = {Default, g1}
  Deliveries = {direct}
  Pathables = {pass}
  Sources = {once}
  Eager = {once}
  GroupKinds = {pass}
  NodeKinds <- SourceOrSink
INVARIANTS
  TypeOK
  ContextIsThreadGroup
  SourceKnowsPusher
  StartedDelivers
  StartedPushesFromOwnNode
SYMMETRY Names
