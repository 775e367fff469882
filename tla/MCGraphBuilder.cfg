SPECIFICATION BuilderSpec
CONSTANTS
  group = group
  sink = sink
  source = source
  port = port
  n1 = n1
  n2 = n2
  n3 = n3
  i1 = i1
  i2 = i2
  i3 = i3
  c1 = c1
  c2 = c2
  direct = direct
  queued = queued
  None = None
  Default = Default
  Nodes = {n1, n2, n3}
  Channels = {c1, c2}
  Instances = {i1, i2, i3}
  Types = {group, sink, source}
  Given = {}
  Interface = port
  SingleContext = {port}
  Groups = {Default}
  Deliveries = {direct, queued}
  DefaultDelivery = direct
  Pathables = {sink, port}
  Sources = {source}
  Eager = {}
  GroupKinds = {group}
  NodeKinds <- AllKinds
  NameOrder <- Names
  Architectures <- Texts
  Implementations <- Files
INVARIANTS
  AsWritten
  CrashNeedsLateGroup
PROPERTIES
  StartsAsWritten
CHECK_DEADLOCK FALSE
