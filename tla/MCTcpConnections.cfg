SPECIFICATION Spec
CONSTANTS
  c1 = c1
  c2 = c2
  r1 = r1
  r2 = r2
  Pool = Pool
  Conns = {c1, c2}
  Requests = {r1, r2}
INVARIANTS
  TypeOK
  TablesAgree
PROPERTIES
  ImplementsLife
  EndsAreReported
CHECK_DEADLOCK FALSE
