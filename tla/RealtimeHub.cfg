SPECIFICATION Spec
CONSTANTS
  a = a
  b = b
  s1 = s1
  s2 = s2
  c1 = c1
  e1 = e1
  e2 = e2
  Instances = {a, b}
  Alone <- Without
  Conns = {s1, s2, c1}
  Home <- HomeOf
  Early = {s1, c1}
  Scoped = {s1, s2}
  Events = {e1, e2}
  Origin <- OriginOf
  Hears <- HeardAs
  About <- Names
  CutBound = 1
  FaultBound = 1
INVARIANTS TypeOK Heard Copies Members InOrder LastWord
PROPERTY OneOrder
CHECK_DEADLOCK FALSE
