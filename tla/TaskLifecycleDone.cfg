SPECIFICATION Spec
CONSTANTS
  Task = {t1}
  Agent = {a1}
  Slot = {s1}
  Handler = {h1}
  Entry = {e1, e2}
  None = None
  CallBound = 1
  ReclaimBound = 0
  CrashBound = 0
  FaultBound = 0
PROPERTIES DoneLeftByHand
CHECK_DEADLOCK FALSE
