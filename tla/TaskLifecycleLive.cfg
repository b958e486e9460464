SPECIFICATION FairSpec
CONSTANTS
  Task = {t1, t2}
  Agent = {a1}
  Slot = {s1}
  Handler = {h1}
  Entry = {e1, e2, e3, e4}
  None = None
  CallBound = 2
  ReclaimBound = 0
  CrashBound = 1
  FaultBound = 0
PROPERTIES Settles
CHECK_DEADLOCK FALSE
