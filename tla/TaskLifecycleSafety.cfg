SPECIFICATION Spec
CONSTANTS
  Task = {t1}
  Agent = {a1}
  Slot = {s1, s2}
  Handler = {h1}
  Entry = {e1, e2, e3}
  None = None
  CallBound = 2
  ReclaimBound = 1
  CrashBound = 0
  FaultBound = 1
SYMMETRY Anonymous
INVARIANTS IInv NoSilentOrphan WorkingExplained DoneIsDue
PROPERTY StaysDue
CHECK_DEADLOCK FALSE
