SPECIFICATION Spec
CONSTANTS
  Worker = {w1, w2}
  MaxMsgs = 2
  NoTask <- SecondHasNoTask
  MaxRetries = 2
  ClaimCount = 2
  FailBound = 3
  CrashBound = 1
  OutageBound = 1
SYMMETRY WorkerSymmetry
INVARIANTS IInv NoTaskLost DeadLettersPaid
PROPERTIES Refinement
CHECK_DEADLOCK FALSE
