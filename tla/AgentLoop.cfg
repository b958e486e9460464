SPECIFICATION Spec
CONSTANTS
  Execs = {x1, x2}
  Tools <- MCTools
  PollLike <- MCPollLike
  Results = {1}
  Guarded = TRUE
  Warning = 5
  PollRun = 3
  PingWindow = 4
  HistorySize = 6
  MaxIterations = 3
  KeepRecent = 1
  CallBound = 2
SYMMETRY ExecSymmetry
INVARIANTS TypeOK RunBound Remembered
PROPERTIES LockedForGood Dwindles
CHECK_DEADLOCK FALSE
