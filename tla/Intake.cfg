SPECIFICATION Spec
CONSTANTS
  m1 = m1
  m2 = m2
  Messages = {m1, m2}
  CallBound = 3
  Mixes <- MCMixes
  ExtraBound = 1
INVARIANTS TypeOK Honest NoSilentDrop NotRepeated
PROPERTY Answered
CHECK_DEADLOCK FALSE
