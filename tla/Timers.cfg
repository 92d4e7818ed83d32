SPECIFICATION Spec
CONSTANTS
  t1 = t1
  t2 = t2
  Task <- TwoTasks
  Order <- DoublingAndFixed
  T1 = 1
  T2 = 1
  T4 = 1
  Patience = 2
  WaitD = 3
  Intervals <- OneDoubling
  LongestInterval = 2
  MaxSkew = 1
  MaxTime = 4
  MaxLen = 2
CHECK_DEADLOCK FALSE
INVARIANT Punctual
INVARIANT WaitBounded
SYMMETRY Interchangeable
