SPECIFICATION FairSpec
CONSTANTS
  InitialCps = 2
  MaxCps = 5
  StepSize = 2
  Convergence = 1
  Ceiling = 3
  ErrorThreshold = 50
  CallsPerStep = 2
  MaxRecords = 2
  MaxRemote = 1
  Wrap = 4
INVARIANTS
  TypeOK
  StepConsistent
  ReportedPassed
  Bracketed
  Separated
PROPERTIES
  Converges
  Terminates
CHECK_DEADLOCK FALSE
