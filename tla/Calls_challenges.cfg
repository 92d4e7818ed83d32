SPECIFICATION Spec
CONSTANTS
  c1 = c1
  w1 = w1
  r1 = r1
  r2 = r2
  w2 = w2
  InviteCall <- OneCall
  RegisterCall <- NoCall
  MaxDialogs = 1
  Batch = 1
  Receiver <- TwoReceivers
  MaxSteps = 2
  AuthRequired = TRUE
  SendFailures = FALSE
  MaxCSeq = 4
  MaxRefresh = 0
  MaxCount = 1
  Wrap = 16
CHECK_DEADLOCK FALSE
INVARIANT ChallengesBounded
INVARIANT StepAccounts
SYMMETRY Interchangeable
