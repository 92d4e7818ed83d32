SPECIFICATION Spec
CONSTANTS
  c1 = c1
  w1 = w1
  r1 = r1
  r2 = r2
  w2 = w2
  InviteCall <- OneCall
  RegisterCall <- NoCall
  MaxDialogs = 1
  Batch = 1
  Receiver <- OneReceiver
  MaxSteps = 0
  AuthRequired = FALSE
  SendFailures = FALSE
  MaxCSeq = 2
  MaxRefresh = 0
  MaxCount = 1
  Wrap = 16
CHECK_DEADLOCK FALSE
INVARIANT TimeoutsCounted
