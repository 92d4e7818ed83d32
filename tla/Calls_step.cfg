SPECIFICATION Spec
CONSTANTS
  c1 = c1
  w1 = w1
  r1 = r1
  r2 = r2
  w2 = w2
  InviteCall <- OneCall
  RegisterCall <- TwoRegisters
  MaxDialogs = 1
  Batch = 2
  Receiver <- OneReceiver
  MaxSteps = 1
  AuthRequired = FALSE
  SendFailures = FALSE
  MaxCSeq = 2
  MaxRefresh = 0
  MaxCount = 2
  Wrap = 16
CHECK_DEADLOCK FALSE
INVARIANT DialogsCounted
INVARIANT DialogBound
INVARIANT Ledger
INVARIANT CountedOnce
INVARIANT DrainAccounts
INVARIANT GaugeUndisturbed
PROPERTY ImplementsAdmission
SYMMETRY Interchangeable
