SPECIFICATION FairSpec
CONSTANTS
  i1 = i1
  i2 = i2
  n1 = n1
  s1 = s1
  s2 = s2
  r1 = r1
  InviteClient <- OneInviteClient
  NonInviteClient <- OneNonInviteClient
  InviteServer <- NoIds
  NonInviteServer <- NoIds
  MaxTransactions = 1
  Tasks = 2
  MaxPending = 2
INVARIANTS
  TimersArmed
  OneOutcome
PROPERTIES
  NonInviteSettles
  InviteSettles
  Released
  ImplementsClientTransaction
CHECK_DEADLOCK FALSE
