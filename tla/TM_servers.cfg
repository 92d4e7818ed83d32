SPECIFICATION FairSpec
CONSTANTS
  i1 = i1
  i2 = i2
  n1 = n1
  s1 = s1
  s2 = s2
  r1 = r1
  InviteClient <- NoIds
  NonInviteClient <- NoIds
  InviteServer <- OneInviteServer
  NonInviteServer <- OneNonInviteServer
  MaxTransactions = 2
  Tasks = 2
  MaxPending = 2
INVARIANTS
  OneAnswer
  CleanupSafe
PROPERTIES
  ForwardOnly
  Released
  AnswerKept
