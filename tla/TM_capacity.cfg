SPECIFICATION Spec
CONSTANTS
  i1 = i1
  i2 = i2
  n1 = n1
  s1 = s1
  s2 = s2
  r1 = r1
  InviteClient <- TwoInviteClients
  NonInviteClient <- NoIds
  InviteServer <- NoIds
  NonInviteServer <- OneNonInviteServer
  MaxTransactions = 1
  Tasks = 2
  MaxPending = 1
INVARIANTS
  CapacityBound
PROPERTY
  ImplementsAdmission
