------------------------ MODULE MCTransactionManager ------------------------
(* TransactionManager with one or two transactions of each kind.           *)
EXTENDS TransactionManager, TLC

CONSTANTS i1, i2, n1, s1, s2, r1

NoIds == {}
OneInviteClient == {i1}
TwoInviteClients == {i1, i2}
OneNonInviteClient == {n1}
OneInviteServer == {s1}
TwoInviteServers == {s1, s2}
OneNonInviteServer == {r1}
=============================================================================
