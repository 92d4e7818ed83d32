------------------------------ MODULE MCCalls ------------------------------
(* Instances of Calls for TLC. *)
EXTENDS Calls, TLC

CONSTANTS c1, r1, r2, w1, w2

NoCall == {}
OneCall == {c1}
TwoRegisters == {r1, r2}
OneReceiver == {w1}
TwoReceivers == {w1, w2}

Interchangeable == Permutations(RegisterCall) \cup Permutations(Receiver)
=============================================================================
