------------------------- MODULE ClientTransaction -------------------------
(***************************************************************************)
(* What the transaction layer of src/src/transaction promises the user of  *)
(* a client transaction, without states, timers, queues, limits or tasks:  *)
(* a request is outstanding until it is either answered or given up, the   *)
(* user is told which, and the transaction is then released.               *)
(***************************************************************************)

CONSTANT Id   \* the client transactions

VARIABLES
  phase,  \* phase[id]: how far the transaction has come
  heard   \* heard[id]: the ends of it that were reported to its user

vars == <<phase, heard>>

Phase == {"idle", "outstanding", "decided", "released"}
End == {"response", "timeout"}

Init ==
  /\ phase = [id \in Id |-> "idle"]
  /\ heard = [id \in Id |-> {}]

Submit(id) ==
  /\ phase[id] = "idle"
  /\ phase' = [phase EXCEPT ![id] = "outstanding"]
  /\ UNCHANGED heard

\* The one moment at which the user hears the end of the transaction.
Decide(id, end) ==
  /\ phase[id] = "outstanding"
  /\ phase' = [phase EXCEPT ![id] = "decided"]
  /\ heard' = [heard EXCEPT ![id] = {end}]

Release(id) ==
  /\ phase[id] = "decided"
  /\ phase' = [phase EXCEPT ![id] = "released"]
  /\ UNCHANGED heard

Next == \E id \in Id :
  \/ Submit(id)
  \/ \E end \in End : Decide(id, end)
  \/ Release(id)

Safe == Init /\ [][Next]_vars

\* A transaction whose end was reported does not keep its place.
Releases == \A id \in Id : phase[id] = "decided" ~> phase[id] = "released"

Spec == Safe /\ Releases
=============================================================================
