----------------------------- MODULE Admission -----------------------------
(***************************************************************************)
(* What a table with a limit promises when its users read the number of    *)
(* entries first and insert later, as the maps of src/src/transaction and  *)
(* src/src/dialog are used: who is inserted passed the limit check of his  *)
(* own, under a key that was free, as one of a limited number of tasks,    *)
(* and what has left the table comes back by a new check only.             *)
(***************************************************************************)
EXTENDS Naturals, FiniteSets

CONSTANTS
  Id,     \* the keys
  Limit,  \* how many entries the check allows
  Tasks   \* how many tasks are between the check and the end of the insertion

VARIABLES
  counted,  \* the keys of the entries the next check will count
  entering  \* the keys that passed the check and are not counted yet

vars == <<counted, entering>>

Init == counted = {} /\ entering = {}

\* The check, which sees neither the keys that are entering nor itself.
Enter(id) ==
  /\ id \notin counted \cup entering
  /\ Cardinality(counted) < Limit
  /\ Cardinality(entering) < Tasks
  /\ entering' = entering \cup {id}
  /\ UNCHANGED counted

Admit(id) ==
  /\ id \in entering
  /\ entering' = entering \ {id}
  /\ counted' = counted \cup {id}

Leave(id) ==
  /\ id \in counted
  /\ counted' = counted \ {id}
  /\ UNCHANGED entering

Next == \E id \in Id : Enter(id) \/ Admit(id) \/ Leave(id)

Spec == Init /\ [][Next]_vars
=============================================================================
