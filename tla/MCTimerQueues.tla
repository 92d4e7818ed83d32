--------------------------- MODULE MCTimerQueues ---------------------------
(* TimerQueues on a small instance: one doubling timer and one fixed timer, *)
(* two tasks, delays small enough for every order of push, tick and drain.  *)
EXTENDS TimerQueues, TLC

CONSTANTS t1, t2

TwoTasks == {t1, t2}
DoublingAndFixed == <<"A", "I">>
OneDoubling == {1, 2}

Interchangeable == Permutations(TwoTasks)
=============================================================================
