---------------------------- MODULE TimerQueues ----------------------------
(***************************************************************************)
(* TimerManager (transaction/timer.rs): one FIFO queue per kind of timer,  *)
(* so that a tick looks at the heads only.  Popping the head until it is   *)
(* not due is right as long as the queue is in the order of its deadlines. *)
(* It need not be: two tasks read the clock and push in different orders,  *)
(* and the retransmission timers A, E and G are scheduled with growing     *)
(* delays.  This module keeps the clock and asks how late an entry can be. *)
(*                                                                         *)
(* A task reads the clock once and schedules with that reading; tick reads *)
(* it once and drains the queues one after the other, each under its own   *)
(* lock.  Everything else runs in between.  Transactions are left out (see *)
(* TransactionManager): any task may schedule any timer.                   *)
(***************************************************************************)
EXTENDS Integers, Sequences

CONSTANTS
  Task,            \* the tasks that schedule timers
  Order,           \* the queues in the order poll_expired drains them
  T1, T2, T4,      \* TimerConfig
  Patience,        \* the timeouts are Patience * T1 (64 in the program)
  WaitD,           \* the least Timer D (32 s in the program)
  Intervals,       \* the delays of Timer A: T1 and its doublings
  LongestInterval, \* the last doubling before Timer B ends the transaction
  MaxSkew,         \* bound: time between reading the clock and pushing
  MaxTime,         \* bound: the clock
  MaxLen           \* bound: entries in a queue

Timer == {"A", "B", "D", "E", "F", "G", "H", "I", "J", "K"}

Kind == {Order[i] : i \in DOMAIN Order}

ASSUME OrderAssumption == Order \in Seq(Timer)

ASSUME TimeAssumption ==
  /\ T1 \in Nat \ {0} /\ T2 \in Nat \ {0} /\ T4 \in Nat \ {0}
  /\ Patience \in Nat \ {0} /\ WaitD \in Nat
  /\ LongestInterval \in Nat /\ Intervals \subseteq T1..LongestInterval
  /\ T1 \in Intervals
  /\ \A d \in Intervals : d = T1 \/ \E e \in Intervals : d = 2 * e
  /\ MaxSkew \in Nat /\ MaxTime \in Nat /\ MaxLen \in Nat

Least(a, b) == IF a <= b THEN a ELSE b
Greatest(a, b) == IF a <= b THEN b ELSE a

\* The one delay of each timer that is not a retransmission timer.
FixedDelay(k) ==
  CASE k = "D" -> Greatest(WaitD, Patience * T1)
    [] k \in {"I", "K"} -> T4
    [] OTHER -> Patience * T1

\* Timer A doubles without a cap; E and G start at T1 and stop growing at T2.
Delays(k) ==
  CASE k = "A" -> Intervals
    [] k \in {"E", "G"} -> {T1, T2} \cup {Least(d, T2) : d \in Intervals}
    [] OTHER -> {FixedDelay(k)}

\* A task that is not inside the manager, and a tick loop that sleeps.
None == -1

VARIABLES
  now,      \* the clock
  held,     \* held[t]: the clock reading task t schedules with
  queue,    \* queue[k]: entries of timer k, pushed at the back
  reading,  \* the clock reading of the poll in progress
  next,     \* the queue that poll drains next
  lastPoll  \* lastPoll[k]: the reading queue k was last drained with

vars == <<now, held, queue, reading, next, lastPoll>>

\* The time of the push is history: the program keeps the deadline only.
Entry == [deadline : Nat, pushed : Nat]

Init ==
  /\ now = 0
  /\ held = [t \in Task |-> None]
  /\ queue = [k \in Kind |-> <<>>]
  /\ reading = None
  /\ next = 1
  /\ lastPoll = [k \in Kind |-> 0]

\* Time passes, but not so long that a task would hold its reading beyond
\* MaxSkew.
Tick ==
  /\ now < MaxTime
  /\ \A t \in Task : held[t] # None => now < held[t] + MaxSkew
  /\ now' = now + 1
  /\ UNCHANGED <<held, queue, reading, next, lastPoll>>

\* let now = Instant::now(), on entering the manager.
ReadClock(t) ==
  /\ held[t] = None
  /\ held' = [held EXCEPT ![t] = now]
  /\ UNCHANGED <<now, queue, reading, next, lastPoll>>

\* Mutant: push_front.
ScheduleFirst(t, k, d) ==
  /\ held[t] # None /\ Len(queue[k]) < MaxLen
  /\ queue' = [queue EXCEPT ![k] = <<[deadline |-> held[t] + d, pushed |-> now]>> \o @]
  /\ UNCHANGED <<now, held, reading, next, lastPoll>>

\* schedule_timer_*: push_back under the lock of the queue.
Schedule(t, k, d) ==
  /\ held[t] # None /\ Len(queue[k]) < MaxLen
  /\ queue' = [queue EXCEPT ![k] = Append(@, [deadline |-> held[t] + d, pushed |-> now])]
  /\ UNCHANGED <<now, held, reading, next, lastPoll>>

Leave(t) ==
  /\ held[t] # None
  /\ held' = [held EXCEPT ![t] = None]
  /\ UNCHANGED <<now, queue, reading, next, lastPoll>>

\* tick: poll_expired(Instant::now()).
BeginPoll ==
  /\ reading = None
  /\ reading' = now
  /\ next' = 1
  /\ UNCHANGED <<now, held, queue, lastPoll>>

\* Mutant: if instead of while.
PopOne(k, n) ==
  /\ n = IF queue[k] # <<>> /\ queue[k][1].deadline <= reading THEN 1 ELSE 0
  /\ queue' = [queue EXCEPT ![k] = SubSeq(@, n + 1, Len(@))]

\* The while loop of drain_queue pops the n entries at the head that are due.
PopExpired(k, n) ==
  /\ \A i \in 1..n : queue[k][i].deadline <= reading
  /\ n < Len(queue[k]) => queue[k][n + 1].deadline > reading
  /\ queue' = [queue EXCEPT ![k] = SubSeq(@, n + 1, Len(@))]

\* drain_queue, under the lock of the queue.
Drain(k) ==
  /\ reading # None /\ next <= Len(Order) /\ k = Order[next]
  /\ \E n \in 0..Len(queue[k]) : PopExpired(k, n)
  /\ lastPoll' = [lastPoll EXCEPT ![k] = reading]
  /\ next' = next + 1
  /\ UNCHANGED <<now, held, reading>>

EndPoll ==
  /\ reading # None /\ next > Len(Order)
  /\ reading' = None
  /\ UNCHANGED <<now, held, queue, next, lastPoll>>

Next ==
  \/ Tick
  \/ \E t \in Task : ReadClock(t) \/ Leave(t)
  \/ \E t \in Task, k \in Kind : \E d \in Delays(k) : Schedule(t, k, d)
  \/ BeginPoll \/ EndPoll
  \/ \E k \in Kind : Drain(k)

Spec == Init /\ [][Next]_vars

-----------------------------------------------------------------------------
TypeOK ==
  /\ now \in Nat
  /\ held \in [Task -> Nat \cup {None}]
  /\ queue \in [Kind -> Seq(Entry)]
  /\ reading \in Nat \cup {None}
  /\ next \in 1..Len(Order) + 1
  /\ lastPoll \in [Kind -> Nat]

Shortest(k) ==
  CASE k = "A" -> T1
    [] k \in {"E", "G"} -> Least(T1, T2)
    [] OTHER -> FixedDelay(k)

Longest(k) ==
  CASE k = "A" -> LongestInterval
    [] k \in {"E", "G"} -> Greatest(T1, T2)
    [] OTHER -> FixedDelay(k)

\* An entry that a poll left behind was not overdue by more than the spread of
\* the delays of its timer and the skew of the tasks.  A timer with one delay
\* is late by the skew only, whatever the interleaving of the pushes; Timer A,
\* whose interval doubles without a cap, can be held up by a longer one in
\* front of it for nearly that longer interval.
Punctual ==
  \A k \in Kind : \A i \in 1..Len(queue[k]) :
    queue[k][i].deadline + (Longest(k) - Shortest(k)) + MaxSkew > lastPoll[k]

\* No entry waits in a queue longer than the longest delay of its timer and
\* the time to the next poll: what is in front of it goes away in time.
WaitBounded ==
  \A k \in Kind : \A i \in 1..Len(queue[k]) :
    queue[k][i].pushed + Longest(k) > lastPoll[k]
=============================================================================
