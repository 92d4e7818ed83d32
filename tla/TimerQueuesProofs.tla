------------------------- MODULE TimerQueuesProofs -------------------------
(***************************************************************************)
(* Proofs about TimerQueues, for any tasks, queues, delays and bounds: a   *)
(* poll leaves nothing behind that is overdue by more than the spread of   *)
(* the delays of its timer and the skew (Punctual), or that has waited for *)
(* the longest delay (WaitBounded).                                        *)
(*                                                                         *)
(* A FIFO queue is in the order of its pushes, and a deadline is within    *)
(* the delays of its timer of the push, give or take the skew.  So the     *)
(* head a drain stops at, which is not due, speaks for all that is behind  *)
(* it: nothing else about the queue matters.                               *)
(***************************************************************************)
EXTENDS TimerQueues, SequenceTheorems, TLAPS

\* The clock never runs behind a reading, nor a task behind the clock by more
\* than the skew.
ClockInv ==
  /\ \A t \in Task : held[t] # None => held[t] <= now /\ now <= held[t] + MaxSkew
  /\ reading # None => reading <= now
  /\ \A k \in Kind : lastPoll[k] <= now

\* An entry was pushed in the past, and its deadline is as far from its push
\* as the delays and the skew allow.
Plausible(k, e) ==
  /\ e.pushed <= now
  /\ e.deadline <= e.pushed + Longest(k)
  /\ e.pushed + Shortest(k) <= e.deadline + MaxSkew

EntryInv == \A k \in Kind : \A i \in 1..Len(queue[k]) : Plausible(k, queue[k][i])

FifoInv ==
  \A k \in Kind : \A i, j \in 1..Len(queue[k]) :
    i <= j => queue[k][i].pushed <= queue[k][j].pushed

IInv == TypeOK /\ ClockInv /\ EntryInv /\ FifoInv /\ Punctual /\ WaitBounded

-----------------------------------------------------------------------------
(* Every delay lies between the shortest and the longest of its timer.     *)
LEMMA DelayBounds ==
  ASSUME NEW k \in Kind
  PROVE  /\ Shortest(k) \in Nat \ {0} /\ Longest(k) \in Nat \ {0}
         /\ Shortest(k) <= Longest(k)
         /\ \A d \in Delays(k) : d \in Nat /\ Shortest(k) <= d /\ d <= Longest(k)
<1>1. Patience * T1 \in Nat \ {0}
  BY TimeAssumption
<1>2. FixedDelay(k) \in Nat \ {0}
  BY <1>1, TimeAssumption DEF FixedDelay, Greatest
<1>3. CASE k = "A"
  BY <1>3, TimeAssumption DEF Shortest, Longest, Delays
<1>4. CASE k \in {"E", "G"}
  BY <1>4, TimeAssumption DEF Shortest, Longest, Delays, Least, Greatest
<1>5. CASE k \notin {"A", "E", "G"}
  BY <1>5, <1>2 DEF Shortest, Longest, Delays
<1> QED BY <1>3, <1>4, <1>5

\* The type of a step that leaves the queues alone, and of the queues' reads.
LEMMA EntryType ==
  ASSUME TypeOK, NEW k \in Kind, NEW i \in 1..Len(queue[k])
  PROVE  /\ queue[k] \in Seq(Entry) /\ Len(queue[k]) \in Nat
         /\ queue[k][i] \in Entry
         /\ queue[k][i].deadline \in Nat /\ queue[k][i].pushed \in Nat
         /\ lastPoll[k] \in Nat
<1>1. queue[k] \in Seq(Entry) /\ lastPoll[k] \in Nat
  BY DEF TypeOK
<1>2. queue[k][i] \in Entry
  BY <1>1, ElementOfSeq
<1> QED BY <1>1, <1>2, LenProperties DEF Entry

\* The arithmetic of a drain that stops at the head (hd, hp) in front of the
\* entry (ed, ep).
LEMMA HeadSpeaks ==
  ASSUME NEW hd \in Nat, NEW hp \in Nat, NEW ed \in Nat, NEW ep \in Nat, NEW p \in Nat,
         NEW short \in Nat, NEW long \in Nat, NEW skew \in Nat,
         hd > p, hd <= hp + long, hp <= ep, ep + short <= ed + skew
  PROVE  ed + (long - short) + skew > p /\ ep + long > p
  OBVIOUS

\* The arithmetic of a push: the entry is younger than the last drain.
LEMMA PushSpeaks ==
  ASSUME NEW read \in Nat, NEW at \in Nat, NEW d \in Nat, NEW p \in Nat,
         NEW short \in Nat \ {0}, NEW long \in Nat \ {0}, NEW skew \in Nat,
         read <= at, at <= read + skew, short <= d, d <= long, p <= at
  PROVE  /\ read + d <= at + long /\ at + short <= (read + d) + skew
         /\ (read + d) + (long - short) + skew > p /\ at + long > p
  OBVIOUS

LEMMA InitEstablishes == Init => IInv
<1> SUFFICES ASSUME Init PROVE IInv
  OBVIOUS
<1>1. TypeOK
  <2>1. <<>> \in Seq(Entry) /\ Len(Order) \in Nat
    BY OrderAssumption, LenProperties, EmptySeq
  <2> QED BY <2>1 DEF Init, TypeOK, None
<1>2. \A k \in Kind : Len(queue[k]) = 0
  BY EmptySeq DEF Init
<1>3. ClockInv
  BY DEF Init, ClockInv, None
<1> QED BY <1>1, <1>2, <1>3 DEF IInv, EntryInv, FifoInv, Punctual, WaitBounded

\* A step that leaves the queues and their polls alone and lets the clock
\* stand or advance preserves what is said about the queues.
LEMMA QueuesUntouched ==
  ASSUME IInv, queue' = queue, lastPoll' = lastPoll, now' \in Nat, now <= now'
  PROVE  EntryInv' /\ FifoInv' /\ Punctual' /\ WaitBounded'
<1>1. EntryInv'
  <2> SUFFICES ASSUME NEW k \in Kind, NEW i \in 1..Len(queue[k])
               PROVE  Plausible(k, queue[k][i])'
    BY DEF EntryInv
  <2>1. Plausible(k, queue[k][i])
    BY DEF IInv, EntryInv
  <2>2. queue[k][i].pushed \in Nat /\ now \in Nat
    BY EntryType DEF IInv, TypeOK
  <2>3. queue[k][i].pushed <= now'
    BY <2>1, <2>2 DEF Plausible
  <2> QED BY <2>1, <2>3 DEF Plausible, Shortest, Longest
<1>2. FifoInv' /\ Punctual' /\ WaitBounded'
  BY DEF IInv, FifoInv, Punctual, WaitBounded
<1> QED BY <1>1, <1>2

\* schedule_timer_*: the new entry is plausible, the youngest of its queue, and
\* far from late, the last drain having been in the past.
LEMMA SchedulePreserves ==
  ASSUME IInv, NEW t \in Task, NEW k \in Kind, NEW d \in Delays(k), Schedule(t, k, d)
  PROVE  IInv'
<1> DEFINE e == [deadline |-> held[t] + d, pushed |-> now]
           q == queue[k]
<1>1. /\ held[t] \in Nat /\ held[t] <= now /\ now <= held[t] + MaxSkew
      /\ now \in Nat /\ lastPoll[k] <= now /\ lastPoll[k] \in Nat
      /\ q \in Seq(Entry) /\ Len(q) \in Nat
  BY LenProperties DEF IInv, TypeOK, ClockInv, Schedule
<1>2. /\ d \in Nat /\ Shortest(k) <= d /\ d <= Longest(k)
      /\ Shortest(k) \in Nat \ {0} /\ Longest(k) \in Nat \ {0} /\ MaxSkew \in Nat
  BY DelayBounds, TimeAssumption
<1>3. e \in Entry
  BY <1>1, <1>2 DEF Entry
<1>4. /\ queue' = [queue EXCEPT ![k] = Append(q, e)]
      /\ UNCHANGED <<now, held, reading, next, lastPoll>>
  BY DEF Schedule
<1>5. /\ queue'[k] = Append(q, e)
      /\ \A j \in Kind : j # k => queue'[j] = queue[j]
  BY <1>4 DEF IInv, TypeOK
<1>6. /\ Append(q, e) \in Seq(Entry) /\ Len(Append(q, e)) = Len(q) + 1
      /\ \A i \in 1..Len(q) : Append(q, e)[i] = q[i]
      /\ Append(q, e)[Len(q) + 1] = e
  BY <1>1, <1>3, AppendProperties
<1>7. TypeOK'
  BY <1>4, <1>5, <1>6 DEF IInv, TypeOK
<1>8. ClockInv'
  BY <1>4 DEF IInv, ClockInv
<1>9. /\ Plausible(k, e)
      /\ e.deadline + (Longest(k) - Shortest(k)) + MaxSkew > lastPoll[k]
      /\ e.pushed + Longest(k) > lastPoll[k]
  <2>1. e.deadline = held[t] + d /\ e.pushed = now
    OBVIOUS
  <2>2. /\ held[t] + d <= now + Longest(k) /\ now + Shortest(k) <= (held[t] + d) + MaxSkew
        /\ (held[t] + d) + (Longest(k) - Shortest(k)) + MaxSkew > lastPoll[k]
        /\ now + Longest(k) > lastPoll[k]
    BY <1>1, <1>2, PushSpeaks
  <2>3. now <= now
    BY <1>1
  <2> QED BY <2>1, <2>2, <2>3 DEF Plausible
<1>10. \A i \in 1..(Len(q) + 1) : i \in 1..Len(q) \/ i = Len(q) + 1
  BY <1>1
<1>11. EntryInv'
  <2> SUFFICES ASSUME NEW j \in Kind, NEW i \in 1..Len(queue'[j])
               PROVE  Plausible(j, queue'[j][i])
    BY <1>4 DEF EntryInv, Plausible, Shortest, Longest
  <2>1. CASE j # k
    BY <2>1, <1>5 DEF IInv, EntryInv
  <2>2. CASE j = k
    BY <2>2, <1>5, <1>6, <1>9, <1>10 DEF IInv, EntryInv
  <2> QED BY <2>1, <2>2
<1>12. FifoInv'
  <2> SUFFICES ASSUME NEW j \in Kind, NEW m \in 1..Len(queue'[j]), NEW n \in 1..Len(queue'[j]),
                      m <= n
               PROVE  queue'[j][m].pushed <= queue'[j][n].pushed
    BY DEF FifoInv
  <2>1. CASE j # k
    BY <2>1, <1>5 DEF IInv, FifoInv
  <2>2. CASE j = k /\ n \in 1..Len(q)
    <3>1. m \in 1..Len(q)
      BY <2>2, <1>1, <1>5, <1>6
    <3> QED BY <3>1, <2>2, <1>5, <1>6 DEF IInv, FifoInv
  <2>3. CASE j = k /\ n = Len(q) + 1
    <3>1. queue'[k][n].pushed = now
      BY <2>3, <1>5, <1>6
    <3>2. CASE m \in 1..Len(q)
      BY <3>1, <3>2, <2>3, <1>5, <1>6 DEF IInv, EntryInv, Plausible
    <3>3. CASE m = Len(q) + 1
      BY <3>1, <3>3, <2>3, <1>1
    <3> QED BY <3>2, <3>3, <2>3, <1>5, <1>6, <1>10
  <2> QED BY <2>1, <2>2, <2>3, <1>5, <1>6, <1>10
<1>13. Punctual'
  <2> SUFFICES ASSUME NEW j \in Kind, NEW i \in 1..Len(queue'[j])
               PROVE  queue'[j][i].deadline + (Longest(j) - Shortest(j)) + MaxSkew > lastPoll[j]
    BY <1>4 DEF Punctual, Shortest, Longest
  <2>1. CASE j # k
    BY <2>1, <1>5 DEF IInv, Punctual
  <2>2. CASE j = k
    BY <2>2, <1>5, <1>6, <1>9, <1>10 DEF IInv, Punctual
  <2> QED BY <2>1, <2>2
<1>14. WaitBounded'
  <2> SUFFICES ASSUME NEW j \in Kind, NEW i \in 1..Len(queue'[j])
               PROVE  queue'[j][i].pushed + Longest(j) > lastPoll[j]
    BY <1>4 DEF WaitBounded, Longest
  <2>1. CASE j # k
    BY <2>1, <1>5 DEF IInv, WaitBounded
  <2>2. CASE j = k
    BY <2>2, <1>5, <1>6, <1>9, <1>10 DEF IInv, WaitBounded
  <2> QED BY <2>1, <2>2
<1> QED BY <1>7, <1>8, <1>11, <1>12, <1>13, <1>14 DEF IInv

\* drain_queue: whatever is left was pushed after the head the drain stopped
\* at, and that head was not due.
LEMMA DrainPreserves ==
  ASSUME IInv, NEW k \in Kind, Drain(k)
  PROVE  IInv'
<1> DEFINE q == queue[k]
<1> PICK n \in 0..Len(q) : PopExpired(k, n)
  BY DEF Drain
<1> DEFINE r == SubSeq(q, n + 1, Len(q))
<1>1. /\ q \in Seq(Entry) /\ Len(q) \in Nat /\ n \in Nat /\ n <= Len(q)
      /\ reading \in Nat /\ reading <= now /\ now \in Nat
      /\ MaxSkew \in Nat
      /\ Shortest(k) \in Nat \ {0} /\ Longest(k) \in Nat \ {0} /\ Shortest(k) <= Longest(k)
  BY LenProperties, DelayBounds, TimeAssumption DEF IInv, TypeOK, ClockInv, Drain
<1>2. \A i \in 1..Len(q) : q[i] \in Entry
  BY <1>1, ElementOfSeq
<1>3. /\ queue' = [queue EXCEPT ![k] = r]
      /\ lastPoll' = [lastPoll EXCEPT ![k] = reading]
      /\ next' = next + 1 /\ next <= Len(Order)
      /\ UNCHANGED <<now, held, reading>>
  BY DEF Drain, PopExpired
<1>4. /\ queue'[k] = r /\ lastPoll'[k] = reading
      /\ \A j \in Kind : j # k => queue'[j] = queue[j] /\ lastPoll'[j] = lastPoll[j]
  BY <1>3 DEF IInv, TypeOK
<1>5. /\ r \in Seq(Entry) /\ Len(r) = Len(q) - n
      /\ \A i \in 1..Len(r) : i + n \in 1..Len(q) /\ r[i] = q[i + n]
  <2>1. \A i \in (n + 1)..Len(q) : q[i] \in Entry
    BY <1>1, <1>2
  <2>2. /\ r \in Seq(Entry)
        /\ Len(r) = IF n + 1 <= Len(q) THEN Len(q) - (n + 1) + 1 ELSE 0
        /\ \A i \in 1..(Len(q) - (n + 1) + 1) : r[i] = q[(n + 1) + i - 1]
    BY <1>1, <2>1, SubSeqProperties
  <2>3. Len(r) = Len(q) - n
    BY <1>1, <2>2
  <2>4. ASSUME NEW i \in 1..Len(r)
        PROVE  i + n \in 1..Len(q) /\ r[i] = q[i + n]
    <3>1. i \in 1..(Len(q) - (n + 1) + 1) /\ (n + 1) + i - 1 = i + n /\ i + n \in 1..Len(q)
      BY <1>1, <2>3, <2>4
    <3> QED BY <2>2, <3>1
  <2> QED BY <2>2, <2>3, <2>4
<1>6. TypeOK'
  <2>1. Len(Order) \in Nat
    BY OrderAssumption, LenProperties
  <2>2. next' \in 1..Len(Order) + 1
    BY <1>3, <2>1 DEF IInv, TypeOK
  <2> QED BY <1>1, <1>3, <1>4, <1>5, <2>2 DEF IInv, TypeOK
<1>7. ClockInv'
  BY <1>1, <1>3, <1>4 DEF IInv, ClockInv
<1>8. EntryInv'
  <2> SUFFICES ASSUME NEW j \in Kind, NEW i \in 1..Len(queue'[j])
               PROVE  Plausible(j, queue'[j][i])
    BY <1>3 DEF EntryInv, Plausible, Shortest, Longest
  <2> QED BY <1>4, <1>5 DEF IInv, EntryInv
<1>9. FifoInv'
  <2> SUFFICES ASSUME NEW j \in Kind, NEW a \in 1..Len(queue'[j]), NEW b \in 1..Len(queue'[j]),
                      a <= b
               PROVE  queue'[j][a].pushed <= queue'[j][b].pushed
    BY DEF FifoInv
  <2>1. CASE j # k
    BY <2>1, <1>4 DEF IInv, FifoInv
  <2>2. CASE j = k
    <3>1. a + n <= b + n
      BY <1>1, <1>4, <1>5, <2>2
    <3> QED BY <3>1, <2>2, <1>4, <1>5 DEF IInv, FifoInv
  <2> QED BY <2>1, <2>2
<1>10. ASSUME NEW i \in 1..Len(r)
       PROVE  /\ r[i].deadline + (Longest(k) - Shortest(k)) + MaxSkew > reading
              /\ r[i].pushed + Longest(k) > reading
  <2>1. n < Len(q) /\ n + 1 \in 1..Len(q) /\ n + 1 <= i + n /\ i + n \in 1..Len(q)
    BY <1>1, <1>5
  <2> DEFINE h == q[n + 1]
             e == q[i + n]
  <2>2. h.deadline > reading
    BY <2>1 DEF PopExpired
  <2>3. h.pushed <= e.pushed
    BY <2>1 DEF IInv, FifoInv
  <2>4. Plausible(k, h) /\ Plausible(k, e)
    BY <2>1 DEF IInv, EntryInv
  <2>5. h \in Entry /\ e \in Entry
    BY <1>2, <2>1
  <2>6. /\ h.deadline <= h.pushed + Longest(k)
        /\ e.pushed + Shortest(k) <= e.deadline + MaxSkew
    BY <2>4 DEF Plausible
  <2>7. /\ h.deadline \in Nat /\ h.pushed \in Nat
        /\ e.deadline \in Nat /\ e.pushed \in Nat
    BY <2>5 DEF Entry
  <2>8. /\ e.deadline + (Longest(k) - Shortest(k)) + MaxSkew > reading
        /\ e.pushed + Longest(k) > reading
    <3> DEFINE hd == h.deadline
               hp == h.pushed
               ed == e.deadline
               ep == e.pushed
               short == Shortest(k)
               long == Longest(k)
    <3>1. /\ hd \in Nat /\ hp \in Nat /\ ed \in Nat /\ ep \in Nat
          /\ short \in Nat /\ long \in Nat /\ reading \in Nat /\ MaxSkew \in Nat
          /\ hd > reading /\ hd <= hp + long /\ hp <= ep /\ ep + short <= ed + MaxSkew
      BY <1>1, <2>2, <2>3, <2>6, <2>7
    <3>2. ed + (long - short) + MaxSkew > reading /\ ep + long > reading
      <4> HIDE DEF hd, hp, ed, ep, short, long
      <4> QED BY <3>1, HeadSpeaks
    <3> QED BY <3>2
  <2> QED BY <2>8, <1>5
<1>11. Punctual'
  <2> SUFFICES ASSUME NEW j \in Kind, NEW i \in 1..Len(queue'[j])
               PROVE  queue'[j][i].deadline + (Longest(j) - Shortest(j)) + MaxSkew > lastPoll'[j]
    BY DEF Punctual, Shortest, Longest
  <2>1. CASE j # k
    BY <2>1, <1>4 DEF IInv, Punctual
  <2>2. CASE j = k
    BY <2>2, <1>4, <1>10
  <2> QED BY <2>1, <2>2
<1>12. WaitBounded'
  <2> SUFFICES ASSUME NEW j \in Kind, NEW i \in 1..Len(queue'[j])
               PROVE  queue'[j][i].pushed + Longest(j) > lastPoll'[j]
    BY DEF WaitBounded, Longest
  <2>1. CASE j # k
    BY <2>1, <1>4 DEF IInv, WaitBounded
  <2>2. CASE j = k
    BY <2>2, <1>4, <1>10
  <2> QED BY <2>1, <2>2
<1> QED BY <1>6, <1>7, <1>8, <1>9, <1>11, <1>12 DEF IInv

-----------------------------------------------------------------------------
LEMMA StepPreserves == IInv /\ [Next]_vars => IInv'
<1> SUFFICES ASSUME IInv, [Next]_vars PROVE IInv'
  OBVIOUS
<1>1. /\ now \in Nat /\ MaxSkew \in Nat
      /\ held \in [Task -> Nat \cup {None}] /\ reading \in Nat \cup {None}
      /\ next \in 1..Len(Order) + 1
  BY TimeAssumption DEF IInv, TypeOK
<1>2. Len(Order) \in Nat
  BY OrderAssumption, LenProperties
<1>3. CASE Tick
  <2>1. TypeOK'
    BY <1>1, <1>3 DEF IInv, TypeOK, Tick
  <2>2. ClockInv'
    <3>1. \A t \in Task : held[t] # None => held[t] <= now + 1 /\ now + 1 <= held[t] + MaxSkew
      BY <1>1, <1>3 DEF IInv, ClockInv, Tick
    <3>2. \A k \in Kind : lastPoll[k] <= now + 1
      BY <1>1 DEF IInv, ClockInv, TypeOK
    <3>3. reading # None => reading <= now + 1
      BY <1>1 DEF IInv, ClockInv, None
    <3> QED BY <1>3, <3>1, <3>2, <3>3 DEF ClockInv, Tick
  <2>3. now' \in Nat /\ now <= now'
    BY <1>1, <1>3 DEF Tick
  <2> QED BY <1>3, <2>1, <2>2, <2>3, QueuesUntouched DEF IInv, Tick
<1>4. CASE \E t \in Task : ReadClock(t) \/ Leave(t)
  <2> PICK t \in Task : ReadClock(t) \/ Leave(t)
    BY <1>4
  <2>1. TypeOK'
    BY <1>1 DEF IInv, TypeOK, ReadClock, Leave
  <2>2. ClockInv'
    BY <1>1 DEF IInv, ClockInv, ReadClock, Leave
  <2>3. now' \in Nat /\ now <= now'
    BY <1>1 DEF ReadClock, Leave
  <2>4. queue' = queue /\ lastPoll' = lastPoll
    BY DEF ReadClock, Leave
  <2> QED BY <2>1, <2>2, <2>3, <2>4, QueuesUntouched DEF IInv
<1>5. CASE \E t \in Task, k \in Kind : \E d \in Delays(k) : Schedule(t, k, d)
  BY <1>5, SchedulePreserves
<1>6. CASE BeginPoll \/ EndPoll
  <2>1. TypeOK'
    BY <1>1, <1>2, <1>6 DEF IInv, TypeOK, BeginPoll, EndPoll
  <2>2. ClockInv'
    BY <1>1, <1>6 DEF IInv, ClockInv, BeginPoll, EndPoll
  <2>3. now' \in Nat /\ now <= now' /\ queue' = queue /\ lastPoll' = lastPoll
    BY <1>1, <1>6 DEF BeginPoll, EndPoll
  <2> QED BY <2>1, <2>2, <2>3, QueuesUntouched DEF IInv
<1>7. CASE \E k \in Kind : Drain(k)
  BY <1>7, DrainPreserves
<1>8. CASE UNCHANGED vars
  <2>1. TypeOK' /\ ClockInv'
    BY <1>8 DEF IInv, TypeOK, ClockInv, vars
  <2>2. now' \in Nat /\ now <= now' /\ queue' = queue /\ lastPoll' = lastPoll
    BY <1>1, <1>8 DEF vars
  <2> QED BY <2>1, <2>2, QueuesUntouched DEF IInv
<1> QED BY <1>3, <1>4, <1>5, <1>6, <1>7, <1>8 DEF Next

LEMMA Inductive == Spec => []IInv
<1> QED BY InitEstablishes, StepPreserves, PTL DEF Spec

\* Type correctness: the clock readings and queues of TimerManager stay what
\* they are.
THEOREM TimersTypeCorrect == Spec => []TypeOK
<1>1. IInv => TypeOK
  BY DEF IInv
<1> QED BY <1>1, Inductive, PTL

\* poll_expired leaves no entry behind that is overdue by more than the spread
\* of the delays of its timer and the skew of the tasks; with one delay per
\* timer that is the skew alone.
THEOREM PollsArePunctual == Spec => []Punctual
<1>1. IInv => Punctual
  BY DEF IInv
<1> QED BY <1>1, Inductive, PTL

\* No entry is held up by those in front of it for longer than the longest
\* delay of its timer, counted from its push to the poll that takes it.
THEOREM BlockingIsBounded == Spec => []WaitBounded
<1>1. IInv => WaitBounded
  BY DEF IInv
<1> QED BY <1>1, Inductive, PTL
=============================================================================
