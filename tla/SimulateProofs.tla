--------------------------- MODULE SimulateProofs ---------------------------
(***************************************************************************)
(* Proofs about the event queue and the loop that serves it, for any set   *)
(* of events, any priorities and any number of ticks: the order in which   *)
(* events are served, the flag Scheduled, and the limit event of a call of *)
(* simulate().                                                             *)
(***************************************************************************)
EXTENDS Simulate, SequenceLemmas

-----------------------------------------------------------------------------
(* The order.                                                              *)

\* The event y does not come before x when the ticks are those of w.
Waits(w, x, y) == ~Before(w[y], Priority[y], w[x], Priority[x])

Sorted(s, w) == \A i, j \in 1 .. Len(s) : i < j => Waits(w, s[i], s[j])

Clock == [Event -> Tick]

LEMMA BeforeFacts ==
  ASSUME NEW t \in Nat, NEW u \in Nat, NEW v \in Nat, NEW p \in Int, NEW q \in Int, NEW r \in Int
  PROVE  /\ Before(t, p, u, q) => ~Before(u, q, t, p)
         /\ ~Before(t, p, u, q) /\ ~Before(u, q, v, r) => ~Before(t, p, v, r)
BY DEF Before

\* The ticks of the events of s are not the one that changes.
LEMMA SortedElsewhere ==
  ASSUME NEW w \in Clock, NEW s \in Seq(Event), NEW e \in Event, NEW t, e \notin Range(s),
         Sorted(s, w)
  PROVE  Sorted(s, [w EXCEPT ![e] = t])
<1>1. \A i \in 1 .. Len(s) : s[i] \in Event /\ s[i] # e
  BY DEF Range
<1>2. \A i \in 1 .. Len(s) : [w EXCEPT ![e] = t][s[i]] = w[s[i]]
  BY <1>1 DEF Clock
<1> QED BY <1>2, Zenon DEF Sorted, Waits

LEMMA EnteredSorted ==
  ASSUME NEW w \in Clock, NEW s \in Seq(Event), NEW e \in Event, NEW t \in Tick,
         e \notin Range(s), Sorted(s, w), NEW i \in 1 .. Len(s) + 1, w = when, EntersAt(s, i, e, t)
  PROVE  Sorted(InsertedAt(s, i, e), [w EXCEPT ![e] = t])
<1> DEFINE v == [w EXCEPT ![e] = t]
           r == InsertedAt(s, i, e)
<1>1. /\ Len(r) = Len(s) + 1
      /\ \A j \in 1 .. Len(s) + 1 : r[j] = IF j < i THEN s[j] ELSE IF j = i THEN e ELSE s[j - 1]
  BY InsertedAtElements
<1>2. Sorted(s, v)
  BY SortedElsewhere, Zenon
<1>3. v \in [Event -> Nat] /\ v[e] = t /\ \A j \in 1 .. Len(s) : s[j] \in Event /\ v[s[j]] = w[s[j]]
  BY MaxTickAssumption DEF Clock, Tick, Range
<1> HIDE DEF r, v
<1>4. \A x, y, z \in Event : Waits(v, x, y) /\ Waits(v, y, z) => Waits(v, x, z)
  BY <1>3, BeforeFacts, PriorityAssumption, Zenon DEF Waits
<1>5. ASSUME NEW j \in 1 .. i - 1 PROVE Waits(v, s[j], e)
  <2>1. j \in 1 .. Len(s) /\ Before(v[s[j]], Priority[s[j]], v[e], Priority[e])
    BY <1>3 DEF EntersAt
  <2>2. v[s[j]] \in Nat /\ v[e] \in Nat /\ Priority[s[j]] \in Int /\ Priority[e] \in Int
    BY <1>3, <2>1, PriorityAssumption
  <2> QED BY <2>1, <2>2, BeforeFacts, Zenon DEF Waits
<1>6. ASSUME NEW j \in i .. Len(s) PROVE Waits(v, e, s[j])
  <2>1. i \in 1 .. Len(s) /\ j \in 1 .. Len(s)
    OBVIOUS
  <2>2. Waits(v, e, s[i])
    BY <1>3, <2>1 DEF EntersAt, Waits
  <2>3. CASE j = i
    BY <2>2, <2>3
  <2>4. CASE j # i
    <3>1. Waits(v, s[i], s[j])
      BY <1>2, <2>1, <2>4 DEF Sorted
    <3> QED BY <1>3, <1>4, <2>1, <2>2, <3>1
  <2> QED BY <2>3, <2>4
<1>7. ASSUME NEW j \in 1 .. Len(r), NEW k \in 1 .. Len(r), j < k PROVE Waits(v, r[j], r[k])
  <2>1. CASE k < i
    <3>1. j \in 1 .. Len(s) /\ k \in 1 .. Len(s) /\ r[j] = s[j] /\ r[k] = s[k]
      BY <1>1, <1>7, <2>1
    <3> QED BY <1>2, <1>7, <3>1 DEF Sorted
  <2>2. CASE k = i
    <3>1. j \in 1 .. i - 1 /\ r[j] = s[j] /\ r[k] = e
      BY <1>1, <1>7, <2>2
    <3> QED BY <1>5, <3>1
  <2>3. CASE k > i /\ j < i
    <3>1. /\ j \in 1 .. Len(s) /\ k - 1 \in 1 .. Len(s) /\ j < k - 1
          /\ r[j] = s[j] /\ r[k] = s[k - 1]
      BY <1>1, <1>7, <2>3
    <3> QED BY <1>2, <3>1 DEF Sorted
  <2>4. CASE j = i
    <3>1. k - 1 \in i .. Len(s) /\ r[j] = e /\ r[k] = s[k - 1]
      BY <1>1, <1>7, <2>4
    <3> QED BY <1>6, <3>1
  <2>5. CASE j > i
    <3>1. /\ j - 1 \in 1 .. Len(s) /\ k - 1 \in 1 .. Len(s) /\ j - 1 < k - 1
          /\ r[j] = s[j - 1] /\ r[k] = s[k - 1]
      BY <1>1, <1>7, <2>5
    <3> QED BY <1>2, <3>1 DEF Sorted
  <2> QED BY <1>1, <2>1, <2>2, <2>3, <2>4, <2>5
<1> QED BY <1>7, Zenon DEF Sorted, r, v

\* A list without one of its positions.
LEMMA RemovedSorted ==
  ASSUME NEW w, NEW s \in Seq(Event), NEW i \in 1 .. Len(s), Sorted(s, w)
  PROVE  Sorted(RemovedAt(s, i), w)
<1> DEFINE r == RemovedAt(s, i)
           at(j) == IF j < i THEN j ELSE j + 1
<1>1. Len(r) = Len(s) - 1 /\ \A j \in 1 .. Len(s) - 1 : r[j] = s[at(j)] /\ at(j) \in 1 .. Len(s)
  BY RemovedAtElements
<1>2. \A j, k \in 1 .. Len(s) - 1 : j < k => at(j) < at(k)
  OBVIOUS
<1> HIDE DEF r, at
<1>3. ASSUME NEW j \in 1 .. Len(r), NEW k \in 1 .. Len(r), j < k PROVE Waits(w, r[j], r[k])
  BY <1>1, <1>2, <1>3, Zenon DEF Sorted
<1> QED BY <1>3 DEF Sorted, r

-----------------------------------------------------------------------------
(* The steps of the queue.  Its invariant says, besides the two properties *)
(* of EventOrder, that only events in the queue are squashed.              *)

OrderInv == OrderTypeOK /\ InTickOrder /\ FlagsMatchQueue /\ squashed \subseteq scheduled

LEMMA OrderInvFacts ==
  ASSUME OrderInv
  PROVE  /\ pending \in Seq(Event) /\ when \in Clock /\ IsInjective(pending)
         /\ Sorted(pending, when) /\ scheduled = Range(pending) /\ curTick \in Tick
BY DEF OrderInv, OrderTypeOK, InTickOrder, FlagsMatchQueue, Clock, Sorted, Waits

\* What is left to show of a step is that the new queue is a queue, of the events that
\* have the flag, and that these are not in the past.
LEMMA OrderInvNext ==
  ASSUME pending' \in Seq(Event), when' \in Clock, IsInjective(pending'), Sorted(pending', when'),
         scheduled' = Range(pending'), \A e \in scheduled' : when'[e] >= curTick',
         curTick' \in Tick, live' \subseteq Event, scheduled' \subseteq live',
         squashed' \subseteq scheduled'
  PROVE  OrderInv'
BY Zenon DEF OrderInv, OrderTypeOK, InTickOrder, FlagsMatchQueue, Clock, Sorted, Waits

\* e enters a queue s that it is not in.
LEMMA EnterInv ==
  ASSUME OrderInv, NEW s \in Seq(Event), IsInjective(s), Sorted(s, when), NEW e \in Event,
         NEW t \in Tick, t >= curTick, e \notin Range(s), Range(s) \subseteq scheduled,
         Enter(s, e, t), when' = [when EXCEPT ![e] = t], scheduled' = Range(s) \cup {e},
         live' \in SUBSET Event, scheduled' \subseteq live', squashed' \subseteq scheduled',
         curTick' = curTick
  PROVE  OrderInv'
<1>1. PICK i \in 1 .. Len(s) + 1 : EntersAt(s, i, e, t) /\ pending' = InsertedAt(s, i, e)
  BY DEF Enter
<1>2. when \in Clock /\ curTick \in Tick
  BY OrderInvFacts
<1>3. pending' \in Seq(Event)
  BY <1>1, InsertedAtElements
<1>4. Range(pending') = Range(s) \cup {e} /\ IsInjective(pending')
  BY <1>1, InsertedAtSet
<1>5. Sorted(pending', when')
  BY <1>1, <1>2, EnteredSorted, Zenon
<1>6. when' \in Clock
  BY <1>2 DEF Clock
<1>7. \A x \in scheduled' : when'[x] >= curTick'
  <2> SUFFICES ASSUME NEW x \in scheduled' PROVE when'[x] >= curTick
    OBVIOUS
  <2>1. CASE x = e
    BY <1>2, <2>1 DEF Clock
  <2>2. CASE x # e
    <3>1. x \in scheduled /\ when[x] >= curTick
      BY <2>2 DEF OrderInv, InTickOrder
    <3> QED BY <1>2, <2>2, <3>1 DEF Clock
  <2> QED BY <2>1, <2>2
<1> QED BY <1>2, <1>3, <1>4, <1>5, <1>6, <1>7, OrderInvNext

LEMMA ScheduleInv ==
  ASSUME OrderInv, NEW e \in Event, NEW t \in Tick, schedule(e, t)
  PROVE  OrderInv'
<1>1. scheduled = Range(pending) /\ scheduled \subseteq live /\ live \subseteq Event
  BY DEF OrderInv, FlagsMatchQueue, OrderTypeOK
<1>2. live' \in SUBSET Event /\ scheduled' \subseteq live' /\ squashed' \subseteq scheduled'
  BY <1>1 DEF schedule, OrderInv
<1> QED BY <1>1, <1>2, OrderInvFacts, EnterInv, Zenon DEF schedule

LEMMA RescheduleInv ==
  ASSUME OrderInv, NEW e \in Event, NEW t \in Tick, reschedule(e, t)
  PROVE  OrderInv'
<1>1. scheduled = Range(pending) /\ scheduled \subseteq live /\ live \subseteq Event
  BY DEF OrderInv, FlagsMatchQueue, OrderTypeOK
<1>2. live' \in SUBSET Event /\ scheduled' \subseteq live' /\ squashed' \subseteq scheduled'
  BY <1>1 DEF reschedule, OrderInv
<1>3. CASE e \notin scheduled
  BY <1>1, <1>2, <1>3, OrderInvFacts, EnterInv, Zenon DEF reschedule
<1>4. CASE e \in scheduled
  <2>1. PICK i \in 1 .. Len(pending) : pending[i] = e /\ Enter(RemovedAt(pending, i), e, t)
    BY <1>4 DEF reschedule
  <2>2. RemovedAt(pending, i) \in Seq(Event) /\ Sorted(RemovedAt(pending, i), when)
    BY OrderInvFacts, RemovedAtElements, RemovedSorted
  <2>3. /\ Range(RemovedAt(pending, i)) = Range(pending) \ {e}
        /\ IsInjective(RemovedAt(pending, i))
    BY <2>1, OrderInvFacts, RemovedAtSet
  <2>4. scheduled' = Range(RemovedAt(pending, i)) \cup {e}
    BY <1>1, <1>4, <2>3 DEF reschedule
  <2> QED BY <1>1, <1>2, <2>1, <2>2, <2>3, <2>4, EnterInv, Zenon DEF reschedule
<1> QED BY <1>3, <1>4

\* e leaves the queue, and the clock does not pass what stays.
LEMMA LeaveInv ==
  ASSUME OrderInv, NEW e \in Event, NEW i \in 1 .. Len(pending), pending[i] = e,
         pending' = RemovedAt(pending, i), when' = [when EXCEPT ![e] = 0],
         scheduled' = scheduled \ {e}, squashed' = squashed \ {e},
         live' \in SUBSET Event, live \ {e} \subseteq live', curTick' \in Tick,
         \A x \in scheduled : when[x] >= curTick'
  PROVE  OrderInv'
<1>1. /\ pending \in Seq(Event) /\ when \in Clock /\ IsInjective(pending)
      /\ Sorted(pending, when) /\ scheduled = Range(pending)
  BY OrderInvFacts
<1>2. pending' \in Seq(Event) /\ Sorted(pending', when)
  BY <1>1, RemovedAtElements, RemovedSorted
<1>3. Range(pending') = Range(pending) \ {e} /\ IsInjective(pending')
  BY <1>1, RemovedAtSet
<1>4. Sorted(pending', when')
  BY <1>1, <1>2, <1>3, SortedElsewhere, Zenon
<1>5. when' \in Clock
  BY <1>1, MaxTickAssumption DEF Clock, Tick
<1>6. \A x \in scheduled' : when'[x] >= curTick'
  <2>1. scheduled \subseteq Event
    BY DEF OrderInv, OrderTypeOK
  <2> QED BY <1>1, <2>1 DEF Clock
<1>7. scheduled' \subseteq live' /\ squashed' \subseteq scheduled'
  BY DEF OrderInv, FlagsMatchQueue
<1> QED BY <1>1, <1>2, <1>3, <1>4, <1>5, <1>6, <1>7, OrderInvNext

LEMMA DescheduleInv ==
  ASSUME OrderInv, NEW e \in Event, deschedule(e)
  PROVE  OrderInv'
<1>1. PICK i \in 1 .. Len(pending) : pending[i] = e /\ pending' = RemovedAt(pending, i)
  BY DEF deschedule
<1>2. live' \in SUBSET Event /\ live \ {e} \subseteq live'
  BY DEF deschedule, OrderInv, OrderTypeOK
<1>3. curTick' \in Tick /\ \A x \in scheduled : when[x] >= curTick'
  BY DEF deschedule, OrderInv, OrderTypeOK, InTickOrder
<1> QED BY <1>1, <1>2, <1>3, LeaveInv, Zenon DEF deschedule

\* What is served first is not later than the rest.
LEMMA HeadFirst ==
  ASSUME OrderInv, pending # <<>>
  PROVE  /\ Head(pending) = pending[1] /\ 1 \in 1 .. Len(pending)
         /\ Head(pending) \in scheduled /\ Head(pending) \in Event
         /\ \A x \in scheduled : x # Head(pending) => Waits(when, Head(pending), x)
         /\ \A x \in scheduled : when[x] >= when[Head(pending)]
<1>1. /\ pending \in Seq(Event) /\ when \in Clock /\ Sorted(pending, when)
      /\ scheduled = Range(pending)
  BY OrderInvFacts
<1>2. Head(pending) = pending[1] /\ 1 \in 1 .. Len(pending)
  BY <1>1
<1>3. Head(pending) \in scheduled /\ Head(pending) \in Event
  BY <1>1, <1>2 DEF Range
<1>4. ASSUME NEW x \in scheduled, x # Head(pending) PROVE Waits(when, Head(pending), x)
  <2>1. PICK j \in 1 .. Len(pending) : pending[j] = x
    BY <1>1 DEF Range
  <2>2. 1 < j
    BY <1>2, <1>4, <2>1
  <2> QED BY <1>1, <1>2, <2>1, <2>2 DEF Sorted
<1>5. ASSUME NEW x \in scheduled PROVE when[x] >= when[Head(pending)]
  <2>1. x \in Event /\ when[x] \in Nat /\ when[Head(pending)] \in Nat
    BY <1>1, <1>3, MaxTickAssumption DEF OrderInv, OrderTypeOK, Clock, Tick
  <2>2. CASE x = Head(pending)
    BY <2>1, <2>2
  <2>3. CASE x # Head(pending)
    BY <1>4, <2>1, <2>3 DEF Waits, Before
  <2> QED BY <2>2, <2>3
<1> QED BY <1>2, <1>3, <1>4, <1>5

LEMMA ServiceInv ==
  ASSUME OrderInv, serviceOne
  PROVE  OrderInv'
<1> DEFINE e == Head(pending)
<1>1. /\ pending # <<>> /\ curTick' = when[e] /\ pending' = Tail(pending)
      /\ scheduled' = scheduled \ {e} /\ squashed' = squashed \ {e}
      /\ when' = [when EXCEPT ![e] = 0]
      /\ live' = IF e \in squashed THEN live \ ({e} \cap Temporary) ELSE live
  BY DEF serviceOne
<1>2. e = pending[1] /\ 1 \in 1 .. Len(pending) /\ e \in Event
  BY <1>1, HeadFirst
<1>3. \A x \in scheduled : when[x] >= when[e]
  BY <1>1, HeadFirst
<1> HIDE DEF e
<1>4. pending \in Seq(Event) /\ when \in Clock
  BY OrderInvFacts
<1>5. RemovedAt(pending, 1) = Tail(pending)
  <2>1. /\ RemovedAt(pending, 1) \in Seq(Event) /\ Len(RemovedAt(pending, 1)) = Len(pending) - 1
        /\ \A j \in 1 .. Len(pending) - 1 : RemovedAt(pending, 1)[j] = pending[j + 1]
    BY <1>2, <1>4, RemovedAtElements
  <2>2. /\ Tail(pending) \in Seq(Event) /\ Len(Tail(pending)) = Len(pending) - 1
        /\ \A j \in 1 .. Len(pending) - 1 : Tail(pending)[j] = pending[j + 1]
    BY <1>1, <1>4
  <2> QED BY <2>1, <2>2, SameElements
<1>6. live' \in SUBSET Event /\ live \ {e} \subseteq live'
  BY <1>1 DEF OrderInv, OrderTypeOK
<1>7. curTick' \in Tick
  BY <1>1, <1>2, <1>4 DEF Clock
<1> QED BY <1>1, <1>2, <1>3, <1>5, <1>6, <1>7, LeaveInv, Zenon

LEMMA OrderInitInv == OrderInit => OrderInv
BY MaxTickAssumption DEF OrderInit, OrderInv, OrderTypeOK, InTickOrder, FlagsMatchQueue, Tick,
                         Range, IsInjective

LEMMA OrderNextInv == OrderInv /\ [OrderNext]_evars => OrderInv'
<1> SUFFICES ASSUME OrderInv, [OrderNext]_evars PROVE OrderInv'
  OBVIOUS
<1>1. ASSUME NEW e \in Event, squash(e) PROVE OrderInv'
  BY <1>1 DEF squash, OrderInv, OrderTypeOK, InTickOrder, FlagsMatchQueue
<1>2. ASSUME NEW e \in Event, dispose(e) PROVE OrderInv'
  BY <1>2 DEF dispose, OrderInv, OrderTypeOK, InTickOrder, FlagsMatchQueue
<1>3. ASSUME UNCHANGED evars PROVE OrderInv'
  BY <1>3 DEF evars, OrderInv, OrderTypeOK, InTickOrder, FlagsMatchQueue
<1> QED BY <1>1, <1>2, <1>3, ScheduleInv, RescheduleInv, DescheduleInv, ServiceInv, Zenon
        DEF OrderNext

\* schedule, reschedule and serviceOne (eventq.hh:486-548, eventq.cc:183-214) serve
\* the events by tick and priority, and never one in the past.
THEOREM ServedInOrder == OrderSpec => []InTickOrder
<1>1. OrderInv => InTickOrder
  BY DEF OrderInv
<1> QED BY <1>1, OrderInitInv, OrderNextInv, PTL DEF OrderSpec

\* The flag Scheduled tells exactly which events are in the queue, and none of them
\* has been deleted.
THEOREM FlagsCorrect == OrderSpec => []FlagsMatchQueue
<1>1. OrderInv => FlagsMatchQueue
  BY DEF OrderInv
<1> QED BY <1>1, OrderInitInv, OrderNextInv, PTL DEF OrderSpec

-----------------------------------------------------------------------------
(* The loop.                                                               *)

InPython == pc = "python" => limit = NoEvent
LimitCause == pc # "python" => cause[limit] = "limit"

\* A limit that has been reached is not scheduled again.
Reached ==
  pc \in {"process", "exited"} /\ event \in ExitEvent /\ cause[event] = "limit" =>
    event \notin scheduled

SimInv ==
  /\ OrderInv /\ cause \in [ExitEvent -> Cause]
  /\ InPython /\ LimitWaits /\ LimitCause /\ Reached /\ OwnLimit /\ ExitsLast

LEMMA NewFacts ==
  ASSUME NEW S, S \ live # {}
  PROVE  New(S) \in S /\ New(S) \notin live
BY DEF New

LEMMA Kinds ==
  /\ Device \subseteq Event /\ ExitEvent \subseteq Event /\ StatEvent \subseteq Event
  /\ \A x \in ExitEvent : x \notin Device /\ x \notin StatEvent /\ x # NoEvent
BY EventAssumption

LEMMA RecurIsCall ==
  ASSUME NEW t, Recur(t)
  PROVE  /\ event \in Device /\ schedule(event, t) /\ InControl
         /\ UNCHANGED <<pc, limit, event, async, statArgs, cause, asked, late, raised, unlucky>>
BY EventAssumption DEF Recur, InControl, svars

LEMMA LimitAtTick ==
  ASSUME curTick \in Tick, NEW n \in Cycles
  PROVE  LimitAt(n) \in Tick
BY MaxTickAssumption, LoopAssumption DEF LimitAt, Tick

\* A step of the program is a step of the queue, or leaves it alone.
LEMMA SimStepOrder ==
  ASSUME SimInv, [SimNext]_vars
  PROVE  [OrderNext]_evars
<1>1. curTick \in Tick
  BY DEF SimInv, OrderInv, OrderTypeOK
<1>2. ASSUME NEW t \in Tick, NEW c, exitSimLoop(t, c) PROVE OrderNext
  BY <1>2, NewFacts, Kinds DEF exitSimLoop, OrderNext
<1>3. ASSUME Call PROVE OrderNext
  <2>1. ASSUME NEW d \in Device, NEW t \in Tick, Schedule(d, t) \/ Reschedule(d, t) PROVE OrderNext
    BY <2>1, Kinds DEF Schedule, Reschedule, Calls, OrderNext
  <2>2. ASSUME NEW d \in Device, Deschedule(d) \/ Squash(d) PROVE OrderNext
    BY <2>2, Kinds DEF Deschedule, Squash, Calls, OrderNext
  <2>3. ASSUME NEW t \in Tick, NEW c, Exit(t, c) PROVE OrderNext
    BY <1>2, <2>3 DEF Exit, Calls
  <2>4. ASSUME NEW t \in Tick, Recur(t) PROVE OrderNext
    BY <2>4, RecurIsCall, Kinds DEF OrderNext
  <2> QED BY <1>3, <2>1, <2>2, <2>3, <2>4, Zenon DEF Call
<1>4. ASSUME Service PROVE OrderNext
  BY <1>4 DEF Service, OrderNext
<1>5. ASSUME EndProcess \/ Raise \/ ProcessStat PROVE OrderNext
  <2>1. event \in Event /\ dispose(event)
    BY <1>5, EventAssumption DEF EndProcess, Raise, ProcessStat
  <2> QED BY <2>1 DEF OrderNext
<1>6. ASSUME ProcessExit PROVE OrderNext
  <2>1. event \in Event /\ (Repeats(event) => curTick + Period \in Tick)
    BY <1>1, <1>6, Kinds, LoopAssumption, MaxTickAssumption DEF ProcessExit, Repeats, Tick
  <2> QED BY <1>6, <2>1 DEF ProcessExit, OrderNext
<1>7. ASSUME Return PROVE [OrderNext]_evars
  <2>1. limit \in Event
    BY <1>7, Kinds DEF Return, SimInv, LimitWaits
  <2> QED BY <1>7, <2>1 DEF Return, OrderNext
<1>8. ASSUME CheckStat PROVE [OrderNext]_evars
  <2>1. CASE async \cap Stat # {}
    <3>1. schedule(New(StatEvent), curTick) /\ StatEvent \ live # {}
      BY <1>8, <2>1 DEF CheckStat
    <3> QED BY <1>1, <3>1, NewFacts, Kinds DEF OrderNext
  <2>2. CASE async \cap Stat = {}
    BY <1>8, <2>2 DEF CheckStat
  <2> QED BY <2>1, <2>2
<1>9. ASSUME CheckExit PROVE [OrderNext]_evars
  BY <1>1, <1>2, <1>9 DEF CheckExit
<1>10. ASSUME \/ CheckAsync \/ ClearStat \/ CheckIo \/ EndService \/ CheckException
              \/ Handler \/ UNCHANGED vars
       PROVE  UNCHANGED evars
  BY <1>10 DEF CheckAsync, ClearStat, CheckIo, EndService, CheckException, Handler, vars,
       dumpStatsHandler, dumprstStatsHandler, exitNowHandler, handleIO, Signal
<1>11. ASSUME NEW n \in Cycles, simulate(n) PROVE OrderNext
  BY <1>1, <1>2, <1>11, LimitAtTick DEF simulate
<1> QED BY <1>3, <1>4, <1>5, <1>6, <1>7, <1>8, <1>9, <1>10, <1>11, Zenon DEF SimNext, Loop

\* Steps that schedule, squash and serve no exit event.
LEMMA ExitEventsKept ==
  ASSUME SimInv, OrderInv',
         \A x \in ExitEvent : /\ x \in scheduled' <=> x \in scheduled
                              /\ x \in squashed' <=> x \in squashed,
         UNCHANGED <<cause, limit, raised>>,
         pc' = "python" <=> pc = "python",
         \/ /\ pc' \notin {"process", "exited"}
            /\ pc \in {"process", "exited"} => event \notin ExitEvent
         \/ UNCHANGED <<pc, event>> /\ event \notin ExitEvent
         \/ UNCHANGED <<pc, event, evars>>
  PROVE  SimInv'
<1>1. InPython' /\ LimitCause'
  BY DEF SimInv, InPython, LimitCause
<1>2. LimitWaits'
  <2> SUFFICES ASSUME pc' # "python"
               PROVE  /\ limit' \in ExitEvent
                      /\ \/ limit' \in scheduled' \ squashed'
                         \/ limit' = event' /\ pc' \in {"process", "exited"}
    BY DEF LimitWaits
  <2>1. /\ limit \in ExitEvent
        /\ limit \in scheduled \ squashed \/ (limit = event /\ pc \in {"process", "exited"})
    BY DEF SimInv, LimitWaits
  <2> QED BY <2>1
<1>3. Reached'
  BY DEF SimInv, Reached, evars
<1>4. OwnLimit'
  BY DEF SimInv, OwnLimit
<1>5. ExitsLast'
  BY DEF SimInv, ExitsLast, evars
<1> QED BY <1>1, <1>2, <1>3, <1>4, <1>5 DEF SimInv

\* A new exit event that is not the limit of a simulate().
LEMMA ExitScheduled ==
  ASSUME SimInv, OrderInv', NEW t, NEW c \in Cause \ {"limit"}, exitSimLoop(t, c),
         UNCHANGED <<limit, raised>>, pc' = "python" <=> pc = "python",
         pc \notin {"process", "exited"} \/ event \notin ExitEvent,
         pc' \notin {"process", "exited"} \/ UNCHANGED <<pc, event>>
  PROVE  SimInv'
<1> DEFINE e == New(ExitEvent)
<1>1. /\ e \in ExitEvent /\ e \notin live
      /\ schedule(e, t) /\ cause' = [cause EXCEPT ![e] = c]
  BY NewFacts DEF exitSimLoop
<1> HIDE DEF e
<1>2. /\ scheduled' = scheduled \cup {e} /\ squashed' = squashed
      /\ scheduled \subseteq live
  BY <1>1 DEF schedule, SimInv, OrderInv, FlagsMatchQueue
<1>3. cause' \in [ExitEvent -> Cause] /\ \A x \in ExitEvent : x # e => cause'[x] = cause[x]
  BY <1>1 DEF SimInv
<1>4. ASSUME pc # "python"
      PROVE  limit \in ExitEvent /\ limit \in scheduled \ squashed /\ limit # e
  BY <1>1, <1>2, <1>4 DEF SimInv, LimitWaits
<1>5. InPython' /\ LimitWaits' /\ LimitCause'
  BY <1>2, <1>3, <1>4 DEF SimInv, InPython, LimitWaits, LimitCause
<1>6. OwnLimit'
  <2> SUFFICES ASSUME ~raised, NEW x \in ExitEvent, x \in scheduled' \ squashed',
                      cause'[x] = "limit"
               PROVE  x = limit
    BY DEF OwnLimit
  <2>1. cause'[e] = c
    BY <1>1 DEF SimInv
  <2> QED BY <1>2, <1>3, <2>1 DEF SimInv, OwnLimit
<1>7. Reached' /\ ExitsLast'
  BY DEF Reached, ExitsLast
<1> QED BY <1>3, <1>5, <1>6, <1>7 DEF SimInv

LEMMA SimulateInv ==
  ASSUME SimInv, OrderInv', NEW n, simulate(n)
  PROVE  SimInv'
<1> DEFINE e == New(ExitEvent)
<1>1. /\ e \in ExitEvent /\ e \notin live /\ limit' = e /\ pc = "python" /\ pc' = "loop"
      /\ schedule(e, LimitAt(n)) /\ cause' = [cause EXCEPT ![e] = "limit"]
      /\ UNCHANGED raised
  BY NewFacts DEF simulate, exitSimLoop
<1> HIDE DEF e
<1>2. /\ scheduled' = scheduled \cup {e} /\ squashed' = squashed /\ e \notin squashed
  BY <1>1 DEF schedule, SimInv, OrderInv, FlagsMatchQueue
<1>3. /\ cause' \in [ExitEvent -> Cause] /\ \A x \in ExitEvent : x # e => cause'[x] = cause[x]
      /\ cause'[e] = "limit"
  BY <1>1 DEF SimInv, Cause
<1>4. InPython' /\ LimitWaits' /\ LimitCause' /\ Reached' /\ ExitsLast'
  BY <1>1, <1>2, <1>3 DEF InPython, LimitWaits, LimitCause, Reached, ExitsLast
<1>5. OwnLimit'
  <2> SUFFICES ASSUME ~raised, NEW x \in ExitEvent, x \in scheduled' \ squashed',
                      cause'[x] = "limit", x # e
               PROVE  FALSE
    BY <1>1 DEF OwnLimit
  <2>1. x = limit /\ limit = NoEvent
    BY <1>1, <1>2, <1>3 DEF SimInv, OwnLimit, InPython
  <2> QED BY <2>1, Kinds
<1> QED BY <1>3, <1>4, <1>5 DEF SimInv

\* The first event of the queue is served: if it is an exit event, no other of its tick
\* comes before it.
LEMMA SimServiceInv ==
  ASSUME SimInv, OrderInv', Service
  PROVE  SimInv'
<1> DEFINE e == Head(pending)
<1>1. /\ pc = "loop" /\ pending # <<>> /\ curTick' = when[e]
      /\ scheduled' = scheduled \ {e} /\ squashed' = squashed \ {e}
      /\ when' = [when EXCEPT ![e] = 0]
      /\ IF e \in squashed THEN pc' = "async" /\ event' = NoEvent
                           ELSE pc' = "process" /\ event' = e
      /\ UNCHANGED <<limit, cause, raised>>
  BY DEF Service, serviceOne
<1>2. e \in Event /\ \A x \in scheduled : x # e => Waits(when, e, x)
  BY <1>1, HeadFirst DEF SimInv
<1> HIDE DEF e
<1>3. limit \in ExitEvent /\ limit \in scheduled \ squashed
  BY <1>1 DEF SimInv, LimitWaits
<1>4. InPython' /\ LimitWaits' /\ LimitCause' /\ Reached' /\ OwnLimit'
  BY <1>1, <1>3 DEF SimInv, InPython, LimitWaits, LimitCause, Reached, OwnLimit
<1>5. ExitsLast'
  <2> SUFFICES ASSUME pc' = "process", NEW x \in scheduled', when'[x] = curTick'
               PROVE  Priority[x] >= Priority[event']
    BY <1>1 DEF ExitsLast
  <2>1. x # e /\ x \in scheduled /\ event' = e /\ x \in Event
    BY <1>1 DEF SimInv, OrderInv, OrderTypeOK
  <2>2. when[x] = when[e] /\ Waits(when, e, x)
    BY <1>1, <1>2, <2>1 DEF SimInv, OrderInv, OrderTypeOK
  <2>3. Priority[x] \in Int /\ Priority[e] \in Int
    BY <1>2, <2>1, PriorityAssumption
  <2> QED BY <2>1, <2>2, <2>3 DEF Waits, Before
<1> QED BY <1>1, <1>4, <1>5 DEF SimInv

LEMMA ProcessExitInv ==
  ASSUME SimInv, OrderInv', ProcessExit
  PROVE  SimInv'
<1>1. /\ pc = "process" /\ event \in ExitEvent /\ pc' = "exited"
      /\ UNCHANGED <<limit, event, cause, raised, squashed, curTick>>
      /\ \/ UNCHANGED <<scheduled, when>>
         \/ /\ cause[event] = "periodic"
            /\ scheduled' = scheduled \cup {event}
            /\ when' = [when EXCEPT ![event] = curTick + Period]
  BY DEF ProcessExit, Repeats, schedule, dispose
<1>2. InPython' /\ LimitWaits' /\ LimitCause' /\ Reached'
  BY <1>1 DEF SimInv, InPython, LimitWaits, LimitCause, Reached
<1>3. OwnLimit'
  BY <1>1 DEF SimInv, OwnLimit
<1>4. ExitsLast'
  <2> SUFFICES ASSUME NEW x \in scheduled', when'[x] = curTick
               PROVE  Priority[x] >= Priority[event]
    BY <1>1 DEF ExitsLast
  <2>1. curTick \in Nat /\ Period \in Nat \ {0} /\ event \in Event
    BY <1>1, Kinds, LoopAssumption, MaxTickAssumption DEF SimInv, OrderInv, OrderTypeOK, Tick
  <2>2. when \in [Event -> Tick] /\ scheduled \subseteq Event
    BY DEF SimInv, OrderInv, OrderTypeOK
  <2>3. x \in scheduled /\ when[x] = curTick
    BY <1>1, <2>1, <2>2
  <2> QED BY <1>1, <2>3 DEF SimInv, ExitsLast
<1> QED BY <1>1, <1>2, <1>3, <1>4 DEF SimInv

\* The limit is squashed, or was the event that ended the loop and is not scheduled.
LEMMA ReturnInv ==
  ASSUME SimInv, OrderInv', Return
  PROVE  SimInv'
<1>1. /\ pc = "exited" /\ pc' = "python" /\ limit' = NoEvent /\ UNCHANGED <<cause, raised>>
      /\ scheduled' = scheduled
      /\ squashed' = IF event # limit THEN squashed \cup {limit} ELSE squashed
  BY DEF Return, squash, evars
<1>2. InPython' /\ LimitWaits' /\ LimitCause' /\ Reached' /\ ExitsLast'
  BY <1>1 DEF InPython, LimitWaits, LimitCause, Reached, ExitsLast
<1>3. limit \in ExitEvent /\ cause[limit] = "limit"
  BY <1>1 DEF SimInv, LimitWaits, LimitCause
<1>4. OwnLimit'
  <2> SUFFICES ASSUME ~raised, NEW x \in ExitEvent, x \in scheduled' \ squashed',
                      cause'[x] = "limit"
               PROVE  FALSE
    BY <1>1 DEF OwnLimit
  <2>1. x = limit /\ event = limit
    BY <1>1 DEF SimInv, OwnLimit
  <2> QED BY <1>1, <1>3, <2>1 DEF SimInv, Reached
<1> QED BY <1>1, <1>2, <1>4 DEF SimInv

LEMMA ExceptionInv ==
  ASSUME SimInv, OrderInv', CheckException, "exception" \in async
  PROVE  SimInv'
<1>1. pc' = "python" /\ limit' = NoEvent /\ raised' = TRUE /\ UNCHANGED cause
  BY DEF CheckException, Take
<1> QED BY <1>1 DEF SimInv, InPython, LimitWaits, LimitCause, Reached, ExitsLast, OwnLimit

LEMMA SimInitInv == SimInit => SimInv
BY OrderInitInv DEF SimInit, OrderInit, SimInv, InPython, LimitWaits, LimitCause, Reached, OwnLimit,
                    ExitsLast, Cause

LEMMA SimNextInv == SimInv /\ [SimNext]_vars => SimInv'
<1> SUFFICES ASSUME SimInv, [SimNext]_vars PROVE SimInv'
  OBVIOUS
<1>1. OrderInv'
  BY SimStepOrder, OrderNextInv DEF SimInv
<1>2. ASSUME NEW d \in Device, NEW t \in Tick,
             Schedule(d, t) \/ Reschedule(d, t) \/ Deschedule(d) \/ Squash(d)
      PROVE  SimInv'
  <2>1. /\ \A x \in ExitEvent : /\ x \in scheduled' <=> x \in scheduled
                                /\ x \in squashed' <=> x \in squashed
        /\ UNCHANGED <<cause, limit, raised, pc, event>>
        /\ InControl
    BY <1>2, Kinds DEF Schedule, Reschedule, Deschedule, Squash, Calls, schedule, reschedule,
                       deschedule, squash
  <2> QED BY <1>1, <2>1, Kinds, ExitEventsKept DEF InControl
<1>12. ASSUME NEW t \in Tick, Recur(t) PROVE SimInv'
  <2>1. /\ event \in Device /\ schedule(event, t) /\ InControl
        /\ UNCHANGED <<cause, limit, raised, pc, event>>
    BY <1>12, RecurIsCall
  <2>2. \A x \in ExitEvent : /\ x \in scheduled' <=> x \in scheduled
                             /\ x \in squashed' <=> x \in squashed
    BY <2>1, Kinds DEF schedule
  <2> QED BY <1>1, <2>1, <2>2, Kinds, ExitEventsKept DEF InControl
<1>3. ASSUME NEW t \in Tick, NEW c \in {"exit", "periodic"}, Exit(t, c) PROVE SimInv'
  <2>1. exitSimLoop(t, c) /\ UNCHANGED <<limit, raised, pc, event>> /\ InControl
    BY <1>3 DEF Exit, Calls
  <2> QED BY <1>1, <2>1, Kinds, ExitScheduled DEF InControl, Cause
<1>4. ASSUME EndProcess \/ Raise \/ ProcessStat PROVE SimInv'
  <2>1. /\ pc = "process" /\ pc' = "async" /\ event \notin ExitEvent
        /\ UNCHANGED <<scheduled, squashed, cause, limit, raised>>
    BY <1>4, Kinds, EventAssumption DEF EndProcess, Raise, ProcessStat, dispose
  <2> QED BY <1>1, <2>1, ExitEventsKept
<1>5. ASSUME CheckStat PROVE SimInv'
  <2>1. /\ pc = "stat" /\ pc' \in {"cleardump", "exit"} /\ UNCHANGED <<cause, limit, raised>>
    BY <1>5 DEF CheckStat
  <2>2. \A x \in ExitEvent : /\ x \in scheduled' <=> x \in scheduled
                             /\ x \in squashed' <=> x \in squashed
    <3>1. CASE async \cap Stat # {}
      <4>1. schedule(New(StatEvent), curTick) /\ New(StatEvent) \in StatEvent
        BY <1>5, <3>1, NewFacts DEF CheckStat
      <4> QED BY <4>1, Kinds DEF schedule
    <3>2. CASE async \cap Stat = {}
      BY <1>5, <3>2 DEF CheckStat, evars
    <3> QED BY <3>1, <3>2
  <2> QED BY <1>1, <2>1, <2>2, ExitEventsKept
<1>6. ASSUME CheckExit PROVE SimInv'
  <2>1. pc = "exit" /\ pc' = "io" /\ UNCHANGED <<limit, raised, event>>
    BY <1>6 DEF CheckExit, Take
  <2>2. CASE "exit" \in async
    <3>1. exitSimLoop(curTick, "interrupt")
      BY <1>6, <2>2 DEF CheckExit
    <3> QED BY <1>1, <2>1, <3>1, ExitScheduled DEF Cause
  <2>3. CASE "exit" \notin async
    <3>1. UNCHANGED <<scheduled, squashed, cause>>
      BY <1>6, <2>3 DEF CheckExit, evars
    <3> QED BY <1>1, <2>1, <3>1, ExitEventsKept
  <2> QED BY <2>2, <2>3
<1>7. ASSUME \/ CheckAsync \/ ClearStat \/ CheckIo \/ EndService
             \/ CheckException /\ "exception" \notin async
      PROVE  SimInv'
  <2>1. /\ pc \notin {"python", "process", "exited"} /\ pc' \notin {"python", "process", "exited"}
        /\ UNCHANGED <<scheduled, squashed, cause, limit, raised>>
    BY <1>7 DEF CheckAsync, ClearStat, CheckIo, EndService, CheckException, Take, evars
  <2> QED BY <1>1, <2>1, ExitEventsKept
<1>8. ASSUME Handler \/ UNCHANGED vars PROVE SimInv'
  <2>1. UNCHANGED <<evars, pc, event, cause, limit, raised>>
    BY <1>8 DEF Handler, dumpStatsHandler, dumprstStatsHandler, exitNowHandler, handleIO, Signal,
                vars, svars
  <2>2. UNCHANGED <<scheduled, squashed>>
    BY <2>1 DEF evars
  <2> QED BY <1>1, <2>1, <2>2, ExitEventsKept
<1>9. 0 \in Tick
  BY MaxTickAssumption DEF Tick
<1>10. ASSUME Call PROVE SimInv'
  BY <1>2, <1>12, <1>3, <1>9, <1>10, Zenon DEF Call
<1>11. ASSUME Loop PROVE SimInv'
  BY <1>1, <1>4, <1>5, <1>6, <1>7, <1>11, SimServiceInv, ProcessExitInv, ReturnInv, ExceptionInv,
     Zenon DEF Loop
<1> QED BY <1>1, <1>8, <1>10, <1>11, SimulateInv, Zenon DEF SimNext

\* The inductive invariant of the program: the queue is in order, and the limit of the
\* simulate() that runs is the one exit event with that cause that will be served.
THEOREM SimInvariant == SimSpec => []SimInv
<1> QED BY SimInitInv, SimNextInv, PTL DEF SimSpec

\* simulate() and what runs around it (simulate.cc:47-120) use the event queue as
\* EventOrder allows, so that what is proved of its order holds in the loop.
THEOREM LoopKeepsOrder == SimSpec => OrderSpec
<1>1. SimInit => OrderInit
  BY DEF SimInit
<1>2. SimInv /\ [SimNext]_vars => [OrderNext]_evars
  BY SimStepOrder
<1> QED BY <1>1, <1>2, SimInvariant, PTL DEF SimSpec, OrderSpec

\* The asserts of the loop (simulate.cc:66, 85) hold: the limit event is in the queue
\* until it is the one that ends the loop.
THEOREM LimitAlwaysWaits == SimSpec => []LimitWaits
<1>1. SimInv => LimitWaits
  BY DEF SimInv
<1> QED BY <1>1, SimInvariant, PTL

\* A call of simulate() does not end at the limit of an earlier one (simulate.cc:84-92),
\* unless that was left by an exception.
THEOREM EndsAtOwnLimit == SimSpec => []OwnLimit
<1>1. SimInv => OwnLimit
  BY DEF SimInv
<1> QED BY <1>1, SimInvariant, PTL

\* The loop is left when no event of the tick that comes before the exit event is left.
THEOREM ExitAfterTheTick == SimSpec => []ExitsLast
<1>1. SimInv => ExitsLast
  BY DEF SimInv
<1> QED BY <1>1, SimInvariant, PTL

-----------------------------------------------------------------------------
(* What the signals ask for.                                               *)

Request == {"dump", "reset", "exit"}

\* An event that does what was asked for is in the queue.
Answered(r) ==
  IF r = "exit" THEN \E e \in ExitEvent : e \in scheduled /\ cause[e] = "interrupt"
                ELSE \E e \in StatEvent : e \in scheduled /\ r \in statArgs[e]

\* It has left the queue and is about to do it.
Processing(r) ==
  /\ pc = "process"
  /\ IF r = "exit" THEN event \in ExitEvent /\ cause[event] = "interrupt"
                   ELSE event \in StatEvent /\ r \in statArgs[event]

Kept ==
  \A r \in Request : r \in asked =>
    Noticed(r) \/ Answered(r) \/ Processing(r) \/ (r = "reset" /\ unlucky)

\* No event that answers a signal is dropped: only limits and devices are squashed.
NeverDropped == \A e \in squashed : e \notin StatEvent /\ (e \in ExitEvent => cause[e] = "limit")

\* There is no handler that asks for a reset only.
Paired == "reset" \in async => "dump" \in async \/ pc = "clearreset"

\* When the loop clears a flag it has made the event.
Made ==
  /\ pc = "cleardump" => Answered("dump")
  /\ pc \in {"cleardump", "clearreset"} /\ "reset" \in async => Answered("reset") \/ unlucky

InterruptNow == \A e \in ExitEvent : e \in scheduled /\ cause[e] = "interrupt" => when[e] = curTick

\* From the end of CheckExit to the next event.
Rest == {"io", "service", "exception", "loop"}

\* Once the clock has moved the exit event is made before the next event is served.
Late ==
  /\ late \in {0, 1}
  /\ late = 1 => pc # "python" /\ (pc # "exited" => "exit" \in asked)
  /\ late = 1 /\ pc \in Rest => Answered("exit")

RequestInv ==
  /\ SimInv /\ asked \subseteq Request /\ statArgs \in [StatEvent -> SUBSET Stat]
  /\ Kept /\ NeverDropped /\ Paired /\ Made /\ InterruptNow /\ Late

\* Where the loop has seen async_event, and will look at the flag of r.
Sees(r) == {"stat"} \cup (CASE r = "dump" -> {"cleardump"}
                            [] r = "reset" -> {"cleardump", "clearreset"}
                            [] r = "exit" -> {"cleardump", "clearreset", "exit"})

LEMMA SeesFacts ==
  /\ Sees("dump") = {"stat", "cleardump"} /\ Sees("reset") = {"stat", "cleardump", "clearreset"}
  /\ Sees("exit") = {"stat", "cleardump", "clearreset", "exit"}
BY DEF Sees

LEMMA NoticedFacts ==
  ASSUME NEW r \in Request
  PROVE  /\ Noticed(r) <=> r \in async /\ ("event" \in async \/ pc \in Sees(r))
         /\ Noticed(r)' <=> r \in async' /\ ("event" \in async' \/ pc' \in Sees(r))
BY Zenon DEF Noticed, Sees

\* Steps that take no event out of the queue but devices' ones, and bring in no
\* interrupt but for now.
EventsKept ==
  /\ \A e \in ExitEvent : e \in scheduled =>
       e \in scheduled' /\ cause'[e] = cause[e] /\ when'[e] = when[e]
  /\ \A e \in ExitEvent : e \in scheduled' /\ cause'[e] = "interrupt" =>
       e \in scheduled \/ when'[e] = curTick
  /\ \A e \in StatEvent : e \in scheduled => e \in scheduled' /\ statArgs'[e] = statArgs[e]
  /\ \A e \in squashed' : \/ e \in squashed \/ e \in Device
                          \/ e \in ExitEvent /\ e \in scheduled /\ cause[e] = "limit"
  /\ curTick' = curTick

LEMMA AnswersKept ==
  ASSUME RequestInv, EventsKept
  PROVE  NeverDropped' /\ InterruptNow' /\ \A r \in Request : Answered(r) => Answered(r)'
<1>1. squashed \subseteq scheduled
  BY DEF RequestInv, SimInv, OrderInv
<1>2. NeverDropped'
  <2> SUFFICES ASSUME NEW e \in squashed'
               PROVE  e \notin StatEvent /\ (e \in ExitEvent => cause'[e] = "limit")
    BY DEF NeverDropped
  <2>1. CASE e \in squashed
    <3>1. e \in scheduled /\ e \notin StatEvent /\ (e \in ExitEvent => cause[e] = "limit")
      BY <1>1, <2>1 DEF RequestInv, NeverDropped
    <3> QED BY <3>1 DEF EventsKept
  <2>2. CASE e \in Device
    BY <2>2, EventAssumption
  <2>3. CASE e \in ExitEvent /\ e \in scheduled /\ cause[e] = "limit"
    BY <2>3, Kinds DEF EventsKept
  <2> QED BY <2>1, <2>2, <2>3 DEF EventsKept
<1>3. InterruptNow'
  BY DEF EventsKept, InterruptNow, RequestInv
<1>4. Answered("exit") => Answered("exit")'
  BY DEF EventsKept, Answered
<1>5. ASSUME NEW r \in {"dump", "reset"} PROVE Answered(r) => Answered(r)'
  BY DEF EventsKept, Answered
<1> QED BY <1>2, <1>3, <1>4, <1>5 DEF Request

\* Steps that serve no answer, while the loop looks at no flag.
LEMMA QuietStep ==
  ASSUME RequestInv, SimInv', EventsKept, UNCHANGED <<asked, unlucky>>,
         statArgs' \in [StatEvent -> SUBSET Stat],
         "event" \in async => "event" \in async',
         \A f \in Request : f \in async' <=> f \in async,
         pc \notin Sees("exit"), pc' \notin Sees("exit"), pc = "process" => event \in Device,
         \/ late' = 0
         \/ late' = late /\ pc # "exited" /\ pc' # "python" /\ (pc' \in Rest => pc \in Rest)
  PROVE  RequestInv'
<1>1. NeverDropped' /\ InterruptNow' /\ \A r \in Request : Answered(r) => Answered(r)'
  BY AnswersKept
<1>2. Kept'
  <2> SUFFICES ASSUME NEW r \in Request, r \in asked
               PROVE  Noticed(r)' \/ Answered(r)' \/ (r = "reset" /\ unlucky)
    BY DEF Kept
  <2>1. ~Processing(r)
    BY Kinds, EventAssumption DEF Processing
  <2>2. Noticed(r) \/ Answered(r) \/ (r = "reset" /\ unlucky)
    BY <2>1 DEF RequestInv, Kept
  <2>3. Noticed(r) => Noticed(r)'
    BY NoticedFacts, SeesFacts DEF Request
  <2> QED BY <1>1, <2>2, <2>3
<1>3. Paired' /\ Made'
  BY SeesFacts DEF Paired, Made, RequestInv, Request
<1>4. Late'
  BY <1>1 DEF Late, RequestInv, Request
<1> QED BY <1>1, <1>2, <1>3, <1>4 DEF RequestInv

LEMMA ExitMade ==
  ASSUME RequestInv, NEW t, NEW c \in Cause, exitSimLoop(t, c), c = "interrupt" => t = curTick,
         UNCHANGED statArgs
  PROVE  EventsKept /\ (c = "interrupt" => Answered("exit")')
<1> DEFINE e == New(ExitEvent)
<1>1. /\ e \in ExitEvent /\ e \notin live
      /\ schedule(e, t) /\ cause' = [cause EXCEPT ![e] = c]
  BY NewFacts DEF exitSimLoop
<1> HIDE DEF e
<1>2. /\ scheduled' = scheduled \cup {e} /\ UNCHANGED <<squashed, curTick>>
      /\ when' = [when EXCEPT ![e] = t]
  BY <1>1 DEF schedule
<1>3. e \notin scheduled /\ when \in [Event -> Tick] /\ cause \in [ExitEvent -> Cause] /\ e \in Event
  BY <1>1, Kinds DEF RequestInv, SimInv, OrderInv, FlagsMatchQueue, OrderTypeOK
<1>4. cause'[e] = c /\ when'[e] = t
  BY <1>1, <1>2, <1>3
<1>5. \A x \in ExitEvent : x # e => cause'[x] = cause[x] /\ when'[x] = when[x]
  BY <1>1, <1>2, <1>3, Kinds
<1> QED BY <1>1, <1>2, <1>3, <1>4, <1>5 DEF EventsKept, Answered

LEMMA CallRequests ==
  ASSUME RequestInv, SimInv', Call
  PROVE  RequestInv'
<1>1. /\ InControl /\ UNCHANGED <<pc, event, async, statArgs, asked, late, unlucky>>
  BY RecurIsCall DEF Call, Schedule, Reschedule, Deschedule, Squash, Exit, Calls
<1>2. EventsKept
  <2>1. ASSUME NEW d \in Device, NEW t \in Tick,
               Schedule(d, t) \/ Reschedule(d, t) \/ Deschedule(d) \/ Squash(d)
        PROVE  EventsKept
    <3>1. when \in [Event -> Tick]
      BY DEF RequestInv, SimInv, OrderInv, OrderTypeOK
    <3>2. /\ \A x \in Event : x # d => /\ x \in scheduled' <=> x \in scheduled
                                       /\ x \in squashed' => x \in squashed
                                       /\ when'[x] = when[x]
          /\ UNCHANGED <<cause, statArgs, curTick>>
      BY <2>1, <3>1, Kinds DEF Schedule, Reschedule, Deschedule, Squash, Calls, schedule,
                               reschedule, deschedule, squash
    <3>3. squashed' \subseteq Event
      BY DEF SimInv, OrderInv, OrderTypeOK
    <3> QED BY <2>1, <3>2, <3>3, Kinds, EventAssumption DEF EventsKept
  <2>2. ASSUME NEW t \in Tick, NEW c \in {"exit", "periodic"}, Exit(t, c) PROVE EventsKept
    BY <2>2, ExitMade DEF Exit, Calls, Cause
  <2>3. 0 \in Tick
    BY MaxTickAssumption DEF Tick
  <2>4. ASSUME NEW t \in Tick, Recur(t) PROVE EventsKept
    <3>1. PICK d \in Device : schedule(d, t) /\ UNCHANGED <<cause, statArgs>>
      BY <2>4, RecurIsCall
    <3>2. when \in [Event -> Tick]
      BY DEF RequestInv, SimInv, OrderInv, OrderTypeOK
    <3>3. \A x \in Event : x # d => /\ x \in scheduled' <=> x \in scheduled
                                    /\ when'[x] = when[x]
      BY <3>1, <3>2, Kinds DEF schedule
    <3> QED BY <3>1, <3>3, Kinds, EventAssumption DEF EventsKept, schedule
  <2> QED BY <2>1, <2>2, <2>3, <2>4, Zenon DEF Call
<1>3. pc = "python" => late = 0
  BY DEF RequestInv, Late
<1>4. /\ pc \notin Sees("exit") /\ pc # "exited" /\ (pc = "process" => event \in Device)
  BY <1>1, SeesFacts DEF InControl
<1>5. statArgs' \in [StatEvent -> SUBSET Stat]
  BY <1>1 DEF RequestInv
<1> QED BY <1>1, <1>2, <1>3, <1>4, <1>5, QuietStep

LEMMA SimulateRequests ==
  ASSUME RequestInv, SimInv', NEW n, simulate(n)
  PROVE  RequestInv'
<1>1. /\ pc = "python" /\ pc' = "loop" /\ exitSimLoop(LimitAt(n), "limit")
      /\ UNCHANGED <<async, statArgs, asked, late, unlucky>>
  BY DEF simulate
<1>2. EventsKept
  BY <1>1, ExitMade DEF Cause
<1>3. late = 0
  BY <1>1 DEF RequestInv, Late
<1>4. pc \notin Sees("exit") /\ pc' \notin Sees("exit")
  BY <1>1, SeesFacts
<1>5. statArgs' \in [StatEvent -> SUBSET Stat]
  BY <1>1 DEF RequestInv
<1> QED BY <1>1, <1>2, <1>3, <1>4, <1>5, QuietStep

\* A limit that was not reached is squashed; nothing else that waits changes.
LEMMA ReturnRequests ==
  ASSUME RequestInv, SimInv', Return
  PROVE  RequestInv'
<1>1. /\ pc = "exited" /\ pc' = "python" /\ late' = 0
      /\ UNCHANGED <<async, statArgs, asked, unlucky, cause, scheduled, when, curTick>>
      /\ squashed' \subseteq squashed \cup {limit}
  BY DEF Return, squash, evars
<1>2. limit \in ExitEvent /\ cause[limit] = "limit"
  BY <1>1 DEF RequestInv, SimInv, LimitWaits, LimitCause
<1>3. squashed' \subseteq scheduled
  BY <1>1 DEF SimInv, OrderInv
<1>4. EventsKept
  BY <1>1, <1>2, <1>3 DEF EventsKept
<1>5. pc \notin Sees("exit") /\ pc' \notin Sees("exit")
  BY <1>1, SeesFacts
<1>6. statArgs' \in [StatEvent -> SUBSET Stat]
  BY <1>1 DEF RequestInv
<1> QED BY <1>1, <1>4, <1>5, <1>6, QuietStep

\* Steps of the loop that leave the queue alone.
LEMMA IdleRequests ==
  ASSUME RequestInv, SimInv', EndProcess \/ Raise \/ CheckIo \/ EndService \/ CheckException
  PROVE  RequestInv'
<1>1. UNCHANGED <<statArgs, asked, unlucky, cause, scheduled, when, curTick, squashed>>
  BY DEF EndProcess, Raise, CheckIo, EndService, CheckException, dispose, evars
<1>2. EventsKept
  BY <1>1 DEF EventsKept
<1>3. /\ "event" \in async => "event" \in async'
      /\ \A f \in Request : f \in async' <=> f \in async
  BY DEF EndProcess, Raise, CheckIo, EndService, CheckException, Take, Request
<1>4. /\ pc \in {"process", "io", "service", "exception"}
      /\ pc' \in {"async", "service", "exception", "python", "loop"}
      /\ pc = "process" => event \in Device /\ pc' = "async"
      /\ late' = 0 \/ (late' = late /\ pc' # "python")
  BY EventAssumption DEF EndProcess, Raise, CheckIo, EndService, CheckException, Take
<1>5. pc \notin Sees("exit") /\ pc' \notin Sees("exit")
  BY <1>4, SeesFacts
<1>6. statArgs' \in [StatEvent -> SUBSET Stat]
  BY <1>1 DEF RequestInv
<1> QED BY <1>1, <1>2, <1>3, <1>4, <1>5, <1>6, QuietStep DEF Rest

\* While an interrupt waits the clock stands still.
LEMMA ClockStands ==
  ASSUME RequestInv, serviceOne, Answered("exit")
  PROVE  curTick' = curTick
<1>1. pending # <<>> /\ curTick' = when[Head(pending)] /\ OrderInv
  BY DEF serviceOne, RequestInv, SimInv
<1>2. PICK x \in ExitEvent : x \in scheduled /\ cause[x] = "interrupt"
  BY DEF Answered
<1>3. when[x] = curTick
  BY <1>2 DEF RequestInv, InterruptNow
<1>4. Head(pending) \in scheduled /\ Head(pending) \in Event /\ when[x] >= when[Head(pending)]
  BY <1>1, <1>2, HeadFirst
<1>5. when[Head(pending)] >= curTick
  BY <1>1, <1>4 DEF OrderInv, InTickOrder
<1>6. curTick \in Nat /\ when[Head(pending)] \in Nat
  BY <1>1, <1>4, MaxTickAssumption DEF OrderInv, OrderTypeOK, Tick
<1> QED BY <1>1, <1>3, <1>4, <1>5, <1>6

LEMMA ServiceRequests ==
  ASSUME RequestInv, SimInv', Service
  PROVE  RequestInv'
<1> DEFINE e == Head(pending)
<1>1. /\ pc = "loop" /\ serviceOne /\ UNCHANGED <<async, statArgs, cause, asked, unlucky>>
      /\ scheduled' = scheduled \ {e} /\ squashed' = squashed \ {e}
      /\ when' = [when EXCEPT ![e] = 0]
      /\ IF e \in squashed THEN pc' = "async" /\ event' = NoEvent
                           ELSE pc' = "process" /\ event' = e
      /\ late' = IF curTick' > curTick /\ "exit" \in asked THEN late + 1 ELSE late
  BY DEF Service, serviceOne
<1> HIDE DEF e
<1>2. Answered("exit") => curTick' = curTick
  BY <1>1, ClockStands
<1>3. InterruptNow'
  <2> SUFFICES ASSUME NEW x \in ExitEvent, x \in scheduled', cause[x] = "interrupt"
               PROVE  when'[x] = curTick'
    BY <1>1 DEF InterruptNow
  <2>1. x \in scheduled /\ x # e /\ when[x] = curTick
    BY <1>1 DEF RequestInv, InterruptNow
  <2>2. curTick' = curTick
    BY <1>2, <2>1 DEF Answered
  <2> QED BY <1>1, <2>1, <2>2, Kinds DEF RequestInv, SimInv, OrderInv, OrderTypeOK
<1>4. NeverDropped'
  BY <1>1 DEF NeverDropped, RequestInv
<1>5. ASSUME Answered("exit") PROVE Answered("exit")' \/ Processing("exit")'
  <2>1. PICK x \in ExitEvent : x \in scheduled /\ cause[x] = "interrupt"
    BY <1>5 DEF Answered
  <2>2. x \notin squashed
    BY <2>1 DEF RequestInv, NeverDropped
  <2> QED BY <1>1, <2>1, <2>2 DEF Answered, Processing
<1>6. ASSUME NEW r \in {"dump", "reset"}, Answered(r) PROVE Answered(r)' \/ Processing(r)'
  <2>1. PICK x \in StatEvent : x \in scheduled /\ r \in statArgs[x]
    BY <1>6 DEF Answered
  <2>2. x \notin squashed
    BY <2>1 DEF RequestInv, NeverDropped
  <2> QED BY <1>1, <1>6, <2>1, <2>2 DEF Answered, Processing
<1>7. Kept'
  <2> SUFFICES ASSUME NEW r \in Request, r \in asked
               PROVE  Noticed(r)' \/ Answered(r)' \/ Processing(r)' \/ (r = "reset" /\ unlucky)
    BY <1>1 DEF Kept
  <2>1. Noticed(r) \/ Answered(r) \/ (r = "reset" /\ unlucky)
    BY <1>1 DEF RequestInv, Kept, Processing
  <2>2. Noticed(r) => Noticed(r)'
    BY <1>1, NoticedFacts, SeesFacts DEF Request
  <2> QED BY <1>5, <1>6, <2>1, <2>2 DEF Request
<1>8. Paired' /\ Made'
  BY <1>1 DEF RequestInv, Paired, Made
<1>9. Late'
  <2>1. late \in {0, 1} /\ (late = 1 => "exit" \in asked /\ Answered("exit"))
    BY <1>1 DEF RequestInv, Late, Rest
  <2>2. curTick \in Nat
    BY MaxTickAssumption DEF RequestInv, SimInv, OrderInv, OrderTypeOK, Tick
  <2>3. late' \in {0, 1} /\ (late' = 1 => "exit" \in asked')
    BY <1>1, <1>2, <2>1, <2>2
  <2> QED BY <1>1, <2>3 DEF Late, Rest
<1> QED BY <1>1, <1>3, <1>4, <1>7, <1>8, <1>9 DEF RequestInv

LEMMA ProcessStatRequests ==
  ASSUME RequestInv, SimInv', ProcessStat
  PROVE  RequestInv'
<1>1. /\ pc = "process" /\ event \in StatEvent /\ pc' = "async"
      /\ asked' = asked \ statArgs[event] /\ unlucky' = (unlucky /\ "reset" \notin statArgs[event])
      /\ UNCHANGED <<async, statArgs, cause, late, scheduled, when, curTick, squashed>>
  BY DEF ProcessStat, dispose
<1>2. EventsKept
  BY <1>1 DEF EventsKept
<1>3. NeverDropped' /\ InterruptNow' /\ \A r \in Request : Answered(r) => Answered(r)'
  BY <1>2, AnswersKept
<1>4. Kept'
  <2> SUFFICES ASSUME NEW r \in Request, r \in asked, r \notin statArgs[event]
               PROVE  Noticed(r)' \/ Answered(r)' \/ (r = "reset" /\ unlucky')
    BY <1>1 DEF Kept
  <2>1. ~Processing(r)
    BY <1>1, Kinds DEF Processing
  <2>2. Noticed(r) \/ Answered(r) \/ (r = "reset" /\ unlucky)
    BY <2>1 DEF RequestInv, Kept
  <2>3. Noticed(r) => Noticed(r)'
    BY <1>1, NoticedFacts, SeesFacts DEF Request
  <2> QED BY <1>1, <1>3, <2>2, <2>3, Zenon
<1>5. Paired' /\ Made'
  BY <1>1 DEF RequestInv, Paired, Made
<1>6. "exit" \notin statArgs[event]
  BY <1>1 DEF RequestInv, Stat
<1>7. Late'
  BY <1>1, <1>6 DEF RequestInv, Late, Rest
<1>8. asked' \subseteq Request /\ statArgs' \in [StatEvent -> SUBSET Stat]
  BY <1>1 DEF RequestInv
<1> QED BY <1>3, <1>4, <1>5, <1>7, <1>8 DEF RequestInv

LEMMA ProcessExitRequests ==
  ASSUME RequestInv, SimInv', ProcessExit
  PROVE  RequestInv'
<1>1. /\ pc = "process" /\ event \in ExitEvent /\ pc' = "exited"
      /\ asked' = IF cause[event] = "interrupt" THEN asked \ {"exit"} ELSE asked
      /\ UNCHANGED <<async, statArgs, cause, late, unlucky, curTick, squashed>>
      /\ \/ UNCHANGED <<scheduled, when>>
         \/ /\ cause[event] = "periodic" /\ event \notin scheduled
            /\ scheduled' = scheduled \cup {event}
            /\ when' = [when EXCEPT ![event] = curTick + Period]
  BY DEF ProcessExit, Repeats, schedule, dispose
<1>2. EventsKept
  <2>1. when \in [Event -> Tick]
    BY DEF RequestInv, SimInv, OrderInv, OrderTypeOK
  <2> QED BY <1>1, <2>1, Kinds DEF EventsKept
<1>3. NeverDropped' /\ InterruptNow' /\ \A r \in Request : Answered(r) => Answered(r)'
  BY <1>2, AnswersKept
<1>4. Kept'
  <2> SUFFICES ASSUME NEW r \in Request, r \in asked'
               PROVE  Noticed(r)' \/ Answered(r)' \/ (r = "reset" /\ unlucky)
    BY <1>1 DEF Kept
  <2>1. r \in asked /\ ~Processing(r)
    BY <1>1, Kinds DEF Processing
  <2>2. Noticed(r) \/ Answered(r) \/ (r = "reset" /\ unlucky)
    BY <2>1 DEF RequestInv, Kept
  <2>3. Noticed(r) => Noticed(r)'
    BY <1>1, NoticedFacts, SeesFacts DEF Request
  <2> QED BY <1>3, <2>2, <2>3
<1>5. Paired' /\ Made' /\ Late'
  BY <1>1 DEF RequestInv, Paired, Made, Late, Rest
<1>6. asked' \subseteq Request /\ statArgs' \in [StatEvent -> SUBSET Stat]
  BY <1>1 DEF RequestInv
<1> QED BY <1>3, <1>4, <1>5, <1>6 DEF RequestInv

LEMMA CheckAsyncRequests ==
  ASSUME RequestInv, SimInv', CheckAsync
  PROVE  RequestInv'
<1>1. /\ pc = "async" /\ async' = async \ {"event"}
      /\ pc' = IF "event" \in async THEN "stat" ELSE "loop"
      /\ UNCHANGED <<statArgs, cause, asked, late, unlucky, scheduled, when, curTick, squashed>>
  BY DEF CheckAsync, Take, evars
<1>2. EventsKept
  BY <1>1 DEF EventsKept
<1>3. NeverDropped' /\ InterruptNow' /\ \A r \in Request : Answered(r) => Answered(r)'
  BY <1>2, AnswersKept
<1>4. \A r \in Request : r \in asked => Noticed(r) \/ Answered(r) \/ (r = "reset" /\ unlucky)
  BY <1>1 DEF RequestInv, Kept, Processing
<1>5. \A r \in Request : Noticed(r) => Noticed(r)' /\ "event" \in async
  BY <1>1, NoticedFacts, SeesFacts DEF Request
<1>6. Kept'
  BY <1>1, <1>3, <1>4, <1>5 DEF Kept
<1>7. Paired' /\ Made'
  BY <1>1 DEF RequestInv, Paired, Made
<1>8. Late'
  <2>1. "event" \notin async /\ "exit" \in asked => Answered("exit")'
    BY <1>3, <1>4, <1>5 DEF Request
  <2> QED BY <1>1, <2>1 DEF RequestInv, Late, Rest
<1> QED BY <1>1, <1>3, <1>6, <1>7, <1>8 DEF RequestInv

\* The event is made with the flags as they are.
LEMMA StatMade ==
  ASSUME RequestInv, CheckStat, async \cap Stat # {}
  PROVE  /\ EventsKept /\ statArgs' \in [StatEvent -> SUBSET Stat]
         /\ \A r \in {"dump", "reset"} : r \in async => Answered(r)'
<1> DEFINE e == New(StatEvent)
           args == async \cap Stat
<1>1. /\ e \in StatEvent /\ e \notin live /\ UNCHANGED cause
      /\ schedule(e, curTick) /\ statArgs' = [statArgs EXCEPT ![e] = args]
  BY NewFacts DEF CheckStat
<1>2. args \subseteq Stat /\ \A r \in {"dump", "reset"} : r \in async => r \in args
  BY DEF Stat
<1> HIDE DEF e, args
<1>3. /\ scheduled' = scheduled \cup {e} /\ UNCHANGED <<squashed, curTick>>
      /\ when' = [when EXCEPT ![e] = curTick]
  BY <1>1 DEF schedule
<1>4. /\ e \notin scheduled /\ when \in [Event -> Tick]
      /\ statArgs \in [StatEvent -> SUBSET Stat]
  BY <1>1 DEF RequestInv, SimInv, OrderInv, FlagsMatchQueue, OrderTypeOK
<1>5. \A x \in ExitEvent : when'[x] = when[x] /\ x # e
  BY <1>1, <1>3, <1>4, Kinds
<1>6. /\ statArgs' \in [StatEvent -> SUBSET Stat] /\ statArgs'[e] = args
      /\ \A x \in StatEvent : x # e => statArgs'[x] = statArgs[x]
  BY <1>1, <1>2, <1>4
<1>7. EventsKept
  BY <1>1, <1>3, <1>4, <1>5, <1>6 DEF EventsKept
<1>8. ASSUME NEW r \in {"dump", "reset"}, r \in async PROVE Answered(r)'
  BY <1>1, <1>2, <1>3, <1>6, <1>8 DEF Answered
<1> QED BY <1>6, <1>7, <1>8

LEMMA CheckStatRequests ==
  ASSUME RequestInv, SimInv', CheckStat
  PROVE  RequestInv'
<1>1. /\ pc = "stat" /\ UNCHANGED <<async, asked, late, unlucky>>
      /\ pc' = IF async \cap Stat # {} THEN "cleardump" ELSE "exit"
  BY DEF CheckStat
<1>2. /\ EventsKept /\ statArgs' \in [StatEvent -> SUBSET Stat]
      /\ \A r \in {"dump", "reset"} : r \in async => Answered(r)' /\ pc' = "cleardump"
  <2>1. CASE async \cap Stat # {}
    BY <1>1, <2>1, StatMade
  <2>2. CASE async \cap Stat = {}
    <3>1. UNCHANGED <<statArgs, cause, scheduled, when, curTick, squashed>>
      BY <2>2 DEF CheckStat, evars
    <3>2. "dump" \notin async /\ "reset" \notin async
      BY <2>2 DEF Stat
    <3> QED BY <3>1, <3>2 DEF EventsKept, RequestInv
  <2> QED BY <2>1, <2>2
<1>3. NeverDropped' /\ InterruptNow' /\ \A r \in Request : Answered(r) => Answered(r)'
  BY <1>2, AnswersKept
<1>4. Kept'
  <2> SUFFICES ASSUME NEW r \in Request, r \in asked
               PROVE  Noticed(r)' \/ Answered(r)' \/ (r = "reset" /\ unlucky)
    BY <1>1 DEF Kept
  <2>1. Noticed(r) \/ Answered(r) \/ (r = "reset" /\ unlucky)
    BY <1>1 DEF RequestInv, Kept, Processing
  <2>2. Noticed("exit") => Noticed("exit")'
    BY <1>1, NoticedFacts, SeesFacts DEF Request
  <2>3. r \in {"dump", "reset"} /\ Noticed(r) => Answered(r)'
    BY <1>2, NoticedFacts DEF Request
  <2> QED BY <1>3, <2>1, <2>2, <2>3 DEF Request
<1>5. Paired' /\ Late'
  BY <1>1 DEF RequestInv, Paired, Late, Rest
<1>6. Made'
  <2>1. pc' = "cleardump" => "dump" \in async
    BY <1>1 DEF Stat, RequestInv, Paired
  <2> QED BY <1>1, <1>2, <2>1 DEF Made
<1> QED BY <1>1, <1>2, <1>3, <1>4, <1>5, <1>6 DEF RequestInv

\* A flag that is set again before it is cleared: the event does what was asked for,
\* or it is the reset that came too late.
LEMMA ClearStatRequests ==
  ASSUME RequestInv, SimInv', ClearStat
  PROVE  RequestInv'
<1>1. /\ \/ pc = "cleardump" /\ async' = async \ {"dump"} /\ pc' = "clearreset"
         \/ pc = "clearreset" /\ async' = async \ {"reset"} /\ pc' = "exit"
      /\ UNCHANGED <<statArgs, cause, asked, late, unlucky, scheduled, when, curTick, squashed>>
  BY DEF ClearStat, evars
<1>2. EventsKept
  BY <1>1 DEF EventsKept
<1>3. NeverDropped' /\ InterruptNow' /\ \A r \in Request : Answered(r) => Answered(r)'
  BY <1>2, AnswersKept
<1>4. \A r \in Request : r \in asked => Noticed(r) \/ Answered(r) \/ (r = "reset" /\ unlucky)
  BY <1>1 DEF RequestInv, Kept, Processing
<1>5. Noticed("exit") => Noticed("exit")'
  BY <1>1, NoticedFacts, SeesFacts DEF Request
<1>6. Noticed("dump") => Noticed("dump")' \/ Answered("dump")
  <2>1. CASE pc = "cleardump"
    BY <2>1 DEF RequestInv, Made
  <2>2. CASE pc = "clearreset"
    BY <1>1, <2>2, NoticedFacts, SeesFacts DEF Request
  <2> QED BY <1>1, <2>1, <2>2
<1>7. Noticed("reset") => Answered("reset") \/ unlucky
  <2>1. Noticed("reset") => "reset" \in async
    BY NoticedFacts DEF Request
  <2> QED BY <1>1, <2>1 DEF RequestInv, Made
<1>8. Kept'
  BY <1>1, <1>3, <1>4, <1>5, <1>6, <1>7 DEF Kept, Request
<1>9. Paired' /\ Late'
  BY <1>1 DEF RequestInv, Paired, Late, Rest
<1>10. Made'
  BY <1>1, <1>3 DEF RequestInv, Made, Request
<1> QED BY <1>1, <1>3, <1>8, <1>9, <1>10 DEF RequestInv

LEMMA CheckExitRequests ==
  ASSUME RequestInv, SimInv', CheckExit
  PROVE  RequestInv'
<1>1. /\ pc = "exit" /\ async' = async \ {"exit"} /\ pc' = "io"
      /\ UNCHANGED <<statArgs, asked, late, unlucky>>
  BY DEF CheckExit, Take
<1>2. EventsKept /\ ("exit" \in async => Answered("exit")')
  <2>1. CASE "exit" \in async
    <3>1. exitSimLoop(curTick, "interrupt")
      BY <2>1 DEF CheckExit
    <3> QED BY <1>1, <3>1, ExitMade DEF Cause
  <2>2. CASE "exit" \notin async
    <3>1. UNCHANGED <<cause, scheduled, when, curTick, squashed>>
      BY <2>2 DEF CheckExit, evars
    <3> QED BY <1>1, <2>2, <3>1 DEF EventsKept
  <2> QED BY <2>1, <2>2
<1>3. NeverDropped' /\ InterruptNow' /\ \A r \in Request : Answered(r) => Answered(r)'
  BY <1>2, AnswersKept
<1>4. \A r \in Request : r \in asked => Noticed(r) \/ Answered(r) \/ (r = "reset" /\ unlucky)
  BY <1>1 DEF RequestInv, Kept, Processing
<1>5. \A r \in {"dump", "reset"} : Noticed(r) => Noticed(r)'
  BY <1>1, NoticedFacts, SeesFacts DEF Request
<1>6. Noticed("exit") => Answered("exit")'
  BY <1>2, NoticedFacts DEF Request
<1>7. Kept'
  BY <1>1, <1>3, <1>4, <1>5, <1>6 DEF Kept, Request
<1>8. Paired' /\ Made'
  BY <1>1 DEF RequestInv, Paired, Made
<1>9. Late'
  <2>1. "exit" \in asked => Answered("exit")'
    BY <1>3, <1>4, <1>6 DEF Request
  <2> QED BY <1>1, <2>1 DEF RequestInv, Late
<1> QED BY <1>1, <1>3, <1>7, <1>8, <1>9 DEF RequestInv

\* A handler sets async_event with the flag, wherever the loop is.
LEMMA HandlerRequests ==
  ASSUME RequestInv, SimInv', Handler
  PROVE  RequestInv'
<1>1. PICK flags \in {{"dump"}, {"dump", "reset"}, {"exit"}, {"io"}} : Signal(flags)
  BY DEF Handler, dumpStatsHandler, dumprstStatsHandler, exitNowHandler, handleIO
<1>2. /\ async' = async \cup {"event"} \cup flags /\ asked' = asked \cup (flags \ {"io"})
      /\ unlucky' = (unlucky \/ ("reset" \in flags /\ pc \in {"cleardump", "clearreset"}))
      /\ UNCHANGED <<pc, event, statArgs, cause, late, scheduled, when, curTick, squashed>>
  BY <1>1 DEF Signal, evars
<1>3. EventsKept
  BY <1>2 DEF EventsKept
<1>4. NeverDropped' /\ InterruptNow' /\ \A r \in Request : Answered(r) => Answered(r)'
  BY <1>3, AnswersKept
<1>5. ASSUME NEW r \in Request, r \in asked'
      PROVE  Noticed(r)' \/ Answered(r)' \/ Processing(r)' \/ (r = "reset" /\ unlucky')
  <2>1. CASE r \in flags
    BY <1>2, <2>1, NoticedFacts
  <2>2. CASE r \in asked
    <3>1. Noticed(r) \/ Answered(r) \/ Processing(r) \/ (r = "reset" /\ unlucky)
      BY <2>2 DEF RequestInv, Kept
    <3>2. Noticed(r) => Noticed(r)'
      BY <1>2, NoticedFacts
    <3>3. Processing(r) => Processing(r)'
      BY <1>2 DEF Processing
    <3> QED BY <1>2, <1>4, <3>1, <3>2, <3>3, Zenon
  <2> QED BY <1>2, <1>5, <2>1, <2>2
<1>6. Paired'
  BY <1>1, <1>2 DEF RequestInv, Paired
<1>7. Made'
  BY <1>2, <1>4, Zenon DEF RequestInv, Made, Request
<1>8. Late'
  BY <1>2, <1>4 DEF RequestInv, Late, Request
<1>9. asked' \subseteq Request /\ statArgs' \in [StatEvent -> SUBSET Stat]
  BY <1>1, <1>2 DEF RequestInv, Request
<1> QED BY <1>4, <1>5, <1>6, <1>7, <1>8, <1>9 DEF RequestInv, Kept

LEMMA RequestInit == SimInit => RequestInv
<1> SUFFICES ASSUME SimInit PROVE RequestInv
  OBVIOUS
<1>1. SimInv
  BY SimInitInv
<1>2. /\ pc = "python" /\ async = {} /\ asked = {} /\ late = 0 /\ scheduled = {} /\ squashed = {}
      /\ statArgs = [e \in StatEvent |-> {}]
  BY DEF SimInit, OrderInit
<1> QED BY <1>1, <1>2 DEF RequestInv, Kept, NeverDropped, Paired, Made, InterruptNow, Late

LEMMA RequestNext == RequestInv /\ [SimNext]_vars => RequestInv'
<1> SUFFICES ASSUME RequestInv, [SimNext]_vars PROVE RequestInv'
  OBVIOUS
<1>1. SimInv'
  BY SimNextInv DEF RequestInv
<1>2. ASSUME Loop PROVE RequestInv'
  BY <1>1, <1>2, ServiceRequests, IdleRequests, ProcessStatRequests, ProcessExitRequests,
     ReturnRequests, CheckAsyncRequests, CheckStatRequests, ClearStatRequests,
     CheckExitRequests, Zenon DEF Loop
<1>3. ASSUME UNCHANGED vars PROVE RequestInv'
  BY <1>1, <1>3, Zenon DEF vars, evars, svars, RequestInv, Kept, NeverDropped, Paired, Made,
     InterruptNow, Late, Noticed, Answered, Processing
<1> QED BY <1>1, <1>2, <1>3, CallRequests, HandlerRequests, SimulateRequests, Zenon DEF SimNext

\* The inductive invariant of the requests: what was asked for is marked by a flag that
\* will be looked at, or by an event, in the queue or processed now, that does it.
THEOREM RequestInvariant == SimSpec => []RequestInv
<1> QED BY RequestInit, RequestNext, PTL DEF SimSpec

\* Whenever the handlers of signals run between the steps of simulate() (simulate.cc:94-117),
\* no request is lost but a reset that came between its event and the clearing of its flag.
THEOREM RequestsNotLost == SimSpec => []RequestsKept
<1>1. ASSUME RequestInv PROVE RequestsKept
  <2> SUFFICES ASSUME NEW r \in asked
               PROVE  Noticed(r) \/ Underway(r) \/ (r = "reset" /\ unlucky)
    BY DEF RequestsKept
  <2>1. Noticed(r) \/ Answered(r) \/ Processing(r) \/ (r = "reset" /\ unlucky)
    BY <1>1 DEF RequestInv, Kept
  <2>2. Answered(r) \/ Processing(r) => Underway(r)
    BY Zenon DEF Answered, Processing, Underway
  <2> QED BY <2>1, <2>2
<1> QED BY <1>1, RequestInvariant, PTL

\* In each call of simulate() the clock moves on at most once before an interrupt
\* (async_exit, simulate.cc:101-104) is answered; a call that ends without answering it
\* (simulate.cc:74-91, 112-115) leaves it to the next one.
THEOREM InterruptAtNextEvent == SimSpec => []InterruptPrompt
<1>1. RequestInv => InterruptPrompt
  BY DEF RequestInv, Late, InterruptPrompt
<1> QED BY <1>1, RequestInvariant, PTL
=============================================================================
