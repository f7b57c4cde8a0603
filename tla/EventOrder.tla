----------------------------- MODULE EventOrder -----------------------------
(***************************************************************************)
(* What gem5's event queue promises (src/sim/eventq.hh): the events that   *)
(* are scheduled are served in the order of their ticks, within a tick in  *)
(* the order of their priorities, and those of one tick and one priority   *)
(* last in, first out.  EventQueue is the linked list of linked lists that *)
(* implements it; Simulate is the loop that uses it.                       *)
(*                                                                         *)
(* The asserts at the top of schedule, deschedule and reschedule are what  *)
(* a caller has to keep; they are the guards here.                         *)
(***************************************************************************)
EXTENDS Lists

CONSTANTS
  Event,      \* event objects
  Priority,   \* event -> its _priority
  MaxTick,    \* the largest tick, 2^63 - 1
  Temporary   \* events made for one use: AutoDelete, and the exit events, which leak

ASSUME MaxTickAssumption == MaxTick \in Nat
ASSUME PriorityAssumption == Priority \in [Event -> Int]
ASSUME TemporaryAssumption == Temporary \subseteq Event

VARIABLES
  pending,    \* the scheduled events, in the order in which they will be served
  when,       \* event -> its _when; of one that is not scheduled nobody reads it: 0
  scheduled,  \* events with the flag Scheduled
  squashed,   \* events with the flag Squashed
  live,       \* events whose object exists
  curTick     \* the simulation clock

evars == <<pending, when, scheduled, squashed, live, curTick>>

Tick == 0 .. MaxTick

OrderTypeOK ==
  /\ pending \in Seq(Event)
  /\ when \in [Event -> Tick]
  /\ scheduled \subseteq Event /\ squashed \subseteq Event /\ live \subseteq Event
  /\ curTick \in Tick

OrderInit ==
  /\ pending = <<>>
  /\ when = [e \in Event |-> 0]
  /\ scheduled = {} /\ squashed = {}
  /\ live = Event \ Temporary
  /\ curTick = 0

\* An event that fires at t with priority p comes before one of tick u, priority r.
Before(t, p, u, r) == t < u \/ (t = u /\ p < r)

\* Mutant: the ticks are compared and the priorities are not.
EntersAtTick(s, i, e, t) ==
  /\ \A j \in 1 .. i - 1 : when[s[j]] < t
  /\ i <= Len(s) => when[s[i]] >= t

\* Position i of s is where e enters at tick t: behind all that come before it and
\* ahead of those of the same tick and priority.
EntersAt(s, i, e, t) ==
  /\ \A j \in 1 .. i - 1 : Before(when[s[j]], Priority[s[j]], t, Priority[e])
  /\ i <= Len(s) => ~Before(when[s[i]], Priority[s[i]], t, Priority[e])

\* pending becomes s with e entered at tick t.
Enter(s, e, t) ==
  \E i \in 1 .. Len(s) + 1 : EntersAt(s, i, e, t) /\ pending' = InsertedAt(s, i, e)

\* An object made for this call (new) exists from now on.
schedule(e, t) ==
  /\ t >= curTick
  /\ e \notin scheduled
  /\ Enter(pending, e, t)
  /\ when' = [when EXCEPT ![e] = t]
  /\ scheduled' = scheduled \cup {e}
  /\ live' = live \cup {e}
  /\ UNCHANGED <<squashed, curTick>>

deschedule(e) ==
  /\ e \in scheduled
  /\ \E i \in 1 .. Len(pending) : pending[i] = e /\ pending' = RemovedAt(pending, i)
  /\ scheduled' = scheduled \ {e}
  /\ squashed' = squashed \ {e}
  /\ live' = live \ ({e} \cap Temporary)
  /\ when' = [when EXCEPT ![e] = 0]
  /\ UNCHANGED curTick

\* With always: an event that is not scheduled is scheduled.
reschedule(e, t) ==
  /\ t >= curTick
  /\ e \in live
  /\ IF e \in scheduled
       THEN \E i \in 1 .. Len(pending) : pending[i] = e /\ Enter(RemovedAt(pending, i), e, t)
       ELSE Enter(pending, e, t)
  /\ when' = [when EXCEPT ![e] = t]
  /\ scheduled' = scheduled \cup {e}
  /\ squashed' = squashed \ {e}
  /\ UNCHANGED <<live, curTick>>

\* Callers squash only what is scheduled; squash itself does not look.
squash(e) ==
  /\ e \in scheduled
  /\ squashed' = squashed \cup {e}
  /\ UNCHANGED <<pending, when, scheduled, live, curTick>>

\* The first event leaves the queue and its tick becomes the current one.  If it
\* is squashed nothing else happens; otherwise it is processed next.
serviceOne ==
  /\ pending # <<>>
  /\ LET e == Head(pending) IN
       /\ curTick' = when[e]
       /\ pending' = Tail(pending)
       /\ scheduled' = scheduled \ {e}
       /\ squashed' = squashed \ {e}
       /\ when' = [when EXCEPT ![e] = 0]
       /\ live' = IF e \in squashed THEN live \ ({e} \cap Temporary) ELSE live

\* After it has been processed a temporary event is gone, unless it has scheduled
\* itself again.
dispose(e) ==
  /\ live' = IF e \in Temporary /\ e \notin scheduled THEN live \ {e} ELSE live
  /\ UNCHANGED <<pending, when, scheduled, squashed, curTick>>

OrderNext ==
  \/ \E e \in Event :
       \/ \E t \in Tick : schedule(e, t) \/ reschedule(e, t)
       \/ deschedule(e) \/ squash(e) \/ dispose(e)
  \/ serviceOne

OrderSpec == OrderInit /\ [][OrderNext]_evars

-----------------------------------------------------------------------------
(* Properties.                                                             *)

\* No event has been "scheduled in the past" (simulate.cc:68), and what is served
\* next is never later than anything else that waits.
InTickOrder ==
  /\ \A e \in scheduled : when[e] >= curTick
  /\ \A i, j \in 1 .. Len(pending) : i < j =>
       ~Before(when[pending[j]], Priority[pending[j]], when[pending[i]], Priority[pending[i]])

\* The flag Scheduled, by which schedule, deschedule and the destructor decide,
\* is set exactly on the events that are in the queue, each of which is in it once
\* and still exists.
FlagsMatchQueue ==
  /\ scheduled = Range(pending)
  /\ IsInjective(pending)
  /\ scheduled \subseteq live
=============================================================================
