------------------------------ MODULE Simulate ------------------------------
(***************************************************************************)
(* The simulation loop, simulate() of src/sim/simulate.cc, with what runs  *)
(* around it: the Python script that calls it, the processing of events,   *)
(* which schedules others, the exit events that end it, and the signal     *)
(* handlers, which may run between any two steps.  A handler only sets     *)
(* flags (src/sim/async.hh), and the loop looks at them after every event. *)
(*                                                                         *)
(* One step of the loop reads or writes the flags once, except that        *)
(* reading a flag and clearing it right away is one step: a handler that   *)
(* runs in between has the same effect as one that runs before.            *)
(***************************************************************************)
EXTENDS EventOrder

CONSTANTS
  Device,       \* events of simulated objects, statically allocated
  PythonEvent,  \* those that call a Python function
  Clocked,      \* those that schedule themselves again, like the tick of a CPU
  ExitEvent,    \* objects of class SimLoopExitEvent
  StatEvent,    \* objects of class StatEvent
  NoEvent,
  Cycles,       \* arguments of simulate()
  Period,       \* the repeat of a periodic exit event
  MaxCalls      \* bound: calls of the objects but Recur, and signals

ASSUME EventAssumption ==
  /\ Event = Device \cup ExitEvent \cup StatEvent
  /\ Device \cap (ExitEvent \cup StatEvent) = {} /\ ExitEvent \cap StatEvent = {}
  /\ Temporary = ExitEvent \cup StatEvent
  /\ PythonEvent \subseteq Device /\ Clocked \subseteq Device
  /\ NoEvent \notin Event
ASSUME LoopAssumption == Cycles \subseteq Tick /\ Period \in Nat \ {0}
ASSUME BoundAssumption == MaxCalls \in Nat

VARIABLES
  pc,        \* where the program is
  limit,     \* limit_event of the simulate() that runs
  event,     \* the event being processed
  async,     \* the async_ flags that are set
  statArgs,  \* StatEvent -> what it does, dump and reset
  cause,     \* ExitEvent -> why it exits the loop
  calls,     \* calls made and signals sent
  asked,     \* history: what signals have asked for and has not been done yet
  late,      \* history: how often the clock has moved in this call of simulate() while
             \* an interrupt was unanswered
  raised,    \* history: simulate() has been left by an exception
  unlucky    \* history: a reset was asked for between its event's making and the
             \* clearing of the flag

svars == <<pc, limit, event, async, statArgs, cause, calls, asked, late, raised, unlucky>>
vars == <<evars, svars>>

Flag == {"event", "dump", "reset", "exit", "io", "exception"}
Stat == {"dump", "reset"}
Cause == {"limit", "interrupt", "exit", "periodic"}
Place == {"python", "loop", "process", "exited", "async", "stat", "cleardump",
          "clearreset", "exit", "io", "service", "exception"}

SimTypeOK ==
  /\ OrderTypeOK
  /\ pc \in Place
  /\ limit \in ExitEvent \cup {NoEvent} /\ event \in Event \cup {NoEvent}
  /\ async \subseteq Flag
  /\ statArgs \in [StatEvent -> SUBSET Stat]
  /\ cause \in [ExitEvent -> Cause]
  /\ calls \in 0 .. MaxCalls
  /\ asked \subseteq Stat \cup {"exit"}
  /\ late \in Nat /\ raised \in BOOLEAN /\ unlucky \in BOOLEAN

SimInit ==
  /\ OrderInit
  /\ pc = "python" /\ limit = NoEvent /\ event = NoEvent
  /\ async = {}
  /\ statArgs = [e \in StatEvent |-> {}]
  /\ cause = [e \in ExitEvent |-> "exit"]
  /\ calls = 0
  /\ asked = {} /\ late = 0 /\ raised = FALSE /\ unlucky = FALSE

-----------------------------------------------------------------------------
(* What the objects, and the Python script, do when they have control.     *)

\* They have it in the script, while an event of theirs is processed and while the
\* poll queue is served.
InControl == pc \in {"python", "service"} \/ (pc = "process" /\ event \in Device)

Calls(A) ==
  /\ InControl
  /\ calls < MaxCalls
  /\ calls' = calls + 1
  /\ A
  /\ UNCHANGED <<pc, limit, event, async, statArgs, asked, late, raised, unlucky>>

Schedule(d, t) == Calls(schedule(d, t) /\ UNCHANGED cause)
Reschedule(d, t) == Calls(reschedule(d, t) /\ UNCHANGED cause)
Deschedule(d) == Calls(deschedule(d) /\ UNCHANGED cause)
Squash(d) == Calls(squash(d) /\ UNCHANGED cause)

\* A clocked event schedules itself again when it is processed, for as long as the
\* program runs.
Recur(t) ==
  /\ pc = "process" /\ event \in Clocked
  /\ schedule(event, t)
  /\ UNCHANGED svars

\* The object that new returns, one that does not exist yet.
New(S) == CHOOSE e \in S : e \notin live

\* exitSimLoop makes an exit event and schedules it.
exitSimLoop(t, c) ==
  LET e == New(ExitEvent) IN
  /\ ExitEvent \ live # {}
  /\ schedule(e, t)
  /\ cause' = [cause EXCEPT ![e] = c]

\* Bound: of the finitely many exit events one is left for an interrupt.
Spare == \E e, f \in ExitEvent \ live : e # f

Exit(t, c) == Spare /\ Calls(exitSimLoop(t, c))

\* PythonEvent::process: the function has thrown.
Raise ==
  /\ pc = "process" /\ event \in PythonEvent
  /\ async' = async \cup {"event", "exception"}
  /\ dispose(event)
  /\ pc' = "async" /\ event' = NoEvent
  /\ UNCHANGED <<limit, statArgs, cause, calls, asked, late, raised, unlucky>>

-----------------------------------------------------------------------------
(* simulate().                                                             *)

\* Mutant: the overflow is not caught.
LimitAtOverflow(n) == curTick + n

\* The tick of the limit; on overflow, the largest one.
LimitAt(n) == IF curTick + n > MaxTick THEN MaxTick ELSE curTick + n

\* Mutant: the limit event is made and not scheduled.
simulateNoLimit(n) ==
  /\ pc = "python"
  /\ Spare
  /\ limit' = New(ExitEvent)
  /\ live' = live \cup {New(ExitEvent)}
  /\ cause' = [cause EXCEPT ![New(ExitEvent)] = "limit"]
  /\ pc' = "loop"
  /\ UNCHANGED <<pending, when, scheduled, squashed, curTick>>
  /\ UNCHANGED <<event, async, statArgs, calls, asked, late, raised, unlucky>>

simulate(n) ==
  /\ pc = "python"
  /\ Spare
  /\ exitSimLoop(LimitAt(n), "limit")
  /\ limit' = New(ExitEvent)
  /\ pc' = "loop"
  /\ UNCHANGED <<event, async, statArgs, calls, asked, late, raised, unlucky>>

\* A squashed event is dropped, any other one is processed.
Service ==
  /\ pc = "loop"
  /\ serviceOne
  /\ LET e == Head(pending) IN
       IF e \in squashed THEN pc' = "async" /\ event' = NoEvent
                         ELSE pc' = "process" /\ event' = e
  /\ late' = IF curTick' > curTick /\ "exit" \in asked THEN late + 1 ELSE late
  /\ UNCHANGED <<limit, async, statArgs, cause, calls, asked, raised, unlucky>>

\* The process() of an object's event has returned.
EndProcess ==
  /\ pc = "process" /\ event \in Device
  /\ dispose(event)
  /\ pc' = "async" /\ event' = NoEvent
  /\ UNCHANGED <<limit, async, statArgs, cause, calls, asked, late, raised, unlucky>>

\* StatEvent::process
ProcessStat ==
  /\ pc = "process" /\ event \in StatEvent
  /\ dispose(event)
  /\ asked' = asked \ statArgs[event]
  /\ unlucky' = (unlucky /\ "reset" \notin statArgs[event])
  /\ pc' = "async" /\ event' = NoEvent
  /\ UNCHANGED <<limit, async, statArgs, cause, calls, late, raised>>

\* Bound: a periodic exit event stops at the largest tick.
Repeats(e) == cause[e] = "periodic" /\ curTick + Period <= MaxTick

\* SimLoopExitEvent::process
ProcessExit ==
  /\ pc = "process" /\ event \in ExitEvent
  /\ IF Repeats(event) THEN schedule(event, curTick + Period) ELSE dispose(event)
  /\ asked' = IF cause[event] = "interrupt" THEN asked \ {"exit"} ELSE asked
  /\ pc' = "exited"
  /\ UNCHANGED <<limit, event, async, statArgs, cause, calls, late, raised, unlucky>>

\* Mutant: a limit that was not reached stays.
ReturnKeepsLimit ==
  /\ pc = "exited"
  /\ pc' = "python" /\ limit' = NoEvent /\ event' = NoEvent
  /\ late' = 0
  /\ UNCHANGED <<evars, async, statArgs, cause, calls, asked, raised, unlucky>>

\* Back to Python.  A limit that was not reached is squashed.
Return ==
  /\ pc = "exited"
  /\ IF event # limit THEN squash(limit) ELSE UNCHANGED evars
  /\ pc' = "python" /\ limit' = NoEvent /\ event' = NoEvent
  /\ late' = 0
  /\ UNCHANGED <<async, statArgs, cause, calls, asked, raised, unlucky>>

-----------------------------------------------------------------------------
(* The asynchronous events, at the end of every round of the loop.         *)

\* Flag f is cleared if it is set; the loop goes on at p or, if not, at q.
Take(f, p, q) ==
  /\ async' = async \ {f}
  /\ pc' = IF f \in async THEN p ELSE q

CheckAsync ==
  /\ pc = "async"
  /\ Take("event", "stat", "loop")
  /\ UNCHANGED <<evars, limit, event, statArgs, cause, calls, asked, late, raised, unlucky>>

\* schedStatEvent is called with the flags as they are now.
CheckStat ==
  /\ pc = "stat"
  /\ IF async \cap Stat # {}
       THEN LET e == New(StatEvent) IN
              /\ StatEvent \ live # {}
              /\ schedule(e, curTick)
              /\ statArgs' = [statArgs EXCEPT ![e] = async \cap Stat]
              /\ pc' = "cleardump"
       ELSE pc' = "exit" /\ UNCHANGED <<evars, statArgs>>
  /\ UNCHANGED <<limit, event, async, cause, calls, asked, late, raised, unlucky>>

\* Mutant: async_statdump and async_exit are mixed up.
ClearStatExit ==
  /\ \/ pc = "cleardump" /\ async' = async \ {"exit"} /\ pc' = "clearreset"
     \/ pc = "clearreset" /\ async' = async \ {"reset"} /\ pc' = "exit"
  /\ UNCHANGED <<evars, limit, event, statArgs, cause, calls, asked, late, raised, unlucky>>

ClearStat ==
  /\ \/ pc = "cleardump" /\ async' = async \ {"dump"} /\ pc' = "clearreset"
     \/ pc = "clearreset" /\ async' = async \ {"reset"} /\ pc' = "exit"
  /\ UNCHANGED <<evars, limit, event, statArgs, cause, calls, asked, late, raised, unlucky>>

\* Mutant: the exit is scheduled for the next tick.
CheckExitNextTick ==
  /\ pc = "exit"
  /\ Take("exit", "io", "io")
  /\ IF "exit" \in async
       THEN exitSimLoop(LimitAt(1), "interrupt")
       ELSE UNCHANGED <<evars, cause>>
  /\ UNCHANGED <<limit, event, statArgs, calls, asked, late, raised, unlucky>>

CheckExit ==
  /\ pc = "exit"
  /\ Take("exit", "io", "io")
  /\ IF "exit" \in async
       THEN exitSimLoop(curTick, "interrupt")
       ELSE UNCHANGED <<evars, cause>>
  /\ UNCHANGED <<limit, event, statArgs, calls, asked, late, raised, unlucky>>

\* async_io and async_alarm, which are treated alike.
CheckIo ==
  /\ pc = "io"
  /\ Take("io", "service", "exception")
  /\ UNCHANGED <<evars, limit, event, statArgs, cause, calls, asked, late, raised, unlucky>>

\* pollQueue.service() has returned.
EndService ==
  /\ pc = "service"
  /\ pc' = "exception"
  /\ UNCHANGED <<evars, limit, event, async, statArgs, cause, calls, asked, late, raised, unlucky>>

\* simulate() returns NULL; the limit event stays as it is.
CheckException ==
  /\ pc = "exception"
  /\ Take("exception", "python", "loop")
  /\ IF "exception" \in async
       THEN limit' = NoEvent /\ late' = 0 /\ raised' = TRUE
       ELSE UNCHANGED <<limit, late, raised>>
  /\ UNCHANGED <<evars, event, statArgs, cause, calls, asked, unlucky>>

-----------------------------------------------------------------------------
(* The signal handlers.                                                    *)

Signal(flags) ==
  /\ calls < MaxCalls
  /\ calls' = calls + 1
  /\ async' = async \cup {"event"} \cup flags
  /\ asked' = asked \cup (flags \ {"io"})
  /\ unlucky' = (unlucky \/ ("reset" \in flags /\ pc \in {"cleardump", "clearreset"}))
  /\ UNCHANGED <<evars, pc, limit, event, statArgs, cause, late, raised>>

\* Bound: there is a StatEvent, an exit event left to answer the signal with.
dumpStatsHandler == StatEvent \ live # {} /\ Signal({"dump"})
dumprstStatsHandler == StatEvent \ live # {} /\ Signal({"dump", "reset"})
exitNowHandler == ExitEvent \ live # {} /\ Signal({"exit"})
handleIO == Signal({"io"})

Handler == dumpStatsHandler \/ dumprstStatsHandler \/ exitNowHandler \/ handleIO

Call ==
  \/ \E d \in Device, t \in Tick : Schedule(d, t) \/ Reschedule(d, t)
  \/ \E d \in Device : Deschedule(d) \/ Squash(d)
  \/ \E t \in Tick : Recur(t)
  \/ \E t \in Tick, c \in {"exit", "periodic"} : Exit(t, c)

Loop ==
  \/ Service \/ EndProcess \/ Raise \/ ProcessStat \/ ProcessExit \/ Return
  \/ CheckAsync \/ CheckStat \/ ClearStat \/ CheckExit \/ CheckIo \/ EndService
  \/ CheckException

SimNext == Call \/ Loop \/ Handler \/ \E n \in Cycles : simulate(n)

SimSpec == SimInit /\ [][SimNext]_vars

-----------------------------------------------------------------------------
(* Properties.                                                             *)

\* The asserts of the loop (simulate.cc:66, 85): while simulate() runs its limit
\* event waits in the queue, unless it is the one that ends it.
LimitWaits ==
  pc # "python" =>
    /\ limit \in ExitEvent
    /\ limit \in scheduled \ squashed \/ (limit = event /\ pc \in {"process", "exited"})

\* "Simulate for num_cycles additional cycles" (simulate.cc:42): a call does not end
\* at the limit of an earlier one, unless that was left by an exception.
OwnLimit ==
  ~raised =>
    \A e \in (ExitEvent \cap scheduled) \ squashed : cause[e] = "limit" => e = limit

\* "at the end of the current cycle" (sim_exit.hh:50): when an exit event ends the
\* loop, no event of the tick that comes before it is left.
ExitsLast ==
  pc \in {"process", "exited"} /\ event \in ExitEvent =>
    \A e \in scheduled : when[e] = curTick => Priority[e] >= Priority[event]

\* A flag will be looked at: async_event is set too, or the loop has just seen it.
Noticed(r) ==
  /\ r \in async
  /\ "event" \in async \/ pc \in {"stat"} \cup
       (CASE r = "dump" -> {"cleardump"}
          [] r = "reset" -> {"cleardump", "clearreset"}
          [] r = "exit" -> {"cleardump", "clearreset", "exit"})

\* An event that does what was asked for waits, or is being processed.
Underway(r) ==
  IF r = "exit"
    THEN \E e \in ExitEvent : (e \in scheduled \/ e = event) /\ cause[e] = "interrupt"
    ELSE \E e \in StatEvent : (e \in scheduled \/ e = event) /\ r \in statArgs[e]

\* "To avoid races, signal handlers simply set these flags, which are then checked
\* in the main event loop" (async.hh:41): whenever the signals arrive, what they ask
\* for is not lost between the flag and the event that answers it.  The exception
\* is a reset asked for after schedStatEvent has read the flag and before the loop
\* clears it (simulate.cc:96-98).
RequestsKept ==
  \A r \in asked : Noticed(r) \/ Underway(r) \/ (r = "reset" /\ unlucky)

\* An interrupt takes effect at the next event: in each call of simulate() the clock
\* moves on at most once before it is answered.  A call that another exit event or an
\* exception ends first leaves it to the next one, which moves the clock again: the
\* loop returns on an exit event without a look at the flags (simulate.cc:74-91).
InterruptPrompt == late <= 1

\* An event of an object is scheduled for the current tick, by Recur for one.
SameTick ==
  \E d \in Device : d \notin scheduled /\ d \in scheduled' /\ when'[d] = curTick
=============================================================================
