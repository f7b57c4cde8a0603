------------------------------ MODULE FiSystem ------------------------------
(***************************************************************************)
(* The thread table of Fi_System (src/fi/fi_system.hh): the map            *)
(* fi_activation from the address of a process control block (PCB) to a    *)
(* position of the vector threadList, the vector, and the next free        *)
(* position vectorpos.  The actions are the three pseudo instructions of   *)
(* src/sim/pseudo_inst.cc, executed by the guest program, and the events   *)
(* the CPU models count for the thread that runs: one more instruction     *)
(* fetched, decoded or executed, or some ticks passed.                     *)
(*                                                                         *)
(* Which sequences of pseudo instructions a guest program issues is not up *)
(* to this code; Liberty names the ones beyond the intended use (init once *)
(* while nothing is active, then one activation and one deactivation per   *)
(* thread) that the guest may take.                                        *)
(***************************************************************************)
EXTENDS ThreadEnabledFault, Sequences

CONSTANTS
  Pcb,        \* addresses of process control blocks
  Latency,    \* ticks a CPU model may account for one step
  MaxEvents,  \* bound on the events (ticks counted one by one) of one PCB
  Tracing,    \* is the debug flag FaultInjection on?
  Liberty     \* what the guest may do beyond the intended use

Liberties == {"resetWhileActive", "getPcWhenStopped", "toggleAgain"}

ASSUME LatencyAssumption == Latency \subseteq Nat \ {0}
ASSUME MaxEventsAssumption == MaxEvents \in Nat
ASSUME TracingAssumption == Tracing \in BOOLEAN
ASSUME LibertyAssumption == Liberty \subseteq Liberties

VARIABLES
  fi_activation,  \* PCB -> position in threadList, Stopped, or Absent
  threadList,     \* the vector; position i of the code is threadList[i + 1]
  vectorpos,      \* the next free position of the vector
  wild,           \* who has indexed threadList outside its bounds
  ran             \* history: events of each active PCB on each core since it activated

tvars == <<fi_activation, threadList, vectorpos, wild, ran>>

Absent == -2   \* the PCB is not a key of the map
Stopped == -1  \* the value fi_activate_inst stores when it deactivates

Active(p) == fi_activation[p] \notin {Absent, Stopped}
InRange(i) == i + 1 \in 1 .. Len(threadList)

\* The pseudo instructions, the CPU models and the trace output look into the vector.
Reader == {"guest", "cpu", "dump"}
Indexes(who, i) == wild' = IF InRange(i) THEN wild ELSE wild \cup {who}

ThreadOf(p) == threadList[fi_activation[p] + 1]
NothingRan == [c \in Core |-> ZeroBlock]
EventsOf(p) == SumFunction([x \in Core \X Counter |-> ran[p][x[1]][x[2]]])

TypeOK ==
  /\ fi_activation \in [Pcb -> Nat \cup {Absent, Stopped}]
  /\ threadList \in Seq(Thread)
  /\ vectorpos \in Nat
  /\ wild \subseteq Reader
  /\ ran \in [Pcb -> [Core -> Block]]

Init ==
  /\ fi_activation = [p \in Pcb |-> Absent]
  /\ threadList = <<>>
  /\ vectorpos = 0
  /\ wild = {}
  /\ ran = [p \in Pcb |-> NothingRan]

-----------------------------------------------------------------------------
(* fi_activate_inst(threadid): the first call of a PCB activates it, every *)
(* later one deactivates it.  ra is the return address register.           *)

\* Mutant: vectorpos++ is missing.
ActivateNewKeepsPos(p, id, ra) ==
  /\ fi_activation[p] = Absent
  /\ fi_activation' = [fi_activation EXCEPT ![p] = vectorpos]
  /\ threadList' = [Append(threadList, NewThread(id)) EXCEPT ![vectorpos + 1].magic = ra]
  /\ ran' = [ran EXCEPT ![p] = NothingRan]
  /\ UNCHANGED <<vectorpos, wild>>

ActivateNew(p, id, ra) ==
  /\ fi_activation[p] = Absent
  /\ fi_activation' = [fi_activation EXCEPT ![p] = vectorpos]
  /\ threadList' = [Append(threadList, NewThread(id)) EXCEPT ![vectorpos + 1].magic = ra]
  /\ wild' = IF vectorpos = Len(threadList) THEN wild ELSE wild \cup {"guest"}
  /\ vectorpos' = vectorpos + 1
  /\ ran' = [ran EXCEPT ![p] = NothingRan]

Deactivate(p) ==
  /\ fi_activation[p] # Absent
  /\ fi_activation[p] = Stopped => "toggleAgain" \in Liberty
  /\ Indexes("guest", fi_activation[p])  \* print_time on the thread
  /\ fi_activation' = [fi_activation EXCEPT ![p] = Stopped]
  /\ ran' = [ran EXCEPT ![p] = NothingRan]
  /\ UNCHANGED <<threadList, vectorpos>>

fi_activate_inst(p, id, ra) == ActivateNew(p, id, ra) \/ Deactivate(p)

\* get_Pc_address: a PCB in the map stores the current PC, any other is ignored.
get_Pc_address(p, pc) ==
  /\ fi_activation[p] # Absent
  /\ fi_activation[p] = Stopped => "getPcWhenStopped" \in Liberty
  /\ Indexes("guest", fi_activation[p])
  /\ threadList' = IF InRange(fi_activation[p])
                     THEN [threadList EXCEPT ![fi_activation[p] + 1].magic = pc]
                     ELSE threadList
  /\ UNCHANGED <<fi_activation, vectorpos, ran>>

\* Mutant: vectorpos is not reset.
ResetThreadsKeepsPos ==
  /\ threadList' = <<>>
  /\ UNCHANGED <<vectorpos, fi_activation, wild, ran>>

\* Fi_System::reset, the part about threads: the vector is emptied, the map is not.
\* At its end dump(), when the debug flag is on, looks up every entry of the map.
ResetThreads ==
  /\ vectorpos' = 0
  /\ threadList' = <<>>
  /\ wild' = IF Tracing /\ \E p \in Pcb : fi_activation[p] # Absent
               THEN wild \cup {"dump"} ELSE wild
  /\ UNCHANGED <<fi_activation, ran>>

init_fi_system ==
  /\ (\E p \in Pcb : Active(p)) => "resetWhileActive" \in Liberty
  /\ ResetThreads

-----------------------------------------------------------------------------
(* What a CPU model counts for the PCB p that runs in user mode on core c. *)
(* Nothing happens when p is not active.                                   *)

CountEvent(p, c, k, n, th) ==
  /\ Active(p)
  /\ EventsOf(p) + n <= MaxEvents
  /\ ran' = [ran EXCEPT ![p][c][k] = @ + n]
  /\ Indexes("cpu", fi_activation[p])
  /\ threadList' = IF InRange(fi_activation[p])
                     THEN [threadList EXCEPT ![fi_activation[p] + 1] = th]
                     ELSE threadList
  /\ UNCHANGED <<fi_activation, vectorpos>>

increase_instr_fetched(p, c) ==
  CountEvent(p, c, Fetched, 1, increaseFetchedInstr(ThreadOf(p), c))
increase_instr_decoded(p, c) ==
  CountEvent(p, c, Decoded, 1, increaseDecodedInstr(ThreadOf(p), c))
increase_instr_executed(p, c) ==
  CountEvent(p, c, Executed, 1, increaseExecutedInstr(ThreadOf(p), c))
increase_ticks(p, c, n) ==
  CountEvent(p, c, Ticks, n, increaseTicks(ThreadOf(p), c, n))

\* The hooks of fi_system.hh read the record of the running PCB.
ReadThread(p) ==
  /\ Active(p)
  /\ Indexes("cpu", fi_activation[p])
  /\ UNCHANGED <<fi_activation, threadList, vectorpos, ran>>

Next ==
  \/ \E p \in Pcb, id \in ThreadId, a \in Addr : fi_activate_inst(p, id, a)
  \/ \E p \in Pcb, a \in Addr : get_Pc_address(p, a)
  \/ init_fi_system
  \/ \E p \in Pcb : ReadThread(p)
  \/ \E p \in Pcb, c \in Core :
       \/ increase_instr_fetched(p, c)
       \/ increase_instr_decoded(p, c)
       \/ increase_instr_executed(p, c)
       \/ \E n \in Latency : increase_ticks(p, c, n)

Spec == Init /\ [][Next]_tvars

-----------------------------------------------------------------------------
(* The counts of all threads (get_core_*_time): every active entry of the  *)
(* map is looked up in the vector and its counts are added.                *)

CoreTime(where, k) ==
  SumFunction([p \in {q \in Pcb : Active(q)} |-> Total(ThreadOf(p), where, k)])

get_core_fetched_time(where) ==
  [instr |-> CoreTime(where, Fetched), time |-> CoreTime(where, Ticks)]
get_core_decoded_time(where) ==
  [instr |-> CoreTime(where, Decoded), time |-> CoreTime(where, Ticks)]
get_core_executed_time(where) ==
  [instr |-> CoreTime(where, Executed), time |-> CoreTime(where, Ticks)]

-----------------------------------------------------------------------------
(* Properties.                                                             *)

\* No pseudo instruction (pseudo_inst.cc:247, 261, 299), no hook and no CPU model
\* counting an event indexes threadList outside its bounds, also after a reset has
\* emptied it.  dump() is excepted: it ends every reset and, with the debug flag on,
\* looks up in the emptied vector every PCB that was ever activated
\* (fi_system.cc:93, 253, 268).
NoWildAccess == wild \subseteq {"dump"}

\* The map and the vector agree: vectorpos is the length of the vector, every
\* active PCB has a position in it, and no two active PCBs share one, so no
\* thread is charged with the instructions of another.
SlotsDistinct ==
  /\ vectorpos = Len(threadList)
  /\ \A p \in Pcb : Active(p) => InRange(fi_activation[p])
  /\ \A p, q \in Pcb :
       Active(p) /\ Active(q) /\ fi_activation[p] = fi_activation[q] => p = q

\* The counts of thread th against the events r that really happened: on a core
\* th has been seen on exactly the first event is missing from its counter.
FirstEventMissing(th, r) ==
  \A c \in Core :
    IF c \notin th.cores
      THEN r[c] = ZeroBlock /\ th.cnt[c] = ZeroBlock
      ELSE \E k \in Counter :
             /\ r[c][k] > th.cnt[c][k]
             /\ k # Ticks => r[c][k] = th.cnt[c][k] + 1
             /\ \A j \in Counter \ {k} : r[c][j] = th.cnt[c][j]

\* The counters of an active PCB hold its own events and nobody else's, all of
\* them but the first one on each core (cpu_threadInfo.cc:58-121).
CountsOwnEvents ==
  \A p \in Pcb : Active(p) => FirstEventMissing(ThreadOf(p), ran[p])

\* "delete all info and restart from the begining" (fi_system.cc:217): once the
\* vector has been emptied no PCB is known, so each of them can activate again.
ResetForgetsThreads == threadList = <<>> => \A p \in Pcb : fi_activation[p] = Absent
=============================================================================
