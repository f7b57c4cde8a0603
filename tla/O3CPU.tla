-------------------------------- MODULE O3CPU --------------------------------
(***************************************************************************)
(* The out-of-order CPU model with fault injection.  A fetch cycle         *)
(* (DefaultFetch::fetch of src/cpu/o3/fetch_impl.hh) charges its ticks and *)
(* then calls main_fault, fetch_fault and decode_fault for each of up to   *)
(* FetchWidth instructions, on the predicted path.  Instructions in flight *)
(* execute out of order, which calls iew_fault, loads perhaps repeatedly;  *)
(* they are squashed, or commit in order.                                  *)
(*                                                                         *)
(* The hooks read the mode and the PCB that the committed instructions     *)
(* have left, not those of the instruction they are called for.            *)
(***************************************************************************)
EXTENDS FaultInjector

CONSTANTS
  NoPcb,       \* no PCB of interest
  FetchWidth,  \* instructions per fetch cycle
  Window       \* bound: instructions in flight

ASSUME O3Assumption ==
  /\ NoPcb \notin Pcb
  /\ CpuTicks \in Latency
  /\ FetchWidth \in Nat \ {0} /\ Window \in Nat \ {0}

VARIABLES
  mode,     \* core -> "user" or "kernel"
  running,  \* core -> the PCB in its IPR_PALtemp23, or NoPcb
  flight,   \* core -> the instructions in flight, the oldest first
  cycle     \* the fetch cycle under way, or NoCycle

pvars == <<mode, running, flight, cycle>>
ovars == <<ivars, pvars>>

NoCycle == [stage |-> "none"]

\* An instruction that waits for its execution, one that has been executed, one of the
\* pseudo instructions, which are executed when they commit, and a fault of the fetch.
Inst == {"op", "done", "pseudo", "fault"}

O3TypeOK ==
  /\ InjTypeOK
  /\ mode \in [Core -> {"user", "kernel"}]
  /\ running \in [Core -> Pcb \cup {NoPcb}]
  /\ flight \in [Core -> Seq(Inst)] /\ \A c \in Core : Len(flight[c]) <= Window
  /\ cycle \in [stage : {"loop", "main", "fetch", "decode"}, core : Core, num : 0 .. FetchWidth - 1]
              \cup {NoCycle}

O3Init ==
  /\ InjInit
  /\ mode = [c \in Core |-> "kernel"]
  /\ running = [c \in Core |-> NoPcb]
  /\ flight = [c \in Core |-> <<>>]
  /\ cycle = NoCycle

Injecting(c) == mode[c] = "user" /\ running[c] \in Pcb /\ Active(running[c])

CallHook(s, c) ==
  IF Injecting(c)
    THEN \E pc \in Addr : BeginHook(s, c, running[c], pc)
    ELSE Elsewhere(UNCHANGED tvars)

-----------------------------------------------------------------------------
(* The fetch cycle.                                                        *)

\* The cycle is at stage s and the hook called there has returned.
At(s) == cycle # NoCycle /\ cycle.stage = s /\ Ready

\* Whoever runs has room for one more cycle under the bound MaxEvents.
Room == \A p \in Pcb : EventsOf(p) + CpuTicks + 2 * FetchWidth <= MaxEvents

\* fetch is not waiting for a trap.
Fetching(c) == "fault" \notin Range(flight[c])

\* Mutants: the ticks are not charged; they are charged above the early returns, so
\* that a cycle that is stalled is charged, too.
BeginFetchNoCharge(c) ==
  /\ Ready /\ cycle = NoCycle /\ Room /\ Fetching(c) /\ Len(flight[c]) + FetchWidth <= Window
  /\ cycle' = [stage |-> "loop", core |-> c, num |-> 0]
  /\ UNCHANGED <<ivars, mode, running, flight>>
BeginFetchOrStall(c) ==
  /\ Ready /\ cycle = NoCycle /\ Room /\ Fetching(c) /\ Len(flight[c]) + FetchWidth <= Window
  /\ cycle' \in {[stage |-> "loop", core |-> c, num |-> 0], NoCycle}
  /\ IF Injecting(c) THEN Elsewhere(increase_ticks(running[c], c, CpuTicks))
                     ELSE UNCHANGED ivars
  /\ UNCHANGED <<mode, running, flight>>

\* The early returns are behind it: fetch is running and its block has been read.
BeginFetch(c) ==
  /\ Ready /\ cycle = NoCycle /\ Room /\ Fetching(c) /\ Len(flight[c]) + FetchWidth <= Window
  /\ cycle' = [stage |-> "loop", core |-> c, num |-> 0]
  /\ IF Injecting(c) THEN Elsewhere(increase_ticks(running[c], c, CpuTicks))
                     ELSE UNCHANGED ivars
  /\ UNCHANGED <<mode, running, flight>>

\* Mutant: main_fault is called before the first instruction of the cycle only.
NextInstMainOnce ==
  /\ At("loop")
  /\ cycle' = [cycle EXCEPT !.stage = "main"]
  /\ IF cycle.num = 0 THEN CallHook("main", cycle.core) ELSE UNCHANGED ivars
  /\ UNCHANGED <<mode, running, flight>>

NextInst ==
  /\ At("loop")
  /\ cycle' = [cycle EXCEPT !.stage = "main"]
  /\ CallHook("main", cycle.core)
  /\ UNCHANGED <<mode, running, flight>>

\* The instruction is not in the block that was read: the cycle ends.
Break ==
  /\ At("main")
  /\ cycle' = NoCycle
  /\ UNCHANGED <<ivars, mode, running, flight>>

Fetch ==
  /\ At("main")
  /\ cycle' = [cycle EXCEPT !.stage = "fetch"]
  /\ CallHook("fetch", cycle.core)
  /\ UNCHANGED <<mode, running, flight>>

Decode ==
  /\ At("fetch")
  /\ cycle' = [cycle EXCEPT !.stage = "decode"]
  /\ CallHook("decode", cycle.core)
  /\ UNCHANGED <<mode, running, flight>>

\* Mutant: the instructions of the cycle are not counted.
ContinuedUncounted(n) == [cycle EXCEPT !.stage = "loop"]

\* The loop goes on while it has fetched fewer than FetchWidth instructions.
Continued(n) == IF n < FetchWidth THEN [cycle EXCEPT !.stage = "loop", !.num = n] ELSE NoCycle

\* buildInst; a branch that is predicted taken, or quiesce, ends the loop.
BuildInst(x) ==
  /\ At("decode")
  /\ flight' = [flight EXCEPT ![cycle.core] = Append(@, x)]
  /\ cycle' \in {Continued(cycle.num + 1), NoCycle}
  /\ UNCHANGED <<ivars, mode, running>>

\* The instruction cannot be translated: a nop that carries the fault goes down the
\* pipeline until a squash takes it away, and nothing is fetched before that.  None of the
\* hooks is called for it.
finishTranslation(c) ==
  /\ Ready /\ cycle = NoCycle /\ Fetching(c) /\ Len(flight[c]) < Window
  /\ flight' = [flight EXCEPT ![c] = Append(@, "fault")]
  /\ UNCHANGED <<ivars, mode, running, cycle>>

-----------------------------------------------------------------------------
(* Execution and commit, in the other stages of the pipeline.              *)

Between == Ready /\ cycle = NoCycle

\* Any instruction whose operands are there, also one on a wrong path.  Branches, loads
\* and stores, the operate formats and hw_mtpr call iew_fault.
Execute(c, i) ==
  /\ Between
  /\ i \in DOMAIN flight[c] /\ flight[c][i] = "op"
  /\ flight' = [flight EXCEPT ![c][i] = "done"]
  /\ CallHook("iew", c) \/ UNCHANGED ivars
  /\ UNCHANGED <<mode, running, cycle>>

\* rescheduleMemInst: a load that has called iew_fault for its address waits for a
\* store, or for its turn to access a device, and is executed once more.  The second
\* call of a store conditional, for its result, is such a second execution.
Reschedule(c, i) ==
  /\ Between
  /\ i \in DOMAIN flight[c] /\ flight[c][i] = "done"
  /\ flight' = [flight EXCEPT ![c][i] = "op"]
  /\ UNCHANGED <<ivars, mode, running, cycle>>

\* A mispredicted branch or a load that has overtaken a store removes what is younger,
\* a fault, an interrupt or a changed register everything.
Squash(c, i) ==
  /\ Between
  /\ i \in 0 .. Len(flight[c]) - 1
  /\ flight' = [flight EXCEPT ![c] = SubSeq(@, 1, i)]
  /\ UNCHANGED <<ivars, mode, running, cycle>>

Retires(c, x) ==
  /\ Between
  /\ flight[c] # <<>> /\ Head(flight[c]) = x
  /\ flight' = [flight EXCEPT ![c] = Tail(@)]
  /\ UNCHANGED cycle

Commit(c) == Retires(c, "done") /\ UNCHANGED <<ivars, mode, running>>

\* hw_mtpr writes its register when it commits: the mode ...
CommitMode(c) ==
  /\ Retires(c, "done")
  /\ mode' = [mode EXCEPT ![c] = IF @ = "user" THEN "kernel" ELSE "user"]
  /\ UNCHANGED <<ivars, running>>

\* ... or the PCB; a process runs on one core at a time.
CommitContext(c, p) ==
  /\ Retires(c, "done")
  /\ mode[c] = "kernel"
  /\ p \in Pcb => \A d \in Core : running[d] # p
  /\ running' = [running EXCEPT ![c] = p]
  /\ UNCHANGED <<ivars, mode>>

\* Mutant: init_fi_system resets the threads but not the queues.
CommitPseudoKeepsQueues(c) ==
  /\ Retires(c, "pseudo")
  /\ mode[c] = "user" /\ running[c] \in Pcb
  /\ \/ \E id \in ThreadId, a \in Addr : Elsewhere(fi_activate_inst(running[c], id, a))
     \/ Elsewhere(init_fi_system)
  /\ UNCHANGED <<mode, running>>

CommitPseudo(c) ==
  /\ Retires(c, "pseudo")
  /\ mode[c] = "user" /\ running[c] \in Pcb
  /\ \/ \E id \in ThreadId, a \in Addr : Elsewhere(fi_activate_inst(running[c], id, a))
     \/ \E a \in Addr : Elsewhere(get_Pc_address(running[c], a))
     \/ Reset
  /\ UNCHANGED <<mode, running>>

-----------------------------------------------------------------------------

Inside == (getFromFile \/ HookStep) /\ UNCHANGED pvars

CycleStep == NextInst \/ Break \/ Fetch \/ Decode \/ \E x \in {"op", "pseudo"} : BuildInst(x)

O3Next ==
  \/ \E c \in Core : BeginFetch(c) \/ finishTranslation(c)
  \/ CycleStep
  \/ Inside
  \/ \E c \in Core, i \in 1 .. Window : Execute(c, i) \/ Reschedule(c, i)
  \/ \E c \in Core, i \in 0 .. Window : Squash(c, i)
  \/ \E c \in Core : Commit(c) \/ CommitMode(c) \/ CommitPseudo(c)
  \/ \E c \in Core, p \in Pcb \cup {NoPcb} : CommitContext(c, p)

\* A fetch cycle is one call of fetch(), which runs without interruption.
O3Spec == O3Init /\ [][O3Next]_ovars /\ WF_ovars(CycleStep) /\ WF_ovars(Inside)

-----------------------------------------------------------------------------
(* Properties.                                                             *)

\* All four queues: whatever is fetched on wrong paths, squashed and executed again,
\* a queued fault timed by instructions is never overtaken by its counter.
O3NotOvertaken ==
  \A f \in Fault :
    Queued(f) /\ Desc[f].kind = "Inst" /\ Desc[f].timing > 0 => ~Overtaken(f)

\* fetch() charges the ticks and then calls main_fault with the same mode and PCB: a
\* fault of the main queue timed by ticks at a multiple of a cycle is not overtaken.
\* (The atomic CPU charges after the instruction, when the mode may have changed.)
MainTickNotOvertaken ==
  \A f \in Fault :
    /\ cycle = NoCycle \/ cycle.stage # "loop"
    /\ hook = NoHook
    /\ Queued(f) /\ QueueOf(f) = "main" /\ Desc[f].kind = "Tick" /\ Desc[f].timing > 0
    => \A p \in Pcb, c \in Core :
         Active(p) => Counters(f, [core |-> c, pcb |-> p]).time < timing[f]

\* The event that a core loses when it first sees a thread is never a fetched or a
\* decoded instruction: these counters are exact.  (An instruction that was in flight
\* when the thread was activated may execute before the next cycle, and is lost.)
FetchCountsExact ==
  \A p \in Pcb : Active(p) =>
    \A c \in Core, k \in {Fetched, Decoded} : ThreadOf(p).cnt[c][k] = ran[p][c][k]

\* Between cycles an active thread has decoded what it has fetched: the same thread is
\* charged by both hooks, though the instruction may be of another one.
FetchInStep ==
  cycle = NoCycle =>
    \A p \in Pcb : Active(p) => \A c \in Core :
      ThreadOf(p).cnt[c][Decoded] = ThreadOf(p).cnt[c][Fetched]

\* A fetch cycle, with the loops of its hooks, ends.
FetchEnds == cycle # NoCycle ~> (cycle = NoCycle \/ ~alive)

\* The CPU uses the fault injector as FaultInjector allows.
O3ImplementsInjector == InjSpec
=============================================================================
