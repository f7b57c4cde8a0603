------------------------------ MODULE AtomicCPU ------------------------------
(***************************************************************************)
(* The atomic CPU model with fault injection (AtomicSimpleCPU::tick of     *)
(* src/cpu/simple/atomic.cc), on several cores.  A tick fetches, decodes   *)
(* and executes one instruction and calls the four hooks on the way.  The  *)
(* event queue runs one tick at a time.                                    *)
(*                                                                         *)
(* What the guest executes is not up to this code.  An instruction may be  *)
(* an ordinary one, a store conditional, one of the three pseudo           *)
(* instructions, or a hw_mtpr by which the PAL code changes the mode of    *)
(* the core (IPR_DTB_CM) or, in kernel mode, the process control block it  *)
(* runs (IPR_PALtemp23).                                                   *)
(***************************************************************************)
EXTENDS FaultInjector

VARIABLES
  mode,     \* core -> "user" or "kernel", what inUserMode reads
  running,  \* core -> the PCB in its IPR_PALtemp23, or NoPcb
  tick      \* the tick under way: its core and how far it is; or NoTick

cvars == <<mode, running, tick>>
avars == <<ivars, cvars>>

CONSTANTS
  NoPcb,      \* no PCB of interest
  MaxLatency  \* the largest latency

ASSUME NoPcbAssumption == NoPcb \notin Pcb
ASSUME MaxLatencyAssumption == MaxLatency \in Nat /\ \A n \in Latency : n <= MaxLatency

NoTick == [stage |-> "none"]
TickStage == {"main", "fetch", "decode", "execute", "postacc", "end"}

CpuTypeOK ==
  /\ InjTypeOK
  /\ mode \in [Core -> {"user", "kernel"}]
  /\ running \in [Core -> Pcb \cup {NoPcb}]
  /\ tick \in [stage : TickStage, core : Core] \cup {NoTick}

CpuInit ==
  /\ InjInit
  /\ mode = [c \in Core |-> "kernel"]
  /\ running = [c \in Core |-> NoPcb]
  /\ tick = NoTick

-----------------------------------------------------------------------------

\* FullSystem, user mode, and the PCB is in the map and not stopped.
Injecting(c) == mode[c] = "user" /\ running[c] \in Pcb /\ Active(running[c])

CallHook(s, c) ==
  IF Injecting(c)
    THEN \E pc \in Addr : BeginHook(s, c, running[c], pc)
    ELSE Elsewhere(UNCHANGED tvars)

\* The tick is at stage s and the hook called there has returned.
At(s) == tick # NoTick /\ tick.stage = s /\ hook = NoHook /\ file = <<>>

Go(s) == tick' = [tick EXCEPT !.stage = s]

\* Whoever runs has room for one more tick under the bound MaxEvents.
Room == \A p \in Pcb : EventsOf(p) + 4 + MaxLatency <= MaxEvents

\* Mutant: main_fault is not called.
StartTickNoHook(c) ==
  /\ tick = NoTick /\ Room /\ Ready
  /\ tick' = [stage |-> "main", core |-> c]
  /\ UNCHANGED <<ivars, mode, running>>

StartTick(c) ==
  /\ tick = NoTick /\ Room
  /\ tick' = [stage |-> "main", core |-> c]
  /\ CallHook("main", c)
  /\ UNCHANGED <<mode, running>>

\* The instruction TLB has no translation: no fetch, the fault is invoked.
FetchFault ==
  /\ At("main")
  /\ Go("end")
  /\ UNCHANGED <<ivars, mode, running>>

Fetch ==
  /\ At("main")
  /\ Go("fetch")
  /\ CallHook("fetch", tick.core)
  /\ UNCHANGED <<mode, running>>

\* Mutant: decode_fault is not called.
DecodeNoHook ==
  /\ At("fetch")
  /\ Go("decode")
  /\ UNCHANGED <<ivars, mode, running>>

Decode ==
  /\ At("fetch")
  /\ Go("decode")
  /\ CallHook("decode", tick.core)
  /\ UNCHANGED <<mode, running>>

-----------------------------------------------------------------------------
(* execute: one of the following.                                          *)

\* Branches, loads and stores, the operate formats and hw_mtpr call iew_fault.
ExecuteWithHook ==
  /\ At("decode")
  /\ Go("execute")
  /\ CallHook("iew", tick.core)
  /\ UNCHANGED <<mode, running>>

ExecutePlain ==
  /\ At("decode")
  /\ Go("end")
  /\ UNCHANGED <<ivars, mode, running>>

\* Mutant: init_fi_system resets the threads but not the queues.
ExecutePseudoKeepsQueues ==
  /\ At("decode")
  /\ mode[tick.core] = "user" /\ running[tick.core] \in Pcb
  /\ Go("end")
  /\ LET p == running[tick.core] IN
       \/ \E id \in ThreadId, a \in Addr : Elsewhere(fi_activate_inst(p, id, a))
       \/ Elsewhere(init_fi_system)
  /\ UNCHANGED <<mode, running>>

ExecutePseudo ==
  /\ At("decode")
  /\ mode[tick.core] = "user" /\ running[tick.core] \in Pcb
  /\ Go("end")
  /\ LET p == running[tick.core] IN
       \/ \E id \in ThreadId, a \in Addr : Elsewhere(fi_activate_inst(p, id, a))
       \/ \E a \in Addr : Elsewhere(get_Pc_address(p, a))
       \/ Reset
  /\ UNCHANGED <<mode, running>>

\* hw_mtpr of the mode bits: iew_fault has returned the value it writes.
SetMode(m) ==
  /\ At("execute")
  /\ mode[tick.core] # m
  /\ Go("end")
  /\ mode' = [mode EXCEPT ![tick.core] = m]
  /\ UNCHANGED <<ivars, running>>

\* hw_mtpr of the PCB (swpctx), likewise; a process runs on one core at a time.
SwitchContext(p) ==
  /\ At("execute")
  /\ mode[tick.core] = "kernel"
  /\ p \in Pcb => \A c \in Core : running[c] # p
  /\ Go("end")
  /\ running' = [running EXCEPT ![tick.core] = p]
  /\ UNCHANGED <<ivars, mode>>

\* stl_c and stq_c, which have called iew_fault for the address, call it once more
\* for the result of the write.
StoreConditional ==
  /\ At("execute")
  /\ Go("postacc")
  /\ CallHook("iew", tick.core)
  /\ UNCHANGED <<mode, running>>

-----------------------------------------------------------------------------

\* Mutants: the ticks of the instruction are not charged; the loop over the width
\* of the CPU does not end.
EndTickNoCharge ==
  /\ At("end") \/ At("execute") \/ At("postacc")
  /\ tick' = NoTick
  /\ UNCHANGED <<ivars, mode, running>>
EndTickAgain ==
  /\ At("end") \/ At("execute") \/ At("postacc")
  /\ Go("main")
  /\ UNCHANGED <<ivars, mode, running>>

\* The latency of the instruction is charged to whoever runs in user mode now.
EndTick ==
  /\ At("end") \/ At("execute") \/ At("postacc")
  /\ tick' = NoTick
  /\ LET c == tick.core IN
       IF Injecting(c)
         THEN \E n \in Latency : Elsewhere(increase_ticks(running[c], c, n))
         ELSE UNCHANGED ivars
  /\ UNCHANGED <<mode, running>>

\* The simulator itself: the hook's loop and the constructors of the faults.
Inside == (getFromFile \/ HookStep) /\ UNCHANGED cvars

TickStep ==
  \/ FetchFault \/ Fetch \/ Decode
  \/ ExecuteWithHook \/ StoreConditional \/ ExecutePlain \/ ExecutePseudo
  \/ \E m \in {"user", "kernel"} : SetMode(m)
  \/ \E p \in Pcb \cup {NoPcb} : SwitchContext(p)
  \/ EndTick

CpuNext ==
  \/ \E c \in Core : StartTick(c)
  \/ TickStep
  \/ Inside

CpuSpec == CpuInit /\ [][CpuNext]_avars
CpuFairSpec == CpuSpec /\ WF_avars(TickStep) /\ WF_avars(Inside)

-----------------------------------------------------------------------------
(* Properties.                                                             *)

\* All four queues: a queued fault timed by instructions, the first or later,
\* is never overtaken by the counter it is compared with.  main_fault and
\* decode_fault compare a counter that another hook of the tick increases.
NotOvertaken ==
  \A f \in Fault :
    Queued(f) /\ Desc[f].kind = "Inst" /\ Desc[f].timing > 0 => ~Overtaken(f)

\* The event a core loses when a thread is first seen on it is always the ticks
\* of the instruction that activated or resumed the thread: the counters of
\* fetched, decoded and executed instructions are exact.
StageCountsExact ==
  \A p \in Pcb : Active(p) =>
    \A c \in Core, k \in {Fetched, Decoded, Executed} :
      ThreadOf(p).cnt[c][k] = ran[p][c][k]

\* Between ticks an active thread has decoded what it has fetched, on each core, and
\* the executed instructions are at most twice as many: no instruction is counted by
\* the fetch or the decode hook only, and by iew_fault at most twice, as the store
\* conditionals are, for the address and for the result (decoder.isa:77, 93).
StagesInStep ==
  tick = NoTick =>
    \A p \in Pcb : Active(p) => \A c \in Core :
      LET n == ThreadOf(p).cnt[c] IN n[Decoded] = n[Fetched] /\ n[Executed] <= 2 * n[Decoded]

\* A tick, with the loops of its hooks, ends.
TickEnds == tick # NoTick ~> (tick = NoTick \/ ~alive)

\* The CPU uses the fault injector as FaultInjector allows.
ImplementsInjector == InjSpec

\* "when the fault should manifest" (faultq.hh:96): neither is a fault timed by
\* ticks overtaken by the ticks it waits for.
TickNotOvertaken ==
  \A f \in Fault : Queued(f) /\ Desc[f].kind = "Tick" =>
    \A p \in Pcb, c \in Core :
      Active(p) => Counters(f, [core |-> c, pcb |-> p]).time <= timing[f]
=============================================================================
