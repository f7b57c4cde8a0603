---------------------------- MODULE FaultInjector ----------------------------
(***************************************************************************)
(* Fi_System as the CPU models see it: four queues of faults and one hook  *)
(* per pipeline stage (main_fault, fetch_fault, decode_fault, iew_fault of *)
(* src/fi/fi_system.hh).  A hook called for a PCB with fault injection     *)
(* active scans the queue of its stage and lets every fault that is due    *)
(* manifest, one per scan, until none is due; then it counts the           *)
(* instruction for the thread.                                             *)
(*                                                                         *)
(* The module composes the thread table (FiSystem) with the queues (lists  *)
(* of faults, see FaultList).  Nothing is assumed about the order in which *)
(* a CPU model calls the hooks of the cores and PCBs, except that the      *)
(* simulator runs in one thread: a hook ends before anything else happens. *)
(***************************************************************************)
EXTENDS FiSystem, Lists

CONSTANTS
  Fault,    \* the faults of the fault files
  Desc,     \* fault -> its description in the file
  Files,    \* fault files: sequences of faults
  CpuTicks, \* ticks(1) of a CPU: the ticks of one cycle
  IntMod,   \* 2^32: the number of values of an int
  WordMod   \* 2^64: the number of values of a uint64_t

Stage == {"main", "fetch", "decode", "iew"}
FaultType == {"Register", "Memory", "PC", "GeneralFetch", "OpCode", "RegisterDecoding",
              "Execution"}
TimingType == {"Tick", "Inst", "Addr"}
ValueType == {"Immd", "Mask", "Flip", "All"}
IntMax == IntMod \div 2 - 1
IntMin == -(IntMod \div 2)

Description ==
  [type : FaultType, what : ValueType, thread : ThreadId \cup {All}, where : Core \cup {All},
   kind : TimingType, timing : 0 .. WordMod - 1, occ : IntMin .. IntMax]

ASSUME WidthAssumption ==
  /\ IntMod \in Nat /\ IntMod % 2 = 0 /\ IntMod >= 4
  /\ WordMod \in Nat /\ WordMod % IntMod = 0 /\ WordMod > IntMod
ASSUME DescAssumption == Desc \in [Fault -> Description]
ASSUME FilesAssumption ==
  /\ Files # {} /\ Files \subseteq Seq(Fault)
  /\ \A s \in Files : IsInjective(s)
ASSUME CpuTicksAssumption == CpuTicks \in 1 .. WordMod - 1
ASSUME AddrIsWord == Addr \subseteq 0 .. WordMod - 1
ASSUME IdAssumption == All \notin ThreadId

VARIABLES
  alive,   \* FALSE once an assert(0) has ended the simulator
  file,    \* the part of the fault file still to be read
  queue,   \* stage -> the list of its fault queue
  timing,  \* fault -> _timing
  occ,     \* fault -> _occurrence
  hook,    \* the hook being executed: stage, core, PCB and PC; or NoHook
  hits,    \* history: how often a fault has manifested since it was read
  here     \* history: the same within the current hook

fvars == <<alive, file, queue, timing, occ, hook, hits, here>>
ivars == <<tvars, fvars>>

NoHook == [stage |-> "none"]
Hook == [stage : Stage, core : Core, pcb : Pcb, pc : Addr]

\* The constructor of each class inserts the fault into one queue.
QueueOf(f) ==
  CASE Desc[f].type \in {"Register", "Memory", "PC"} -> "main"
    [] Desc[f].type \in {"GeneralFetch", "OpCode"} -> "fetch"
    [] Desc[f].type = "RegisterDecoding" -> "decode"
    [] Desc[f].type = "Execution" -> "iew"

Queued(f) == f \in Range(queue[QueueOf(f)])

InjTypeOK ==
  /\ TypeOK
  /\ alive \in BOOLEAN
  /\ file \in Seq(Fault)
  /\ queue \in [Stage -> Seq(Fault)]
  /\ timing \in [Fault -> 0 .. WordMod - 1]
  /\ occ \in [Fault -> IntMin .. IntMax]
  /\ hook \in Hook \cup {NoHook}
  /\ hits \in [Fault -> Nat] /\ here \in [Fault -> Nat]

InjInit ==
  /\ Init
  /\ alive = TRUE
  /\ file \in Files
  /\ queue = [s \in Stage |-> <<>>]
  /\ timing = [f \in Fault |-> Desc[f].timing]
  /\ occ = [f \in Fault |-> Desc[f].occ]
  /\ hook = NoHook
  /\ hits = [f \in Fault |-> 0] /\ here = [f \in Fault |-> 0]

Ready == alive /\ file = <<>> /\ hook = NoHook

-----------------------------------------------------------------------------
(* getFromFile: one object of the file is constructed and queued before    *)
(* the first fault of its queue that is not earlier.                       *)

getFromFile ==
  /\ alive /\ file # <<>>
  /\ LET f == Head(file)
         s == queue[QueueOf(f)]
     IN \E i \in 1 .. Len(s) + 1 :
          /\ \A j \in 1 .. i - 1 : timing[s[j]] < Desc[f].timing
          /\ i <= Len(s) => timing[s[i]] >= Desc[f].timing
          /\ queue' = [queue EXCEPT ![QueueOf(f)] = InsertedAt(s, i, f)]
          /\ timing' = [timing EXCEPT ![f] = Desc[f].timing]
          /\ occ' = [occ EXCEPT ![f] = Desc[f].occ]
  /\ file' = Tail(file)
  /\ UNCHANGED <<tvars, alive, hook, hits, here>>

-----------------------------------------------------------------------------
(* scan.  The counters a fault is compared with are those of the thread    *)
(* and the core it names, or totals; a fault for another thread or core    *)
(* gets zeros.                                                             *)

Concerns(f, h) ==
  /\ Desc[f].where \in {h.core, All}
  /\ Desc[f].thread \in {ThreadOf(h.pcb).threadId, All}

Zeros == [instr |-> 0, time |-> 0]

get_fi_fetch_counters(f, h) ==
  IF ~Concerns(f, h) THEN Zeros
  ELSE IF Desc[f].thread = All THEN get_core_fetched_time(Desc[f].where)
  ELSE CalculateFetchedTime(ThreadOf(h.pcb), Desc[f].where)

\* For a named thread these are the counters of fetched instructions.
get_fi_decode_counters(f, h) ==
  IF ~Concerns(f, h) THEN Zeros
  ELSE IF Desc[f].thread = All THEN get_core_decoded_time(Desc[f].where)
  ELSE CalculateFetchedTime(ThreadOf(h.pcb), Desc[f].where)

get_fi_exec_counters(f, h) ==
  IF ~Concerns(f, h) THEN Zeros
  ELSE IF Desc[f].thread = All THEN get_core_executed_time(Desc[f].where)
  ELSE CalculateExecutedTime(ThreadOf(h.pcb), Desc[f].where)

Counters(f, h) ==
  CASE QueueOf(f) = "iew" -> get_fi_exec_counters(f, h)
    [] QueueOf(f) = "decode" -> get_fi_decode_counters(f, h)
    [] OTHER -> get_fi_fetch_counters(f, h)

\* A fault is considered only when one of its counters is not zero.
Due(f, h) ==
  LET n == Counters(f, h) IN
  /\ n.instr # 0 \/ n.time # 0
  /\ CASE Desc[f].kind = "Tick" -> n.time = timing[f]
       [] Desc[f].kind = "Inst" -> n.instr = timing[f]
       [] Desc[f].kind = "Addr" -> h.pc = (timing[f] + ThreadOf(h.pcb).magic) % WordMod

\* f is what a scan of the hook's queue returns: the first fault that is due.
Scan(f) ==
  \E i \in 1 .. Len(queue[hook.stage]) :
    /\ f = queue[hook.stage][i]
    /\ Due(f, hook)
    /\ \A j \in 1 .. i - 1 : ~Due(queue[hook.stage][j], hook)

\* Mutant: only the fault at the head of the queue is looked at.
HeadNotDue == queue[hook.stage] # <<>> => ~Due(Head(queue[hook.stage]), hook)

NothingDue == \A f \in Range(queue[hook.stage]) : ~Due(f, hook)

-----------------------------------------------------------------------------
(* The hooks.                                                              *)

BeginHook(s, c, p, pc) ==
  /\ Ready
  /\ ReadThread(p)
  /\ EventsOf(p) < MaxEvents  \* room for the event that ends the hook
  /\ hook' = IF InRange(fi_activation[p])
               THEN [stage |-> s, core |-> c, pcb |-> p, pc |-> pc] ELSE NoHook
  /\ UNCHANGED <<alive, file, queue, timing, occ, hits, here>>

\* An int holds n modulo 2^32; converted to uint64_t its sign is extended.
Narrow(n) ==
  LET r == n % IntMod IN IF r > IntMax THEN WordMod - IntMod + r ELSE r

\* Mutant: a fault timed by instructions is not retimed.
LaterKeepsInst(f) ==
  IF Desc[f].kind = "Tick" THEN (timing[f] + CpuTicks) % WordMod ELSE timing[f]

\* increaseTiming with the arguments of check4reschedule.
Later(f) ==
  CASE Desc[f].kind = "Tick" -> (timing[f] + CpuTicks) % WordMod
    [] Desc[f].kind = "Inst" -> Narrow(timing[f] + 1)
    [] Desc[f].kind = "Addr" -> timing[f]

\* _occurrence--, wrapping around as the compiled code does.
OneLess(n) == IF n = IntMin THEN IntMax ELSE n - 1

\* Mutant: the last manifestation is expected at 0.
LastAtZero(f) ==
  IF occ[f] = 0
    THEN /\ \E i \in 1 .. Len(queue[QueueOf(f)]) :
              /\ queue[QueueOf(f)][i] = f
              /\ queue' = [queue EXCEPT ![QueueOf(f)] = RemovedAt(@, i)]
         /\ UNCHANGED <<timing, occ>>
    ELSE /\ timing' = [timing EXCEPT ![f] = Later(f)]
         /\ occ' = [occ EXCEPT ![f] = OneLess(occ[f])]
         /\ UNCHANGED queue

\* The last manifestation takes the fault out of its queue, any other one
\* retimes it where it is.
check4reschedule(f) ==
  IF occ[f] = 1
    THEN /\ \E i \in 1 .. Len(queue[QueueOf(f)]) :
              /\ queue[QueueOf(f)][i] = f
              /\ queue' = [queue EXCEPT ![QueueOf(f)] = RemovedAt(@, i)]
         /\ UNCHANGED <<timing, occ>>
    ELSE /\ timing' = [timing EXCEPT ![f] = Later(f)]
         /\ occ' = [occ EXCEPT ![f] = OneLess(occ[f])]
         /\ UNCHANGED queue

\* OpCodeInjectedFault::process knows two ways to change an opcode only.
Unsupported(f) == Desc[f].type = "OpCode" /\ Desc[f].what \notin {"Immd", "Mask"}

\* One iteration of the loop of a hook: the fault changes a value, then is
\* rescheduled.
Manifest(f) ==
  /\ alive /\ hook # NoHook
  /\ Scan(f)
  /\ IF Unsupported(f)
       THEN alive' = FALSE /\ UNCHANGED <<queue, timing, occ, hits, here>>
       ELSE /\ check4reschedule(f)
            /\ hits' = [hits EXCEPT ![f] = @ + 1]
            /\ here' = [here EXCEPT ![f] = @ + 1]
            /\ UNCHANGED alive
  /\ UNCHANGED <<tvars, file, hook>>

\* No fault is due: the stage hooks count the instruction, main_fault does not.
EndHook ==
  /\ alive /\ hook # NoHook
  /\ NothingDue
  /\ CASE hook.stage = "main" -> UNCHANGED tvars
       [] hook.stage = "fetch" -> increase_instr_fetched(hook.pcb, hook.core)
       [] hook.stage = "decode" -> increase_instr_decoded(hook.pcb, hook.core)
       [] hook.stage = "iew" -> increase_instr_executed(hook.pcb, hook.core)
  /\ hook' = NoHook
  /\ here' = [f \in Fault |-> 0]
  /\ UNCHANGED <<alive, file, queue, timing, occ, hits>>

-----------------------------------------------------------------------------
(* Everything else happens between hooks.                                  *)

Elsewhere(A) == Ready /\ A /\ UNCHANGED fvars

\* Mutant: vectorpos keeps its value.
ResetKeepsPos ==
  /\ Ready
  /\ \A p \in Pcb : ~Active(p)
  /\ threadList' = <<>>
  /\ queue' = [s \in Stage |-> <<>>]
  /\ file' \in Files
  /\ hits' = [f \in Fault |-> 0]
  /\ UNCHANGED <<fi_activation, vectorpos, wild, ran, alive, timing, occ, hook, here>>

\* Fi_System::reset: the queues are drained and the fault file, which may have
\* changed, is read again.
Reset ==
  /\ Ready
  /\ init_fi_system
  /\ queue' = [s \in Stage |-> <<>>]
  /\ file' \in Files
  /\ hits' = [f \in Fault |-> 0]
  /\ UNCHANGED <<alive, timing, occ, hook, here>>

\* assert(0) ended the simulator.
Aborted == ~alive /\ UNCHANGED ivars

HookStep == EndHook \/ \E f \in Fault : Manifest(f)

InjNext ==
  \/ getFromFile
  \/ \E s \in Stage, c \in Core, p \in Pcb, pc \in Addr : BeginHook(s, c, p, pc)
  \/ HookStep
  \/ \E p \in Pcb, id \in ThreadId, a \in Addr : Elsewhere(fi_activate_inst(p, id, a))
  \/ \E p \in Pcb, a \in Addr : Elsewhere(get_Pc_address(p, a))
  \/ \E p \in Pcb, c \in Core, n \in Latency : Elsewhere(increase_ticks(p, c, n))
  \/ Reset
  \/ Aborted

InjSpec == InjInit /\ [][InjNext]_ivars

-----------------------------------------------------------------------------
(* Properties.                                                             *)

\* Every queued fault is in the queue of its stage, once.
QueuesSound ==
  \A s \in Stage :
    /\ IsInjective(queue[s])
    /\ \A i \in 1 .. Len(queue[s]) : QueueOf(queue[s][i]) = s

\* A hook calls scan again after every fault it lets manifest.  Rescheduling
\* "for the next cycle/isntruction" (cpu_injfault.cc:47) takes a fault that is
\* timed by ticks or instructions out of reach of the scans that follow: it
\* manifests at most once per hook, even when it is permanent.
OncePerHook == \A f \in Fault : Desc[f].kind # "Addr" => here[f] <= 1

\* "how many times the fault should manifest" (faultq.hh:100): a transient or
\* intermittent fault manifests exactly as often as its description says before
\* it leaves its queue, whatever threads, cores and hooks it manifests in.
OccurrenceBudget ==
  \A f \in Fault : Desc[f].occ >= 1 =>
    /\ Queued(f) => occ[f] >= 1 /\ hits[f] + occ[f] = Desc[f].occ
    /\ ~Queued(f) /\ hits[f] > 0 => hits[f] = Desc[f].occ

\* A fault timed by instructions waits for the counter to reach its time by
\* equality (faultq.cc:317), so the counter must not pass it.
Overtaken(f) ==
  \E p \in Pcb, c \in Core :
    /\ Active(p)
    /\ Counters(f, [core |-> c, pcb |-> p]).instr > timing[f]

\* The hooks of the fetch and the execute stage compare and count the same
\* counter: no interleaving of threads and cores lets it pass a queued fault.
OwnStageNotOvertaken ==
  \A f \in Fault :
    Queued(f) /\ QueueOf(f) \in {"fetch", "iew"} /\ Desc[f].kind = "Inst" /\ Desc[f].timing > 0
      => ~Overtaken(f)

\* "0: permanent fault" (faultq.hh:100): a permanent fault stays queued however
\* its negative _occurrence runs down, until the int has come all the way round.
PermanentStays ==
  \A f \in Fault : Desc[f].occ = 0 /\ hits[f] \in 1 .. IntMod - 1 => Queued(f)

\* The hooks use the thread table as FiSystem says.
ImplementsThreadTable == Spec

\* "reschedult the instruction for the next cycle/isntruction"
\* (cpu_injfault.cc:47): a fault timed by an address manifests once per
\* instruction, too.
OncePerInstruction == \A f \in Fault : here[f] <= 1
=============================================================================
