# Verification of the fault injection of GemFI

GemFI adds fault injection to the gem5 simulator. A file describes faults; the CPU models let each
of them manifest when a thread of the simulated program has run a given number of instructions or
ticks, or reaches a given address. This project models the code under `src/src/fi`, the places in
gem5 that call it and the event loop all of it runs in, checks the models with TLC on small
instances, and proves the central properties with TLAPS for every size.

## The system

The simulator runs in one operating-system thread. What interleaves is the simulated machine:
processes, identified by the address of their process control block (PCB), that move between cores,
and the stages of the instructions each core executes. Around it, Python calls `simulate()`, events
schedule other events, and signals arrive at any time. A campaign runs many simulator processes.

| part | source | what it does |
| --- | --- | --- |
| thread records | `fi/cpu_threadInfo.*` | per thread and core: counts of fetched, decoded and executed instructions and of ticks |
| thread table | `fi/fi_system.*`, `sim/pseudo_inst.cc` | map `fi_activation` from PCB to a position of the vector `threadList`; the pseudo instructions `fi_activate_inst`, `get_Pc_address`, `init_fi_system` change it |
| fault queues | `fi/faultq.*` | four doubly linked lists (main, fetch, decode, iew) with `insert`, `remove`, `scan` |
| hooks | `fi/fi_system.hh`, `fi/cpu_injfault.cc` | `main_fault`, `fetch_fault`, `decode_fault`, `iew_fault`: scan, let the fault manifest, reschedule, until nothing is due; then count the instruction |
| fault file | `fi/fi_system.cc` `getFromFile`, constructors, `parseWhen`, `parseWhat` | words of the file become objects, which queue themselves |
| fault classes, value corruption | `fi/*_injfault.*`, `fi/faultq.hh` | what is changed: register, memory, PC, instruction, opcode, decoded registers, result; immediate value, mask, bit flip, all bits |
| atomic CPU | `cpu/simple/atomic.cc`, `arch/alpha/isa` | one tick: fetch, decode, execute one instruction, calling the hooks |
| O3 CPU | `cpu/o3/` | a fetch cycle calls three hooks per instruction, wrong paths included; execution calls the fourth, out of order |
| decode cache | `arch/generic/decode_cache.cc` | keeps the decoded instruction a decode fault changes |
| campaign | `sim/pseudo_inst.cc` | DMTCP checkpoint inside `init_fi_system`, restored with another fault file |
| event queue | `sim/eventq.*` | a list of bins of events, ordered by tick and priority |
| simulation loop | `sim/simulate.cc`, `sim/sim_events.cc`, `sim/init.cc`, `sim/async.hh` | serves events until an exit event; looks at the flags signal handlers set |

`PROJECT.json` lists these parts with their status and, line by line, the hazards of the code.

## Modules

| module | models | state | actions |
| --- | --- | --- | --- |
| `ThreadEnabledFault` | thread record | (operators) | `CountOn` and the four increase functions, the three `Calculate...Time` |
| `FiSystem` | thread table | `fi_activation`, `threadList`, `vectorpos` as in the code; `wild` records an index outside the vector; `ran` is a history of the events that really happened | the three pseudo instructions, the four counting functions, `ReadThread` |
| `FaultList` | what a queue promises | a sequence | `insert`, `remove`, `increaseTiming` |
| `InjectedFaultQueue` | the queue, pointer by pointer | `head`, `tail`, `nxt`, `prv`; `op` is the walk in progress | the walks of `insert` and `remove` node by node, the unlinking, the drain loop of `reset` |
| `FaultInjector` | hooks, scheduling, reset | `FiSystem` plus four lists, `_timing`, `_occurrence`, the hook under way; histories `hits`, `here` | `getFromFile`, `BeginHook`, `Manifest`, `EndHook`, `Reset`, and everything of `FiSystem` between hooks |
| `AtomicCPU` | `AtomicSimpleCPU::tick` on several cores | `FaultInjector` plus mode and PCB of each core, and the tick under way | start, fetch (or fetch fault), decode, execute with or without a hook, the second hook of a store conditional, `hw_mtpr` (which calls the hook and then changes mode or PCB), the pseudo instructions, end |
| `O3CPU` | `DefaultFetch::fetch`, execution and commit of the out-of-order CPU | `FaultInjector` plus mode, PCB and instructions in flight of each core, and the fetch cycle under way | the fetch cycle hook by hook; `Execute`, `Reschedule`, `Squash`, the kinds of commit |
| `Corruption` | `manifest` and its callers | (operators on sets of bits) | `XOR`, `IMMD`, `FLIP`, `ALL`, the memory byte, the opcode |
| `FaultFile` | the stream and the constructors | (operators on a stream record) | `ReadWord`, `Construct` |
| `Experiment` | campaign, reading, the faults' effects, decode cache | the process (queued faults, decode cache, the instruction under way), the checkpoint, the stream | `Boot`, `ReadObject`, `init_fi_system`, `Restore`, `Stop`, the stages of an instruction, one `Process...` per fault class |
| `EventOrder` | what the event queue promises | the sequence of waiting events, their ticks and flags | `schedule`, `reschedule`, `deschedule`, `squash`, `serviceOne`, `dispose` |
| `Simulate` | the loop, exit events, signal handlers | `EventOrder` plus where the program is and the `async_` flags; histories of what signals asked for | the statements of the loop, calls of the objects, an event that schedules itself again (`Recur`), the handlers, `simulate` |
| `EventQueue` | the two-level list link by link | `Simulate` plus `head`, `nextBin`, `nextInBin` | the same steps, each with `insert`, `remove` or the pop of `serviceOne` on the links |
| `Lists` | inserting into and removing from a list | | |
| `SequenceLemmas`, `FiSystemProofs`, `FaultInjectorProofs`, `AtomicCPUProofs`, `O3CPUProofs`, `InjectedFaultQueueProofs`, `SimulateProofs`, `ExperimentProofs` | proofs | | |

The modules form three towers. `InjectedFaultQueue` implements `FaultList`, which justifies that
`FaultInjector` uses sequences; `FaultInjector` implements `FiSystem` (with its own variables
hidden); `AtomicCPU` and `O3CPU` both implement `FaultInjector`. `EventQueue` implements
`EventOrder` with the list read off the links as the queue, while `Simulate` runs on top of it.
`Experiment` extends `FaultFile` and `Corruption`; it leaves open when a fault is due, which is the
subject of `FaultInjector`, and so covers more schedules than the code has. An `MC...` module gives
the constants of each for TLC. Operators marked "Mutant" are variants of the definition that follows
them, with a plausible slip of the code; they are part of no specification.

Conventions:

- Position `i` of the vector is `threadList[i + 1]`; `Absent` (-2) is a PCB that is not a key of the
  map and `Stopped` (-1) is the value the code stores on deactivation.
- A hook is one uninterrupted loop of the code. The model splits it into one `BeginHook`, one
  `Manifest` per fault and one `EndHook`; no other action is enabled in between.
- `_occurrence` is an `int` that wraps (`OneLess`), the next instruction count of `increaseTiming`
  passes through an `int` and is sign-extended (`Narrow`), times are `uint64_t`. `IntMod` and
  `WordMod` are the numbers of values of both; the proofs hold for all even `IntMod` of at least 4
  and multiples `WordMod` of it, so for 2^32 and 2^64.
- `FreshLinks` are the values `nxt` and `prv` of a new fault may hold. The constructor does not set
  them, so in general they are arbitrary. In the same way a field of a fault that the stream failed
  to deliver is `Garbage`, which may be any value.
- `Liberty` names what the guest program may do beyond the intended use of the pseudo instructions
  (`init_fi_system` while nothing is active, `get_Pc_address` while active, one activation and one
  deactivation per PCB). The empty set is the intended use.
- A value of `w` bits is the set of its bits that are 1. A fault file is a sequence of words with or
  without white space at its end; words are grouped by what the parsers tell apart.
- Events that are made with `new` come from a finite set and are `live` from `new` to `delete`. A
  step of `Simulate` reads or writes the flags of the handlers at most once, so that a handler can
  run between any two accesses.

## Runs

Passing runs (their properties are also in `PROJECT.json`; the type invariants are left out here):

- `thread_table`: two PCBs on two cores activate, stop, store their PC, run and are reset in every
  order of the intended use, with tracing on. Neither a pseudo instruction nor a hook of a CPU
  indexes the vector outside its bounds (`NoWildAccess`; the `dump()` in `reset`, which runs with
  tracing only, does so for a PCB of before the reset, and `wild` records who indexed), the
  map and the vector agree and no two threads share a record (`SlotsDistinct`), and a record holds
  its own thread's events but the first on each core (`CountsOwnEvents`).
- `fault_queue`: four faults are inserted, retimed, removed and drained in every order. The links
  spell the list `FaultList` specifies (`ListOK`, `ImplementsList`), `remove` finds its fault
  (`NoAbort`), a list just read is ascending (`LoadedAscending`), every walk and every drain ends
  (`OperationsEnd`, `DrainEnds`).
- `injector`: two threads, all hooks in any order, three fault files. A fault timed by ticks or
  instructions manifests at most once per hook (`OncePerHook`), as often as described
  (`OccurrenceBudget`), and in the fetch and iew queues its counter never passes
  it (`OwnStageNotOvertaken`). It implements the thread table (`ImplementsThreadTable`).
- `atomic_cpu`: two cores, two processes, context switches, mode changes, fetch faults and pseudo
  instructions. In all four queues a fault timed by instructions is never passed by its counter
  (`NotOvertaken`); the counts of the stages are exact (`StageCountsExact`); between ticks as many
  instructions are decoded as fetched and at most twice as many executed, a store conditional being
  counted for its address and for its result (`StagesInStep`; the run reaches the factor 2). Every
  tick, with the loops of its hooks, ends, or the simulator has ended with an `assert(0)`
  (`TickEnds`). The CPU uses the hooks as `FaultInjector` allows (`ImplementsInjector`).
- `o3_cpu`: one core fetches up to two instructions per cycle for two processes, with squashes,
  re-executed loads and pseudo instructions. No fault timed by instructions is passed by its counter
  in any queue (`O3NotOvertaken`), nor a fault of the main queue timed by ticks
  (`MainTickNotOvertaken`; the atomic CPU has no such guarantee, see `atomic_cpu_ticks`). Fetched
  and decoded instructions are counted exactly (`FetchCountsExact`),
  though executed ones are not: an instruction in flight when its thread activates can be the lost
  first event. A fetch cycle ends (`FetchEnds`), and the CPU uses the hooks as `FaultInjector`
  allows (`O3ImplementsInjector`).
- `experiment`: boots, checkpoints, restored experiments and killed processes with eight fault
  files. What is queued is what the file says, up to the first damaged object (`ReadsWritten`); a
  file without damage stops the simulator exactly when white space follows a last object that is a
  fault (`AbortExact`); an experiment runs with its own faults only (`Isolated`); the decode cache
  gives the program's instruction unless a decode fault has changed it (`Provenance`); values change
  as the file names it where the width allows it (`CorruptsAsNamed`); reading ends (`ReadEnds`).
- `event_queue`: device, exit and statistics events are scheduled, moved, squashed and removed while
  `simulate()` is called, interrupted and left by exceptions. The links serve the events in the
  order `EventOrder` promises (`ImplementsOrder`) and pass the code's own `debugVerify` exactly when
  no event of a negative priority waits at tick 0, which it takes for a disorder (`Verifies`). The
  limit event waits (`LimitWaits`) and, unless an exception left it there, no call ends at another's
  (`OwnLimit`); an exit is the last event of its tick (`ExitsLast`); a request of a signal is kept
  until it is answered, but for a reset in the window of simulate.cc:96-98 (`RequestsKept`); in each
  call of `simulate()` an interrupt takes effect at the next event (`InterruptPrompt`); the exit
  event it makes can outlive a call that another exit event ends. `simulate()` returns, unless
  events schedule events for the current tick for ever (`SimulateReturns`).

Runs that end in a violation. Each shows a place where the code does not do what a comment or
message of the repository says; `PROJECT.json` quotes the lines.

- `threads_reset`: after a reset `fi_activation` still knows the PCBs that stopped before it
  (`ResetForgetsThreads`).
- `fault_queue_fresh_links`: with links that are not zero, `insert` leaves arbitrary pointers in the
  list (`ListOK`).
- `injector_addr`: a fault timed by an address manifests all its occurrences in one instruction
  (`OncePerInstruction`).
- `atomic_cpu_ticks`: a fault timed by the ticks of all threads can be passed and never manifests
  (`TickNotOvertaken`).
- `immediate_value`: an immediate value narrower than 64 bits is taken from the high bytes
  (`ImmediateSets`).

The following behaviour was met while modelling. The models have it, except for `REL`, and where it
bears on a property the property's statement says so:

- A stopped thread that executes `get_Pc_address` indexes the vector with -1 (the intended use
  excludes it). With tracing, `dump()` at the end of `reset` looks up every PCB that `fi_activation`
  has kept in the vector, which is empty by then. The first event of a thread on a core is not
  counted.
- `src/fi/description` lists a field `REL` that no constructor reads, so a file written after it is
  read one field off. A word that is no number where one is expected drops the objects after it
  without a message; a file cut short leaves a fault with a field that was never set.
- On the O3 CPU instructions of a wrong path are counted, a fault can be spent on an instruction
  that is squashed, and a load that is executed again is counted again.
- A fault of the decoded registers changes the instruction the decode cache holds for all addresses
  with the same word, and the change outlives a second `init_fi_system`.
- On a byte of memory a mask changes nothing and an immediate value writes 0.
- `debugVerify` starts from tick 0 and priority 0 and so rejects a correct queue with an event of a
  negative priority at tick 0. An interrupt whose exit event is not reached before another one ends
  the call ends the next call.
- A reset of statistics asked for between the two statements of simulate.cc:96-98 is lost. An event
  that throws leaves the limit event of its call in the queue.

### Bounds

- `MaxEvents` bounds the events of one PCB. Three are enough for the first event on a core, a second
  one on the same and one on another core, which is what the counters tell apart; `atomic_cpu` uses
  9 (`atomic_cpu_ticks` 10), two full instructions of three stages, one of them a store conditional,
  and their ticks; `o3_cpu` uses 7,
  the ticks and the five or more events of a full cycle and the beginning of the next. The bound is
  a guard of counting actions and of nothing else. It is also why `AtomicCPU` and `O3CPU` stop, and
  their configurations say `CHECK_DEADLOCK FALSE`.
- Two PCBs, two cores: interference is between two. `injector` and `o3_cpu` have one core because
  sums over cores are met in `thread_table` and `atomic_cpu`; what `o3_cpu` adds, instructions in
  flight across commits, needs two processes.
- Four faults in a list: head, tail, a node between two others, and one more to insert or remove
  next to them. Two times produce equal and different ones.
- `IntMod = 16` and `WordMod = 64` keep the range of an `int` inside the runs' reach.
- `FetchWidth = 2` and `Window = 2`: a first and a last instruction of a cycle, one older and one
  younger instruction.
- `experiment`: words of 4 bits, instructions of 2, opcodes and bytes of 1, so that a value is
  narrower than a word where it is in the code; registers and bytes take every value. `MaxReads =
  3`, `MaxInits = 2`: a boot and two more readings, each by a reset or by a restored process; two
  instructions, at different addresses or the same. `MaxHits = 1` per reset.
- `event_queue`: ticks 0 to 2, three device events, so that a bin has a top, a middle and a last
  one; three exit events (a limit, an exit, an interrupt) and two statistics events; four calls and
  signals (`MaxCalls`). One device has the priority -31, below the default. One of them (`Clocked`)
  schedules itself again as often as it is served, as a CPU's tick does, and is not counted, so that
  `simulate()` does not return for lack of calls. The bounds on events made are guards of who makes
  them, never of the loop. Runs stop when the calls are used up.
- Symmetry is over PCBs (and cores in `thread_table`), which no constant of those runs tells apart.
  Runs that check liveness use none.

### Fairness

Weak fairness is assumed of the steps of a walk or drain in `InjectedFaultQueue`, of `TickStep` and
`Inside` in `AtomicCPU`, of `CycleStep` and `Inside` in `O3CPU`, of `ReadObject` and `EndRead` in
`Experiment` (a process that is killed while it reads is no longer reading), and of the loop in
`EventQueue`. These are statements of one C++ function after the other in a single thread: once the
function has been entered its next statement is executed. Nothing is assumed about which core the
event queue schedules next, nor that a core is scheduled at all; nothing about the guest, the Python
script, the objects that schedule events, or signals.

## Proofs

`tlapm` checks every step. Nothing is assumed but the `ASSUME`s on constants, which TLC evaluates in
the runs, and `Liberty = {}` or `FreshLinks = {NULL}` where a theorem says so. Two of the assumptions
are there for the prover: that 2 to the number of bits of a byte is positive, since it does not know
exponentiation, and that the bounds of the runs are numbers.

- `FiSystemProofs`. `IInv` is type correctness with `NoWildAccess`, `SlotsDistinct` and
  `CountsOwnEvents`. The last is not inductive alone: that an event reaches its own record rests on
  positions being distinct, which rests on `vectorpos` being the length of the vector when the next
  PCB activates. Theorems: `TypeCorrect` for any `Liberty`; `VectorAccessesInRange` (of the pseudo
  instructions and the hooks, not of `dump()`), `PositionsDistinct`, `CountersIsolated` for the
  intended use. The run `threads_reset` shows that the restriction is needed.
- `FiSystemProofs` and `FaultInjectorProofs`. `ThreadTableImplemented` (each step of the hooks
  is a step of `FiSystem` or stutters) carries those theorems over (`HooksKeepThreadTable`).
  `InjInv` adds that a fault is queued at most once and in its own queue, has not manifested before
  it was read, and, once it has manifested in a hook, is not due again. With `InjectorTypeCorrect`
  it gives `ManifestsOncePerHook`, `BudgetKept` and `PermanentKept`. The arithmetic core are the
  lemmas `TickStepMoves` and `NarrowMoves`: rescheduling never returns the time it started from,
  whatever wraps around.
- `AtomicCPUProofs`. `CpuTypeCorrect` and `InjectorImplemented` carry the
  theorems about `FaultInjector` over to the CPU. `InstructionCountsExact` shows that the lost first
  event of a thread on a core is always the ticks of the instruction that made it run there, so no
  instruction is lost; `StagesKeepStep` that decode
  follows fetch and that at most two executions are counted for each decoded instruction.
  `CpuInv` needs that a process runs on one core, that a hook is called for whoever runs, and that
  whoever runs in user mode has already been seen on its core, except in the last part of the tick
  that let it in.
- `O3CPUProofs`. `O3TypeCorrect` needs `RoomLeft`: what a cycle may still fetch fits into the
  window. `O3InjectorImplemented` and, by it, `O3FaultsBounded` carry the theorems about
  `FaultInjector` over to this CPU. `FetchCountersExact` and `FetchDecodeInStep` rest on
  `O3CountInv`: in a fetch cycle the mode and the PCB do not change and the core has been seen,
  because its ticks were charged first (`SeenInCycle`); a hook belongs to whoever runs and, but for
  `iew_fault`, to the cycle (`HookInCycle`); and the fetched instructions are ahead of the decoded
  ones by one exactly between the ends of the two hooks (`InStep`).
- `SimulateProofs`. `ServedInOrder` and `FlagsCorrect` hold of `EventOrder` for any events, ticks
  and priorities: an event enters before the first one that is later or, of the same tick and
  priority, was there before, and an order kept at every insertion is kept by removals.
  `LoopKeepsOrder` shows that the loop, the objects and the script use the queue as `EventOrder`
  allows. On that rest `LimitAlwaysWaits`, `EndsAtOwnLimit` and `ExitAfterTheTick`, whose invariant
  `SimInv` adds that in Python no event is being processed and no limit is set, that the limit event
  has the cause "limit", and that the event being processed belongs to the current tick.
  `RequestsNotLost` and, for each call of `simulate()`, `InterruptAtNextEvent` are about signals
  that arrive between any two accesses to the flags. Their invariant `RequestInv` says for each
  statement of the loop which flags may be set and not yet answered, and where the answering event
  is until it is served.
- `InjectedFaultQueueProofs`. `LinksSpellList`, `NeverAborts`, `LoadedInOrder` and
  `QueueImplementsList` hold for any number of faults when the links of a new fault are zero; the run
  `fault_queue_fresh_links` shows that this is needed. No reachability is involved: `ListOK` compares
  each link with the list `q`, and the invariant places the walk in it: the node a walk of `insert`
  has come to is at a position of `q` before which every fault is earlier, that of `remove` is not
  past the fault it looks for. `TypeCorrect` needs no assumption about fresh links.
- `ExperimentProofs`. `CampaignTypes`, `CacheGivesProgram`, `ExperimentsIsolated` and
  `ChangesAsNamed` hold for any files, program, decoding, widths and number of readings. `ExpInv`
  says of the process, and of the one in the checkpoint, that pages name cached instructions, that a
  cached instruction is what decoding gives or bears a mark, that the instruction under way is the
  program's until a fault changes it, and that no mark is there before the first `init_fi_system`; of
  the queued faults, that they are all from the last reading. Of a file it needs only that the
  parsers accept a word before a fault is queued. `ManifestNamed` and `OpCodeNamed` are the lemmas
  about `manifest`. A number is cast to a byte before a byte of memory is changed, so there
  `CorruptsAsNamed` speaks of what the cast leaves (`Flip:257` flips the first bit).
- Some invariants are proved and not repeated in the runs: the types of `FiSystem`, `FaultInjector`,
  `AtomicCPU` and `O3CPU`; that a permanent fault stays queued (`PermanentStays`); that fetch and
  decode counts agree between fetch cycles (`FetchInStep`); that the queue is ordered and its flags
  are right (`InTickOrder`, `FlagsMatchQueue`). Of the links of `EventQueue` the last two follow
  because the run `event_queue` shows that they implement `EventOrder`.
- `SequenceLemmas`. What `InsertedAt` and `RemovedAt` do to elements, sets of elements and
  distinctness.

Counters are kept in functions of functions, which make the prover's translation of a step slow;
the proofs about the CPUs name the value with an operator (`CntOf`, `RanOf`, `CoresOf`) and expand it
in few places. `Lists` takes the place of `SequencesExt`, which would bring in `Bags`.

Model-checked only:

- the liveness properties (fairness is out of the prover's reach);
- the properties about overtaking, `OwnStageNotOvertaken`, `NotOvertaken`, `O3NotOvertaken` and
  `MainTickNotOvertaken` (they compare sums over sets of threads and cores, which would need an
  induction over the set);
- that the links of `EventQueue` spell a list of lists, `QueueTypeOK`, `Verifies` and
  `ImplementsOrder` (the list is read off the links by recursion, and its length is not known);
- `ReadsWritten` and `AbortExact` (the words of a file are its objects' fields one after the other,
  and where an object begins is an induction over the objects before it).

## Not modelled

The subject is the fault injection and what drives it, a few thousand lines of a repository of some
280,000. The rest is gem5 as it comes: other instruction sets, memory systems, devices, networks,
statistics, generated code, Python configuration. It neither calls nor is called by the fault
injection other than through the CPU models and the event queue, and most of it computes values
rather than keeping a protocol. The share of the repository's lines that the modules stand for is
accordingly small. Inside the subject, these are left out:

- The atomic CPU at a width other than 1, interrupts, caches, `_status == Idle`, and what the
  instructions compute. Which instruction is executed is a choice. The timing and in-order CPUs call
  only `iew_fault`, through the instructions of the Alpha ISA, and count no ticks; they have no
  module of their own.
- In the O3 CPU: rename, the reorder buffer, the load/store queue, branch prediction and several
  hardware threads per core, all of which show only in what is fetched, executed, squashed and
  committed next, which is a choice.
- Numbers as text in the fault file, and flip positions from 2^34 on, where the byte index no longer
  fits into an `int`.
- In the event queue: serialisation, `replaceHead` and `serviceEvents`, which serve queues of the
  CPUs' instruction counts; repeated statistics events and `CountedExitEvent`.
- gem5's own checkpoints and the switch of CPU models in `configs/common/Simulation.py`. The switch
  moves the architectural state only, and the fault injection keeps none per CPU object but the
  name, by which counts are kept.
- Printing and dumping, but for the index `dump()` uses in `reset`; `AND` and `OR` of `faultq.hh`,
  `fi_relative` and `fi_process.hh`, which nothing uses; the guest library, which has no state.
