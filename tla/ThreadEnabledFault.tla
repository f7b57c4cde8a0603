------------------------- MODULE ThreadEnabledFault -------------------------
(***************************************************************************)
(* The record Fi_System keeps for every software thread that has enabled   *)
(* fault injection (src/fi/cpu_threadInfo.hh, .cc): the thread's id, the   *)
(* address it stored when it activated, and one cpuExecutedTicks counter   *)
(* block for every core the thread has been seen on.                       *)
(*                                                                         *)
(* The std::map "cores" is split in two: th.cores is the set of its keys,  *)
(* th.cnt[c] the counter block of core c.  The block of a core that is not *)
(* a key is all zero, which is what every reader of the map gets for it.   *)
(***************************************************************************)
EXTENDS Integers, FiniteSets, Functions

CONSTANTS
  Core,       \* names of the cores (system.cpu0, ...)
  All,        \* the name "all" a fault may use instead of a core or a thread
  ThreadId,   \* ids a program passes to fi_activate_inst
  Addr,       \* virtual addresses
  NoAddr      \* (Addr)-1, the stored address before it is set

ASSUME CoreAssumption == IsFiniteSet(Core) /\ All \notin Core
ASSUME AddrAssumption == NoAddr \in Addr

\* The four counters of a cpuExecutedTicks block.
Fetched == "fetched"
Decoded == "decoded"
Executed == "executed"
Ticks == "ticks"

Counter == {Fetched, Decoded, Executed, Ticks}

Block == [Counter -> Nat]

Thread == [threadId : ThreadId, magic : Addr, cores : SUBSET Core, cnt : [Core -> Block]]

\* cpuExecutedTicks::cpuExecutedTicks
ZeroBlock == [k \in Counter |-> 0]

\* ThreadEnabledFault::ThreadEnabledFault
NewThread(id) ==
  [threadId |-> id, magic |-> NoAddr, cores |-> {}, cnt |-> [c \in Core |-> ZeroBlock]]

-----------------------------------------------------------------------------
(* The four increase functions.  A core that is not in the map yet gets a  *)
(* zeroed block, and the event that made it known is not added to it.      *)

\* Mutant: the map is replaced when the thread shows up on another core.
CountOnForgetsCores(th, c, k, n) ==
  IF c \notin th.cores
    THEN [th EXCEPT !.cores = {c}, !.cnt[c] = ZeroBlock]
    ELSE [th EXCEPT !.cnt[c][k] = @ + n]

CountOn(th, c, k, n) ==
  IF c \notin th.cores
    THEN [th EXCEPT !.cores = @ \cup {c}, !.cnt[c] = ZeroBlock]
    ELSE [th EXCEPT !.cnt[c][k] = @ + n]

increaseTicks(th, c, ticks) == CountOn(th, c, Ticks, ticks)
increaseFetchedInstr(th, c) == CountOn(th, c, Fetched, 1)
increaseDecodedInstr(th, c) == CountOn(th, c, Decoded, 1)
increaseExecutedInstr(th, c) == CountOn(th, c, Executed, 1)

-----------------------------------------------------------------------------
(* The three Calculate functions: the instructions of one stage and the    *)
(* ticks, of one core or summed over every core in the map.                *)

Total(th, where, k) ==
  IF where = All THEN SumFunction([c \in th.cores |-> th.cnt[c][k]])
  ELSE IF where \in th.cores THEN th.cnt[where][k] ELSE 0

CalculateFetchedTime(th, where) ==
  [instr |-> Total(th, where, Fetched), time |-> Total(th, where, Ticks)]
CalculateDecodedTime(th, where) ==
  [instr |-> Total(th, where, Decoded), time |-> Total(th, where, Ticks)]
CalculateExecutedTime(th, where) ==
  [instr |-> Total(th, where, Executed), time |-> Total(th, where, Ticks)]
=============================================================================
