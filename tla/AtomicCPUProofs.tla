--------------------------- MODULE AtomicCPUProofs ---------------------------
(***************************************************************************)
(* Proofs that the atomic CPU model keeps its types and uses the injector  *)
(* as FaultInjector allows, and that the instructions its hooks count are  *)
(* exact and the stages in step, for any number of cores and processes.    *)
(* The inductive invariant of a tick is kept by the steps that count no    *)
(* event, and by those that do.                                            *)
(***************************************************************************)
EXTENDS AtomicCPU, FiSystemProofs

LEMMA TickCore ==
  ASSUME CpuTypeOK, tick # NoTick
  PROVE  tick \in [stage : TickStage, core : Core] /\ tick.stage \in TickStage /\ tick.core \in Core
BY DEF CpuTypeOK

\* Calling a hook, or not, is a step of the injector.
LEMMA CallHookImplements ==
  ASSUME NEW s \in Stage, NEW c \in Core, CallHook(s, c)
  PROVE  [InjNext]_ivars
<1>1. CASE Injecting(c)
  <2>1. PICK pc \in Addr : BeginHook(s, c, running[c], pc)
    BY <1>1 DEF CallHook
  <2>2. running[c] \in Pcb
    BY <1>1 DEF Injecting
  <2> QED BY <2>1, <2>2 DEF InjNext
<1>2. CASE ~Injecting(c)
  BY <1>2 DEF CallHook, Elsewhere, ivars
<1> QED BY <1>1, <1>2

\* A step of the CPU is a step of the injector, or leaves it alone.
LEMMA CpuStepImplements ==
  ASSUME CpuTypeOK, [CpuNext]_avars
  PROVE  [InjNext]_ivars
<1>1. ASSUME NEW c \in Core, StartTick(c) PROVE [InjNext]_ivars
  BY <1>1, CallHookImplements DEF StartTick, Stage
<1>2. ASSUME Fetch \/ Decode \/ ExecuteWithHook \/ StoreConditional PROVE [InjNext]_ivars
  <2>1. tick.core \in Core
    BY <1>2, TickCore DEF Fetch, Decode, ExecuteWithHook, StoreConditional, At
  <2> QED BY <1>2, <2>1, CallHookImplements
          DEF Fetch, Decode, ExecuteWithHook, StoreConditional, Stage
<1>3. ASSUME ExecutePseudo PROVE [InjNext]_ivars
  <2>1. running[tick.core] \in Pcb
    BY <1>3 DEF ExecutePseudo
  <2>2. \/ \E id \in ThreadId, a \in Addr : Elsewhere(fi_activate_inst(running[tick.core], id, a))
        \/ \E a \in Addr : Elsewhere(get_Pc_address(running[tick.core], a))
        \/ Reset
    BY <1>3 DEF ExecutePseudo
  <2> QED BY <2>1, <2>2 DEF InjNext
<1>4. ASSUME EndTick PROVE [InjNext]_ivars
  <2>1. tick.core \in Core
    BY <1>4, TickCore DEF EndTick, At
  <2>2. CASE Injecting(tick.core)
    <3>1. PICK n \in Latency : Elsewhere(increase_ticks(running[tick.core], tick.core, n))
      BY <1>4, <2>2 DEF EndTick
    <3>2. running[tick.core] \in Pcb
      BY <2>2 DEF Injecting
    <3> QED BY <2>1, <3>1, <3>2 DEF InjNext
  <2>3. CASE ~Injecting(tick.core)
    BY <1>4, <2>3 DEF EndTick
  <2> QED BY <2>2, <2>3
<1>5. ASSUME Inside PROVE [InjNext]_ivars
  BY <1>5 DEF Inside, InjNext
<1>6. ASSUME \/ FetchFault \/ ExecutePlain
             \/ \E m \in {"user", "kernel"} : SetMode(m)
             \/ \E p \in Pcb \cup {NoPcb} : SwitchContext(p)
      PROVE  [InjNext]_ivars
  BY <1>6 DEF FetchFault, ExecutePlain, SetMode, SwitchContext
<1>7. ASSUME UNCHANGED avars PROVE [InjNext]_ivars
  BY <1>7 DEF avars
<1> QED BY <1>1, <1>2, <1>3, <1>4, <1>5, <1>6, <1>7 DEF CpuNext, TickStep

LEMMA CpuInitType == CpuInit => CpuTypeOK
BY InjInitType DEF CpuInit, CpuTypeOK

LEMMA CpuNextType == CpuTypeOK /\ [CpuNext]_avars => CpuTypeOK'
<1> SUFFICES ASSUME CpuTypeOK, [CpuNext]_avars PROVE CpuTypeOK'
  OBVIOUS
<1>1. InjTypeOK'
  BY CpuStepImplements, InjNextType DEF CpuTypeOK
<1>2. ASSUME NEW s \in TickStage, tick # NoTick, Go(s)
      PROVE  tick' \in [stage : TickStage, core : Core] \cup {NoTick}
  BY <1>2, TickCore DEF Go
<1>3. tick' \in [stage : TickStage, core : Core] \cup {NoTick}
  <2>1. ASSUME NEW c \in Core, StartTick(c) PROVE tick' \in [stage : TickStage, core : Core]
    BY <2>1 DEF StartTick, TickStage
  <2>2. ASSUME TickStep PROVE tick' \in [stage : TickStage, core : Core] \cup {NoTick}
    BY <1>2, <2>2 DEF TickStep, TickStage, FetchFault, Fetch, Decode, ExecuteWithHook,
         StoreConditional, ExecutePlain, ExecutePseudo, SetMode, SwitchContext, EndTick, At
  <2>3. ASSUME Inside \/ UNCHANGED avars PROVE tick' = tick
    BY <2>3 DEF Inside, avars, cvars
  <2> QED BY <2>1, <2>2, <2>3 DEF CpuNext, CpuTypeOK
<1>4. mode' \in [Core -> {"user", "kernel"}] /\ running' \in [Core -> Pcb \cup {NoPcb}]
  BY DEF CpuTypeOK, CpuNext, TickStep, StartTick, FetchFault, Fetch, Decode, ExecuteWithHook,
         StoreConditional, ExecutePlain, ExecutePseudo, SetMode, SwitchContext, EndTick,
         Inside, avars, cvars
<1> QED BY <1>1, <1>3, <1>4 DEF CpuTypeOK

\* The state of the CPU model keeps its types: a core is in one of two modes and
\* runs one process or none, a tick is of one core.
THEOREM CpuTypeCorrect == CpuSpec => []CpuTypeOK
<1> QED BY CpuInitType, CpuNextType, PTL DEF CpuSpec

\* AtomicSimpleCPU::tick (atomic.cc:442-580) uses the fault injector as
\* FaultInjector allows.
THEOREM InjectorImplemented == CpuSpec => ImplementsInjector
<1>1. CpuInit => InjInit
  BY DEF CpuInit
<1>2. CpuTypeOK /\ [CpuNext]_avars => [InjNext]_ivars
  BY CpuStepImplements
<1> QED BY <1>1, <1>2, CpuTypeCorrect, PTL DEF CpuSpec, InjSpec, ImplementsInjector

-----------------------------------------------------------------------------
(* The inductive invariant of a tick.  The counters of a thread are exact  *)
(* for the instructions because a thread is always seen on a core by the   *)
(* ticks charged at the end of the instruction that made it run there      *)
(* (SeenOn), which takes that a process runs on one core (Alone) and that  *)
(* the hooks are called for whoever runs (HookInTick).                     *)

InTick(c, S) == tick # NoTick /\ tick.core = c /\ tick.stage \in S

Alone == \A c, d \in Core : running[c] \in Pcb /\ running[c] = running[d] => c = d

HookStage ==
  [s \in TickStage \ {"end"} |-> IF s \in {"execute", "postacc"} THEN "iew" ELSE s]

HookInTick ==
  hook # NoHook =>
    /\ InTick(hook.core, DOMAIN HookStage) /\ hook.stage = HookStage[tick.stage]
    /\ Injecting(hook.core) /\ hook.pcb = running[hook.core]

SeenOn ==
  \A c \in Core : Injecting(c) /\ ~InTick(c, {"end"}) => c \in CoresOf(running[c])

\* p, running on c, has been counted by the fetch hook and not yet by the decode
\* hook; it has been counted by the decode hook and may call the execute hook twice
\* more; and at least once more.
Lead(p, c) ==
  /\ running[c] = p /\ mode[c] = "user"
  /\ InTick(c, {IF hook = NoHook THEN "fetch" ELSE "decode"})
OwesTwo(p, c) ==
  /\ running[c] = p /\ mode[c] = "user"
  /\ InTick(c, {IF hook = NoHook THEN "decode" ELSE "execute"})
Owes(p, c) ==
  /\ running[c] = p /\ mode[c] = "user"
  /\ InTick(c, {"execute", IF hook = NoHook THEN "decode" ELSE "postacc"})

StepOf(p, c) ==
  /\ CntOf(p, c, Fetched) = CntOf(p, c, Decoded) + (IF Lead(p, c) THEN 1 ELSE 0)
  /\ CntOf(p, c, Executed) + (IF Owes(p, c) THEN 1 ELSE 0) + (IF OwesTwo(p, c) THEN 1 ELSE 0)
       <= 2 * CntOf(p, c, Decoded)

Exact ==
  \A p \in Pcb, c \in Core, k \in {Fetched, Decoded, Executed} :
    Active(p) => CntOf(p, c, k) = RanOf(p, c, k)

InStep == \A p \in Pcb, c \in Core : Active(p) => StepOf(p, c)

CpuInv ==
  /\ CpuTypeOK /\ IInv
  /\ Alone /\ HookInTick /\ SeenOn /\ Exact /\ InStep

-----------------------------------------------------------------------------
(* Steps that count nothing.                                               *)

\* Nobody who is active after the step has been counted by a hook in this step.
NothingCounted ==
  /\ \A q \in Pcb : Active(q)' =>
       \/ /\ Kept(q)
          /\ \A c \in Core : /\ Lead(q, c)' <=> Lead(q, c)
                             /\ Owes(q, c)' => Owes(q, c)
                             /\ OwesTwo(q, c)' => OwesTwo(q, c)
       \/ /\ Fresh(q)
          /\ \A c \in Core : ~Lead(q, c)' /\ ~Owes(q, c)' /\ ~OwesTwo(q, c)'
  /\ \A c \in Core : Injecting(c)' /\ ~InTick(c, {"end"})' =>
       /\ Injecting(c) /\ ~InTick(c, {"end"})
       /\ \E q \in Pcb : running[c] = q /\ running'[c] = q /\ Kept(q)

LEMMA NextRunnerOf ==
  ASSUME NEW d, Injecting(d)', UNCHANGED <<mode, running>>
  PROVE  \E q \in Pcb : /\ running[d] = q /\ mode[d] = "user" /\ Active(q)'
                        /\ Active(q) => Injecting(d)
                        /\ CoresOf(running[d]) = CoresOf(q)
                        /\ CoresOf(running[d])' = CoresOf(q)'
BY DEF Injecting, Active, CoresOf, ThreadOf

LEMMA NothingCountedInv ==
  ASSUME CpuInv, NothingCounted, CpuTypeOK', IInv', Alone', HookInTick'
  PROVE  CpuInv'
<1>0. {Fetched, Decoded, Executed} \subseteq Counter
  BY DEF Counter
<1>1. Exact'
  <2> SUFFICES ASSUME NEW q \in Pcb, NEW c \in Core, NEW k \in {Fetched, Decoded, Executed},
                      Active(q)'
               PROVE  CntOf(q, c, k)' = RanOf(q, c, k)'
    BY DEF Exact
  <2>1. CASE Kept(q)
    <3>1. Active(q)
      BY <2>1 DEF Kept
    <3> QED BY <2>1, <3>1, KeptCounts DEF CpuInv, Exact
  <2>2. CASE Fresh(q)
    BY <1>0, <2>2, FreshCounts
  <2> QED BY <2>1, <2>2 DEF NothingCounted
<1>2. InStep'
  <2> SUFFICES ASSUME NEW q \in Pcb, NEW c \in Core, Active(q)'
               PROVE  StepOf(q, c)'
    BY DEF InStep
  <2>1. ASSUME Kept(q), Lead(q, c)' <=> Lead(q, c), Owes(q, c)' => Owes(q, c),
               OwesTwo(q, c)' => OwesTwo(q, c)
        PROVE  StepOf(q, c)'
    <3>1. \A k : CntOf(q, c, k)' = CntOf(q, c, k)
      BY <2>1, KeptCounts
    <3>2. StepOf(q, c)
      BY <2>1 DEF CpuInv, InStep, Kept
    <3>3. \A k \in Counter : CntOf(q, c, k) \in Nat
      BY <2>1, CountsNat DEF CpuInv, Kept
    <3> QED BY <1>0, <2>1, <3>1, <3>2, <3>3 DEF StepOf, Fetched, Decoded, Executed
  <2>2. ASSUME Fresh(q), ~Lead(q, c)', ~Owes(q, c)', ~OwesTwo(q, c)' PROVE StepOf(q, c)'
    <3>1. \A k \in Counter : CntOf(q, c, k)' = 0
      BY <2>2, FreshCounts
    <3> QED BY <1>0, <2>2, <3>1 DEF StepOf, Fetched, Decoded, Executed
  <2> QED BY <2>1, <2>2 DEF NothingCounted
<1>3. SeenOn'
  <2> SUFFICES ASSUME NEW c \in Core, Injecting(c)', ~InTick(c, {"end"})'
               PROVE  c \in CoresOf(running[c])'
    BY DEF SeenOn
  <2>1. Injecting(c) /\ ~InTick(c, {"end"})
    BY DEF NothingCounted
  <2>2. PICK q \in Pcb : running[c] = q /\ running'[c] = q /\ Kept(q)
    BY DEF NothingCounted
  <2>3. c \in CoresOf(q)
    BY <2>1, <2>2 DEF CpuInv, SeenOn
  <2>4. CoresOf(running[c])' = CoresOf(q)'
    BY <2>2 DEF CoresOf, ThreadOf
  <2> QED BY <2>2, <2>3, <2>4, KeptCores
<1> QED BY <1>1, <1>2, <1>3 DEF CpuInv

LEMMA SameTable ==
  ASSUME UNCHANGED <<fi_activation, threadList, ran>>, NEW q
  PROVE  (Active(q)' <=> Active(q)) /\ (Active(q) => Kept(q))
BY DEF Active, Kept, ThreadOf

LEMMA HookCalled ==
  ASSUME CpuInv, NEW s \in Stage, NEW c \in Core, CallHook(s, c)
  PROVE  /\ hook = NoHook /\ UNCHANGED <<fi_activation, threadList, ran>>
         /\ IF Injecting(c)
              THEN hook' # NoHook /\ hook'.stage = s /\ hook'.core = c /\ hook'.pcb = running[c]
              ELSE hook' = NoHook
<1>1. CASE Injecting(c)
  <2>1. PICK pc \in Addr : BeginHook(s, c, running[c], pc)
    BY <1>1 DEF CallHook
  <2>2. running[c] \in Pcb /\ Active(running[c])
    BY <1>1 DEF Injecting
  <2>3. InRange(fi_activation[running[c]])
    BY <2>2, ActiveThread DEF CpuInv
  <2>4. hook' = [stage |-> s, core |-> c, pcb |-> running[c], pc |-> pc]
    BY <2>1, <2>3 DEF BeginHook
  <2>5. hook' # NoHook
    BY <2>4 DEF NoHook, Stage
  <2> QED BY <1>1, <2>1, <2>4, <2>5 DEF BeginHook, Ready, ReadThread
<1>2. CASE ~Injecting(c)
  BY <1>2 DEF CallHook, Elsewhere, Ready, fvars, tvars
<1> QED BY <1>1, <1>2

\* A tick goes to the next stage and calls its hook.
LEMMA HookCallInv ==
  ASSUME CpuInv, NEW c \in Core, NEW s \in TickStage \ {"end"},
         tick' = [stage |-> s, core |-> c], UNCHANGED <<mode, running>>,
         CallHook(HookStage[s], c), CpuTypeOK', IInv',
         \/ s = "main" /\ tick = NoTick
         \/ /\ tick # NoTick /\ tick.core = c
            /\ \/ tick.stage = "main" /\ s = "fetch"
               \/ tick.stage = "fetch" /\ s = "decode"
               \/ tick.stage = "decode" /\ s = "execute"
               \/ tick.stage = "execute" /\ s = "postacc"
  PROVE  CpuInv'
<1>1. HookStage[s] \in Stage
  BY DEF HookStage, Stage, TickStage
<1>2. /\ hook = NoHook /\ UNCHANGED <<fi_activation, threadList, ran>>
      /\ IF Injecting(c)
           THEN /\ hook' # NoHook /\ hook'.stage = HookStage[s]
                /\ hook'.core = c /\ hook'.pcb = running[c]
           ELSE hook' = NoHook
  BY <1>1, HookCalled
<1>3. tick' # NoTick /\ tick'.core = c /\ tick'.stage = s
  BY DEF NoTick
<1>4. \A d \in Core : Injecting(d)' <=> Injecting(d)
  BY <1>2 DEF Injecting, Active
<1>5. Alone'
  BY Zenon DEF CpuInv, Alone
<1>6. HookInTick'
  <2> SUFFICES ASSUME hook' # NoHook
               PROVE  /\ InTick(hook.core, DOMAIN HookStage)'
                      /\ hook'.stage = HookStage[tick'.stage]
                      /\ Injecting(hook.core)' /\ hook'.pcb = running'[hook'.core]
    BY Zenon DEF HookInTick, HookStage
  <2>1. Injecting(c) /\ hook'.core = c
    BY <1>2
  <2>2. InTick(hook.core, DOMAIN HookStage)'
    BY <1>3, <2>1 DEF InTick, HookStage
  <2>3. Injecting(hook.core)'
    BY <1>2, <2>1, Zenon DEF Injecting, Active
  <2> QED BY <1>2, <1>3, <2>1, <2>2, <2>3
<1>7. NothingCounted
  <2>1. \A q \in Pcb : (Active(q)' <=> Active(q)) /\ (Active(q) => Kept(q))
    BY <1>2, SameTable
  <2>2. ASSUME NEW q \in Pcb, NEW d \in Core, Active(q)
        PROVE  /\ Lead(q, d)' <=> Lead(q, d)
               /\ Owes(q, d)' => Owes(q, d)
               /\ OwesTwo(q, d)' => OwesTwo(q, d)
    <3>1. running[d] = q /\ mode[d] = "user" <=> running[d] = q /\ Injecting(d)
      BY <2>2, Zenon DEF Injecting
    <3> QED BY <1>2, <1>3, <3>1, Zenon DEF Lead, Owes, OwesTwo, InTick
  <2>3. ASSUME NEW d \in Core, Injecting(d)'
        PROVE  /\ Injecting(d) /\ ~InTick(d, {"end"})
               /\ \E q \in Pcb : running[d] = q /\ running'[d] = q /\ Kept(q)
    <3>1. Injecting(d)
      BY <1>4, <2>3
    <3>2. ~InTick(d, {"end"})
      BY Zenon DEF InTick
    <3> QED BY <2>1, <3>1, <3>2 DEF Injecting
  <2> QED BY <2>1, <2>2, <2>3, Zenon DEF NothingCounted
<1> QED BY <1>5, <1>6, <1>7, NothingCountedInv

\* An instruction without a hook: the tick goes to its end.  The core of the tick
\* may change its mode and its process, and whoever runs there may activate.
LEMMA ToEndInv ==
  ASSUME CpuInv, At("main") \/ At("decode") \/ At("execute"), Go("end"), hook' = NoHook,
         CpuTypeOK', IInv', Alone',
         \A d \in Core \ {tick.core} : running'[d] = running[d] /\ mode'[d] = mode[d],
         \A q \in Pcb : Active(q)' =>
           Kept(q) \/ (Fresh(q) /\ \A d \in Core \ {tick.core} : running[d] # q)
  PROVE  CpuInv'
<1>1. /\ tick \in [stage : TickStage, core : Core] /\ tick.core \in Core
      /\ tick # NoTick /\ tick.stage \in {"main", "decode", "execute"} /\ hook = NoHook
  BY TickCore DEF At, CpuInv
<1>2. tick' # NoTick /\ tick'.core = tick.core /\ tick'.stage = "end"
  BY <1>1, Zenon DEF Go, NoTick
<1>3. HookInTick'
  BY Zenon DEF HookInTick
<1>4. ASSUME NEW q, NEW c PROVE ~Lead(q, c)' /\ ~Lead(q, c) /\ ~Owes(q, c)' /\ ~OwesTwo(q, c)'
  BY <1>1, <1>2, Zenon DEF Lead, Owes, OwesTwo, InTick
<1>5. ASSUME NEW c \in Core, Injecting(c)', ~InTick(c, {"end"})'
      PROVE  /\ Injecting(c) /\ ~InTick(c, {"end"})
             /\ \E q \in Pcb : running[c] = q /\ running'[c] = q /\ Kept(q)
  <2>1. c # tick.core
    BY <1>2, <1>5, Zenon DEF InTick
  <2>2. running'[c] = running[c] /\ mode'[c] = mode[c]
    BY <2>1
  <2>3. PICK q \in Pcb : running'[c] = q /\ Active(q)'
    BY <1>5 DEF Injecting, Active
  <2>4. Kept(q)
    BY <2>1, <2>2, <2>3
  <2>5. Injecting(c)
    BY <1>5, <2>2, <2>3, <2>4, Zenon DEF Injecting, Kept
  <2> QED BY <1>1, <2>2, <2>3, <2>4, <2>5, Zenon DEF InTick
<1>6. NothingCounted
  BY <1>4, <1>5, Zenon DEF NothingCounted
<1> QED BY <1>3, <1>6, NothingCountedInv

LEMMA PlainInv ==
  ASSUME CpuInv, CpuTypeOK', IInv',
         \/ FetchFault \/ ExecutePlain
         \/ \E m \in {"user", "kernel"} : SetMode(m)
         \/ \E p \in Pcb \cup {NoPcb} : SwitchContext(p)
  PROVE  CpuInv'
<1>1. /\ At("main") \/ At("decode") \/ At("execute")
      /\ Go("end") /\ UNCHANGED ivars
  BY DEF FetchFault, ExecutePlain, SetMode, SwitchContext
<1>2. hook' = NoHook /\ UNCHANGED <<fi_activation, threadList, ran>>
  BY <1>1 DEF ivars, fvars, tvars, At
<1>3. \A q \in Pcb : Active(q)' => Kept(q)
  BY <1>2, SameTable
<1>4. \A d \in Core \ {tick.core} : running'[d] = running[d] /\ mode'[d] = mode[d]
  BY DEF FetchFault, ExecutePlain, SetMode, SwitchContext, CpuInv, CpuTypeOK
<1>5. Alone'
  <2>1. CASE running' = running
    BY <2>1 DEF CpuInv, Alone
  <2>2. ASSUME NEW p \in Pcb \cup {NoPcb}, SwitchContext(p) PROVE Alone'
    <3>1. /\ running' = [running EXCEPT ![tick.core] = p]
          /\ p \in Pcb => \A c \in Core : running[c] # p
      BY <2>2 DEF SwitchContext
    <3> QED BY <3>1 DEF CpuInv, CpuTypeOK, Alone
  <2> QED BY <2>1, <2>2 DEF FetchFault, ExecutePlain, SetMode
<1> QED BY <1>1, <1>2, <1>3, <1>4, <1>5, ToEndInv

LEMMA PseudoInv ==
  ASSUME Liberty = {}, CpuInv, ExecutePseudo, CpuTypeOK', IInv'
  PROVE  CpuInv'
<1> DEFINE p == running[tick.core]
<1>1. /\ At("decode") /\ Go("end") /\ p \in Pcb /\ UNCHANGED <<mode, running>>
      /\ \/ \E id \in ThreadId, a \in Addr : Elsewhere(fi_activate_inst(p, id, a))
         \/ \E a \in Addr : Elsewhere(get_Pc_address(p, a))
         \/ Reset
  BY DEF ExecutePseudo
<1>2. tick.core \in Core
  BY <1>1, TickCore DEF At, CpuInv
<1>3. hook' = NoHook
  BY <1>1 DEF Elsewhere, Ready, fvars, Reset
<1>4. Alone'
  BY <1>1 DEF CpuInv, Alone
<1>5. \A d \in Core \ {tick.core} : running[d] # p
  BY <1>1, <1>2 DEF CpuInv, Alone
<1> HIDE DEF p
<1>6. ASSUME NEW q \in Pcb, Active(q)' PROVE Kept(q) \/ (Fresh(q) /\ q = p)
  <2>0. IInv
    BY DEF CpuInv
  <2>1. ASSUME NEW id \in ThreadId, NEW a \in Addr, fi_activate_inst(p, id, a)
        PROVE  Kept(q) \/ (Fresh(q) /\ q = p)
    BY <1>1, <1>6, <2>0, <2>1, ActivateEffect, DeactivateEffect DEF fi_activate_inst
  <2>2. ASSUME NEW a \in Addr, get_Pc_address(p, a) PROVE Kept(q)
    BY <1>1, <1>6, <2>0, <2>2, GetPcEffect
  <2>3. ASSUME Reset PROVE FALSE
    BY <1>6, <2>3 DEF Reset, init_fi_system, ResetThreads, Active
  <2> QED BY <1>1, <2>1, <2>2, <2>3 DEF Elsewhere
<1> QED BY <1>1, <1>3, <1>4, <1>5, <1>6, ToEndInv

\* The simulator reads a fault or lets one manifest: the CPU and the threads stay.
LEMMA IdleInv ==
  ASSUME CpuInv, UNCHANGED <<tvars, hook, cvars>>, CpuTypeOK', IInv'
  PROVE  CpuInv'
<1>1. UNCHANGED <<fi_activation, threadList, ran, hook, mode, running, tick>>
  BY DEF tvars, cvars
<1>2. \A q \in Pcb : (Active(q)' <=> Active(q)) /\ (Active(q) => Kept(q))
  BY <1>1, SameTable
<1>3. \A q, c : /\ Lead(q, c)' <=> Lead(q, c)
                /\ Owes(q, c)' <=> Owes(q, c)
                /\ OwesTwo(q, c)' <=> OwesTwo(q, c)
  BY <1>1 DEF Lead, Owes, OwesTwo, InTick
<1>4. \A c : (Injecting(c)' <=> Injecting(c)) /\ (InTick(c, {"end"})' <=> InTick(c, {"end"}))
  BY <1>1, Zenon DEF Injecting, Active, InTick
<1>5. NothingCounted
  BY <1>1, <1>2, <1>3, <1>4, Zenon DEF NothingCounted, Injecting
<1>6. Alone' /\ HookInTick'
  BY <1>1 DEF CpuInv, Alone, HookInTick, HookStage, InTick, Injecting, Active
<1> QED BY <1>5, <1>6, NothingCountedInv

-----------------------------------------------------------------------------
(* Steps that count an event.                                              *)

\* An event k of p on the core c of the tick.  Only ticks may be the first event
\* that is counted on a core.
LEMMA CountedInv ==
  ASSUME CpuInv, NEW p \in Pcb, NEW c \in Core, NEW k \in Counter, NEW n \in Nat,
         CountEvent(p, c, k, n, CountOn(ThreadOf(p), c, k, n)),
         running[c] = p, UNCHANGED <<mode, running>>, CpuTypeOK', IInv', HookInTick',
         k = Ticks \/ c \in CoresOf(p),
         \A q \in Pcb, d \in Core :
           q # p \/ d # c => ~Lead(q, d) /\ ~Lead(q, d)' /\ ~Owes(q, d)' /\ ~OwesTwo(q, d)',
         StepOf(p, c)',
         \A d \in Core \ {c} : ~InTick(d, {"end"})
  PROVE  CpuInv'
<1>0. IInv
  BY DEF CpuInv
<1>1. \A j \in {Fetched, Decoded, Executed} : j \in Counter /\ (j = k => c \in CoresOf(p))
  BY DEF Counter, Fetched, Decoded, Executed, Ticks
<1>5. \A q \in Pcb : Active(q)' => Active(q) /\ (q # p => Kept(q))
  BY <1>0, CountEffect, Zenon
<1>6. Exact'
  <2> SUFFICES ASSUME NEW q \in Pcb, NEW d \in Core, NEW j \in {Fetched, Decoded, Executed},
                      Active(q)'
               PROVE  CntOf(q, d, j)' = RanOf(q, d, j)'
    BY DEF Exact
  <2>1. CntOf(q, d, j) = RanOf(q, d, j)
    BY <1>5 DEF CpuInv, Exact
  <2>2. CASE q # p
    BY <1>5, <2>1, <2>2, KeptCounts
  <2>3. CASE q = p
    BY <1>0, <1>1, <2>1, <2>3, Counted
  <2> QED BY <2>2, <2>3
<1>7. InStep'
  <2> SUFFICES ASSUME NEW q \in Pcb, NEW d \in Core, Active(q)'
               PROVE  StepOf(q, d)'
    BY DEF InStep
  <2>1. CASE q = p /\ d = c
    BY <2>1, Zenon
  <2>2. CASE q # p \/ d # c
    <3>1. \A j \in {Fetched, Decoded, Executed} : CntOf(q, d, j)' = CntOf(q, d, j)
      <4>1. CASE q # p
        BY <1>5, <4>1, KeptCounts
      <4>2. CASE q = p
        BY <1>0, <1>1, <2>2, <4>2, Counted
      <4> QED BY <4>1, <4>2
    <3>2. StepOf(q, d)
      BY <1>5 DEF CpuInv, InStep
    <3>3. ~Lead(q, d) /\ ~Lead(q, d)' /\ ~Owes(q, d)' /\ ~OwesTwo(q, d)'
      BY <2>2
    <3>4. \A j \in {Fetched, Decoded, Executed} : CntOf(q, d, j) \in Nat
      BY <1>0, <1>1, <1>5, CountsNat
    <3> QED BY <3>1, <3>2, <3>3, <3>4 DEF StepOf, Fetched, Decoded, Executed
  <2> QED BY <2>1, <2>2
<1>8. SeenOn'
  <2> SUFFICES ASSUME NEW d \in Core, Injecting(d)'
               PROVE  d \in CoresOf(running[d])'
    BY DEF SeenOn
  <2>1. PICK q \in Pcb : /\ running[d] = q /\ mode[d] = "user" /\ Active(q)'
                         /\ Active(q) => Injecting(d)
                         /\ CoresOf(running[d]) = CoresOf(q)
                         /\ CoresOf(running[d])' = CoresOf(q)'
    BY NextRunnerOf, Zenon
  <2>3. CASE d = c
    <3>1. CoresOf(p)' = CoresOf(p) \cup {c}
      BY <1>0, Counted
    <3> QED BY <2>1, <2>3, <3>1, Zenon
  <2>4. CASE d # c
    <3>1. q # p
      BY <2>1, <2>4, Zenon DEF CpuInv, Alone
    <3>2. Kept(q) /\ Injecting(d)
      BY <1>5, <2>1, <3>1, Zenon
    <3>3. ~InTick(d, {"end"})
      BY <2>4, Zenon
    <3>4. d \in CoresOf(q)
      BY <2>1, <3>2, <3>3, Zenon DEF CpuInv, SeenOn
    <3>5. d \in CoresOf(q)'
      BY <3>2, <3>4, KeptCores, Zenon
    <3> QED BY <2>1, <3>5, Zenon
  <2> QED BY <2>3, <2>4
<1>9. Alone'
  BY Zenon DEF CpuInv, Alone
<1> QED BY <1>6, <1>7, <1>8, <1>9 DEF CpuInv

\* A hook returns.
LEMMA EndHookInv ==
  ASSUME CpuInv, EndHook, UNCHANGED cvars, CpuTypeOK', IInv'
  PROVE  CpuInv'
<1>1. hook # NoHook
  BY DEF EndHook
<1>2. PICK c \in Core, p \in Pcb : c = hook.core /\ p = hook.pcb
  BY <1>1, HookIsHook DEF CpuInv, CpuTypeOK, InjTypeOK
<1>3. hook # NoHook /\ hook' = NoHook /\ UNCHANGED <<mode, running, tick>>
  BY DEF EndHook, cvars
<1>4. /\ running[c] = p /\ Injecting(c) /\ Active(p) /\ mode[c] = "user"
      /\ tick # NoTick /\ tick.core = c /\ tick.stage \in TickStage \ {"end"}
      /\ hook.stage = HookStage[tick.stage]
  BY <1>2, <1>3 DEF CpuInv, HookInTick, InTick, HookStage, Injecting
<1>5. HookInTick'
  BY <1>3 DEF HookInTick
<1>6. Alone'
  BY <1>3 DEF CpuInv, Alone
<1>7. c \in CoresOf(p)
  <2>1. ~InTick(c, {"end"})
    BY <1>4 DEF InTick
  <2> QED BY <1>4, <2>1 DEF CpuInv, SeenOn
<1>8. StepOf(p, c)
  BY <1>4 DEF CpuInv, InStep
<1>9. CASE tick.stage = "main"
  <2>1. UNCHANGED tvars
    BY <1>4, <1>9 DEF EndHook, HookStage
  <2>2. \A q \in Pcb : (Active(q)' <=> Active(q)) /\ (Active(q) => Kept(q))
    BY <2>1, SameTable DEF tvars
  <2>3. \A q, d : ~Lead(q, d) /\ ~Lead(q, d)' /\ ~Owes(q, d)' /\ ~OwesTwo(q, d)'
    BY <1>3, <1>9 DEF Lead, Owes, OwesTwo, InTick
  <2>4. \A d : (Injecting(d)' <=> Injecting(d)) /\ (InTick(d, {"end"})' <=> InTick(d, {"end"}))
    BY <1>3, <2>1, Zenon DEF tvars, Injecting, Active, InTick
  <2>5. NothingCounted
    BY <1>3, <2>2, <2>3, <2>4 DEF NothingCounted, Injecting
  <2> QED BY <1>5, <1>6, <2>5, NothingCountedInv
<1>10. ASSUME NEW k \in {Fetched, Decoded, Executed},
             CountEvent(p, c, k, 1, CountOn(ThreadOf(p), c, k, 1)),
             k = CASE tick.stage = "fetch" -> Fetched
                   [] tick.stage = "decode" -> Decoded
                   [] tick.stage \in {"execute", "postacc"} -> Executed,
             tick.stage # "main"
      PROVE  CpuInv'
  <2>0. CountEvent(p, c, k, 1, CountOn(ThreadOf(p), c, k, 1))
    BY <1>10, ZenonT(40)
  <2>1. k \in Counter /\ {Fetched, Decoded, Executed} \subseteq Counter /\ IInv
    BY DEF Counter, CpuInv
  <2>2. \A j \in {Fetched, Decoded, Executed} :
          /\ CntOf(p, c, j) \in Nat
          /\ CntOf(p, c, j)' = CntOf(p, c, j) + (IF j = k THEN 1 ELSE 0)
    BY <1>7, <2>0, <2>1, Counted
  <2>3. \A q \in Pcb, d \in Core :
          q # p \/ d # c => ~Lead(q, d) /\ ~Lead(q, d)' /\ ~Owes(q, d)' /\ ~OwesTwo(q, d)'
    BY <1>3, <1>4, Zenon DEF Lead, Owes, OwesTwo, InTick
  <2>4. \A d \in Core \ {c} : ~InTick(d, {"end"})
    BY <1>4 DEF InTick
  <2>5. /\ Lead(p, c) <=> tick.stage = "decode"
        /\ Lead(p, c)' <=> tick.stage = "fetch"
        /\ OwesTwo(p, c) <=> tick.stage = "execute"
        /\ OwesTwo(p, c)' <=> tick.stage = "decode"
        /\ Owes(p, c) <=> tick.stage \in {"execute", "postacc"}
        /\ Owes(p, c)' <=> tick.stage \in {"execute", "decode"}
    BY <1>3, <1>4, Zenon DEF Lead, Owes, OwesTwo, InTick
  <2>6. StepOf(p, c)'
    <3>1. \/ tick.stage = "fetch" /\ k = Fetched
          \/ tick.stage = "decode" /\ k = Decoded
          \/ tick.stage \in {"execute", "postacc"} /\ k = Executed
      BY <1>4, <1>10 DEF TickStage
    <3> QED BY <1>8, <2>2, <2>5, <3>1 DEF StepOf, Fetched, Decoded, Executed
  <2> QED BY <1>3, <1>4, <1>5, <1>7, <1>10, <2>1, <2>3, <2>4, <2>6, CountedInv, Zenon
<1>11. CASE tick.stage = "fetch"
  <2>1. CountEvent(p, c, Fetched, 1, CountOn(ThreadOf(p), c, Fetched, 1))
    BY <1>2, <1>4, <1>11
       DEF EndHook, HookStage, increase_instr_fetched, increaseFetchedInstr
  <2> QED BY <1>10, <1>11, <2>1
<1>12. CASE tick.stage = "decode"
  <2>1. CountEvent(p, c, Decoded, 1, CountOn(ThreadOf(p), c, Decoded, 1))
    BY <1>2, <1>4, <1>12
       DEF EndHook, HookStage, increase_instr_decoded, increaseDecodedInstr
  <2> QED BY <1>10, <1>12, <2>1
<1>13. CASE tick.stage \in {"execute", "postacc"}
  <2>1. CountEvent(p, c, Executed, 1, CountOn(ThreadOf(p), c, Executed, 1))
    BY <1>2, <1>4, <1>13
       DEF EndHook, HookStage, increase_instr_executed, increaseExecutedInstr
  <2> QED BY <1>10, <1>13, <2>1
<1> QED BY <1>4, <1>9, <1>11, <1>12, <1>13 DEF TickStage

\* The ticks of the instruction are charged.
LEMMA EndTickInv ==
  ASSUME CpuInv, EndTick, CpuTypeOK', IInv'
  PROVE  CpuInv'
<1>1. /\ tick # NoTick /\ tick' = NoTick /\ tick.stage \in {"end", "execute", "postacc"}
      /\ hook = NoHook /\ UNCHANGED <<mode, running>>
  BY DEF EndTick, At
<1>2. PICK c \in Core : c = tick.core
  BY <1>1, TickCore DEF CpuInv
<1>3. hook' = NoHook
  BY <1>1, <1>2, Zenon DEF EndTick, Elsewhere, fvars, ivars
<1>4. HookInTick' /\ Alone'
  BY <1>1, <1>3 DEF HookInTick, CpuInv, Alone
<1>5. \A q, d : ~Lead(q, d) /\ ~Lead(q, d)' /\ ~Owes(q, d)' /\ ~OwesTwo(q, d)'
  BY <1>1, <1>3 DEF Lead, Owes, OwesTwo, InTick
<1>6. CASE ~Injecting(c)
  <2>1. UNCHANGED <<fi_activation, threadList, ran>>
    BY <1>2, <1>6 DEF EndTick, ivars, tvars
  <2>2. \A q \in Pcb : (Active(q)' <=> Active(q)) /\ (Active(q) => Kept(q))
    BY <2>1, SameTable
  <2>3. \A d : Injecting(d)' <=> Injecting(d)
    BY <1>1, <2>1 DEF Injecting, Active
  <2>4. \A d : d # c => ~InTick(d, {"end"})
    BY <1>2 DEF InTick
  <2>5. NothingCounted
    BY <1>1, <1>5, <1>6, <2>2, <2>3, <2>4, ZenonT(40) DEF NothingCounted, Injecting
  <2> QED BY <1>4, <2>5, NothingCountedInv
<1>7. CASE Injecting(c)
  <2>1. PICK p \in Pcb : p = running[c] /\ Active(p)
    BY <1>7 DEF Injecting
  <2>2. PICK n \in Latency : increase_ticks(p, c, n)
    BY <1>2, <1>7, <2>1 DEF EndTick, Elsewhere
  <2>3. n \in Nat /\ CountEvent(p, c, Ticks, n, CountOn(ThreadOf(p), c, Ticks, n))
    BY <2>2, LatencyAssumption DEF increase_ticks, increaseTicks
  <2>4. IInv /\ Ticks \in Counter
    BY DEF CpuInv, Counter
  <2>5. \A j \in {Fetched, Decoded, Executed} :
          CntOf(p, c, j) \in Nat /\ CntOf(p, c, j)' = CntOf(p, c, j)
    <3>1. \A j \in {Fetched, Decoded, Executed} : j \in Counter /\ j # Ticks
      BY DEF Counter, Fetched, Decoded, Executed, Ticks
    <3> QED BY <2>3, <2>4, <3>1, Counted
  <2>6. StepOf(p, c)'
    <3>1. StepOf(p, c)
      BY <2>1 DEF CpuInv, InStep
    <3> QED BY <1>5, <2>5, <3>1 DEF StepOf, Fetched, Decoded, Executed
  <2>7. \A d \in Core \ {c} : ~InTick(d, {"end"})
    BY <1>2 DEF InTick
  <2> QED BY <1>1, <1>4, <1>5, <2>1, <2>3, <2>4, <2>6, <2>7, CountedInv, Zenon
<1> QED BY <1>6, <1>7

-----------------------------------------------------------------------------

LEMMA CpuInitInv == CpuInit => CpuInv
<1> SUFFICES ASSUME CpuInit PROVE CpuInv
  OBVIOUS
<1>1. CpuTypeOK /\ IInv
  BY CpuInitType, InitInv DEF CpuInit, InjInit
<1>2. \A p \in Pcb : ~Active(p)
  BY DEF CpuInit, InjInit, Init, Active
<1>3. hook = NoHook /\ \A c \in Core : running[c] \notin Pcb
  BY NoPcbAssumption DEF CpuInit, InjInit
<1> QED
  BY <1>1, <1>2, <1>3
     DEF CpuInv, Alone, HookInTick, SeenOn, Injecting, Exact, InStep

LEMMA CpuNextInv == Liberty = {} /\ CpuInv /\ [CpuNext]_avars => CpuInv'
<1> SUFFICES ASSUME Liberty = {}, CpuInv, [CpuNext]_avars PROVE CpuInv'
  OBVIOUS
<1>1. CpuTypeOK'
  BY CpuNextType DEF CpuInv
<1>2. IInv'
  <2>1. [InjNext]_ivars
    BY CpuStepImplements DEF CpuInv
  <2>2. [Next]_tvars
    BY <2>1, StepImplements DEF CpuInv, CpuTypeOK, InjTypeOK
  <2> QED BY <2>2, NextInv DEF CpuInv
<1>3. ASSUME NEW c \in Core, StartTick(c) PROVE CpuInv'
  <2>1. CallHook(HookStage["main"], c)
    BY <1>3 DEF StartTick, HookStage, TickStage
  <2> QED BY <1>1, <1>2, <1>3, <2>1, HookCallInv DEF StartTick, TickStage
<1>4. ASSUME Fetch \/ Decode \/ ExecuteWithHook \/ StoreConditional PROVE CpuInv'
  <2>1. tick # NoTick
    BY <1>4 DEF Fetch, Decode, ExecuteWithHook, StoreConditional, At
  <2>2. tick \in [stage : TickStage, core : Core] /\ tick.core \in Core
    BY <2>1, TickCore DEF CpuInv
  <2>3. \A s : Go(s) => tick' = [stage |-> s, core |-> tick.core]
    BY <2>2 DEF Go
  <2>4. PICK c \in Core : c = tick.core
    BY <2>2, Zenon
  <2>5. CASE Fetch
    <3>1. CallHook(HookStage["fetch"], c)
      BY <2>4, <2>5 DEF Fetch, HookStage, TickStage
    <3> QED BY <1>1, <1>2, <2>1, <2>3, <2>4, <2>5, <3>1, HookCallInv DEF Fetch, At, TickStage
  <2>6. CASE Decode
    <3>1. CallHook(HookStage["decode"], c)
      BY <2>4, <2>6 DEF Decode, HookStage, TickStage
    <3> QED BY <1>1, <1>2, <2>1, <2>3, <2>4, <2>6, <3>1, HookCallInv DEF Decode, At, TickStage
  <2>7. CASE ExecuteWithHook
    <3>1. CallHook(HookStage["execute"], c)
      BY <2>4, <2>7 DEF ExecuteWithHook, HookStage, TickStage
    <3> QED BY <1>1, <1>2, <2>1, <2>3, <2>4, <2>7, <3>1, HookCallInv
            DEF ExecuteWithHook, At, TickStage
  <2>8. CASE StoreConditional
    <3>1. CallHook(HookStage["postacc"], c)
      BY <2>4, <2>8 DEF StoreConditional, HookStage, TickStage
    <3> QED BY <1>1, <1>2, <2>1, <2>3, <2>4, <2>8, <3>1, HookCallInv
            DEF StoreConditional, At, TickStage
  <2> QED BY <1>4, <2>5, <2>6, <2>7, <2>8
<1>5. ASSUME Inside PROVE CpuInv'
  <2>1. CASE EndHook
    BY <1>1, <1>2, <1>5, <2>1, EndHookInv DEF Inside
  <2>2. ASSUME getFromFile \/ \E f \in Fault : Manifest(f) PROVE CpuInv'
    <3>1. UNCHANGED <<tvars, hook, cvars>>
      BY <1>5, <2>2, Zenon DEF Inside, getFromFile, Manifest
    <3> QED BY <1>1, <1>2, <3>1, IdleInv
  <2> QED BY <1>5, <2>1, <2>2 DEF Inside, HookStep
<1>6. ASSUME UNCHANGED avars PROVE CpuInv'
  BY <1>1, <1>2, <1>6, IdleInv DEF avars, ivars, fvars
<1> QED
  BY <1>1, <1>2, <1>3, <1>4, <1>5, <1>6, PlainInv, PseudoInv, EndTickInv DEF CpuNext, TickStep

\* The counters of fetched, decoded and executed instructions of a thread are
\* exact on every core when the atomic CPU drives the hooks (atomic.cc:442-580),
\* although the thread table loses the first event of a thread on a core.
THEOREM InstructionCountsExact ==
  ASSUME Liberty = {}
  PROVE  CpuSpec => []StageCountsExact
<1>1. CpuInv => StageCountsExact
  BY Zenon DEF CpuInv, Exact, StageCountsExact, CntOf, RanOf
<1>2. CpuInv /\ [CpuNext]_avars => CpuInv'
  BY CpuNextInv
<1> QED BY <1>1, <1>2, CpuInitInv, PTL DEF CpuSpec

\* Between ticks every fetched instruction of an active thread has been decoded, core
\* by core, and the executed instructions are at most twice as many: iew_fault counts a
\* store conditional for its address and its result (mem.isa:313, decoder.isa:77, 93).
THEOREM StagesKeepStep ==
  ASSUME Liberty = {}
  PROVE  CpuSpec => []StagesInStep
<1>1. CpuInv => StagesInStep
  <2> SUFFICES ASSUME CpuInv, tick = NoTick, NEW p \in Pcb, Active(p), NEW c \in Core
               PROVE  /\ CntOf(p, c, Decoded) = CntOf(p, c, Fetched)
                      /\ CntOf(p, c, Executed) <= 2 * CntOf(p, c, Decoded)
    BY Zenon DEF StagesInStep, CntOf
  <2>1. StepOf(p, c) /\ ~Lead(p, c)
    BY DEF CpuInv, InStep, Lead, InTick
  <2>2. {Fetched, Decoded, Executed} \subseteq Counter
    BY DEF Counter
  <2>3. \A k \in Counter : CntOf(p, c, k) \in Nat
    BY CountsNat DEF CpuInv
  <2> QED BY <2>1, <2>2, <2>3 DEF StepOf
<1>2. CpuInv /\ [CpuNext]_avars => CpuInv'
  BY CpuNextInv
<1> QED BY <1>1, <1>2, CpuInitInv, PTL DEF CpuSpec
=============================================================================
