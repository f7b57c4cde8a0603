----------------------------- MODULE O3CPUProofs -----------------------------
(***************************************************************************)
(* Proofs that the out-of-order CPU model keeps its types and uses the     *)
(* injector as FaultInjector allows, for any number of cores, any width of *)
(* the fetch stage and any number of instructions in flight.  What is      *)
(* proved of the injector thus holds on this CPU, too.  Under the intended *)
(* use of the pseudo instructions its fetched and decoded instructions are *)
(* counted exactly and in step.                                            *)
(***************************************************************************)
EXTENDS O3CPU, FaultInjectorProofs

LEMMA O3CallHookImplements ==
  ASSUME NEW s \in Stage, NEW c \in Core, CallHook(s, c)
  PROVE  [InjNext]_ivars
<1>1. CASE Injecting(c)
  <2>1. PICK pc \in Addr : BeginHook(s, c, running[c], pc)
    BY <1>1 DEF CallHook
  <2>2. running[c] \in Pcb
    BY <1>1 DEF Injecting
  <2> QED BY <2>1, <2>2 DEF InjNext
<1>2. CASE ~Injecting(c)
  BY <1>2 DEF CallHook, Elsewhere, ivars
<1> QED BY <1>1, <1>2

LEMMA CycleCore ==
  ASSUME O3TypeOK, cycle # NoCycle
  PROVE  /\ cycle \in [stage : {"loop", "main", "fetch", "decode"}, core : Core,
                       num : 0 .. FetchWidth - 1]
         /\ cycle.core \in Core /\ cycle.num \in 0 .. FetchWidth - 1
BY DEF O3TypeOK

\* A step of the CPU is a step of the injector, or leaves it alone.
LEMMA O3StepImplements ==
  ASSUME O3TypeOK, [O3Next]_ovars
  PROVE  [InjNext]_ivars
<1>1. ASSUME NEW c \in Core, BeginFetch(c) PROVE [InjNext]_ivars
  <2>1. CASE Injecting(c)
    <3>1. Elsewhere(increase_ticks(running[c], c, CpuTicks))
      BY <1>1, <2>1 DEF BeginFetch
    <3>2. running[c] \in Pcb /\ CpuTicks \in Latency
      BY <2>1, O3Assumption DEF Injecting
    <3> QED BY <3>1, <3>2 DEF InjNext
  <2>2. CASE ~Injecting(c)
    BY <1>1, <2>2 DEF BeginFetch
  <2> QED BY <2>1, <2>2
<1>2. ASSUME NextInst \/ Fetch \/ Decode PROVE [InjNext]_ivars
  <2>1. cycle.core \in Core
    BY <1>2, CycleCore DEF NextInst, Fetch, Decode, At
  <2> QED BY <1>2, <2>1, O3CallHookImplements DEF NextInst, Fetch, Decode, Stage
<1>3. ASSUME NEW c \in Core, NEW i, Execute(c, i) PROVE [InjNext]_ivars
  BY <1>3, O3CallHookImplements DEF Execute, Stage
<1>4. ASSUME NEW c \in Core, CommitPseudo(c) PROVE [InjNext]_ivars
  <2>1. running[c] \in Pcb
    BY <1>4 DEF CommitPseudo
  <2>2. \/ \E id \in ThreadId, a \in Addr : Elsewhere(fi_activate_inst(running[c], id, a))
        \/ \E a \in Addr : Elsewhere(get_Pc_address(running[c], a))
        \/ Reset
    BY <1>4 DEF CommitPseudo
  <2> QED BY <2>1, <2>2 DEF InjNext
<1>5. ASSUME Inside PROVE [InjNext]_ivars
  BY <1>5 DEF Inside, InjNext
<1>6. ASSUME \/ Break
             \/ \E x \in {"op", "pseudo"} : BuildInst(x)
             \/ \E c \in Core : finishTranslation(c) \/ Commit(c) \/ CommitMode(c)
             \/ \E c \in Core, i \in 1 .. Window : Reschedule(c, i)
             \/ \E c \in Core, i \in 0 .. Window : Squash(c, i)
             \/ \E c \in Core, p \in Pcb \cup {NoPcb} : CommitContext(c, p)
      PROVE  UNCHANGED ivars
  BY <1>6, Zenon DEF Break, BuildInst, finishTranslation, Commit, CommitMode, Reschedule, Squash,
                     CommitContext
<1>7. ASSUME UNCHANGED ovars PROVE [InjNext]_ivars
  BY <1>7 DEF ovars
<1> QED BY <1>1, <1>2, <1>3, <1>4, <1>5, <1>6, <1>7, Zenon DEF O3Next, CycleStep

-----------------------------------------------------------------------------
(* The types.  That an instruction fetched in a cycle has room in the      *)
(* window follows from the room the cycle has found when it began.         *)

RoomLeft ==
  cycle # NoCycle => Len(flight[cycle.core]) + (FetchWidth - cycle.num) <= Window

O3Inv == O3TypeOK /\ RoomLeft

Flights == [Core -> Seq(Inst)]
Cycles == [stage : {"loop", "main", "fetch", "decode"}, core : Core, num : 0 .. FetchWidth - 1]

LEMMA O3InitInv == O3Init => O3Inv
BY InjInitType, O3Assumption DEF O3Init, O3Inv, O3TypeOK, RoomLeft, Inst

\* One core's instructions are replaced by fewer, or by one more that has room.
LEMMA FlightChanged ==
  ASSUME O3TypeOK, NEW c \in Core, NEW s \in Seq(Inst), Len(s) <= Window,
         flight' = [flight EXCEPT ![c] = s]
  PROVE  flight' \in Flights /\ \A d \in Core : Len(flight'[d]) <= Window
BY DEF O3TypeOK, Flights

LEMMA O3NextInv == O3Inv /\ [O3Next]_ovars => O3Inv'
<1> SUFFICES ASSUME O3Inv, [O3Next]_ovars PROVE O3Inv'
  OBVIOUS
<1>0. O3TypeOK
  BY DEF O3Inv
<1>1. InjTypeOK'
  BY <1>0, O3StepImplements, InjNextType DEF O3TypeOK
<1>2. mode' \in [Core -> {"user", "kernel"}] /\ running' \in [Core -> Pcb \cup {NoPcb}]
  BY <1>0, Zenon DEF O3TypeOK, O3Next, CycleStep, BeginFetch, finishTranslation, NextInst, Break, Fetch,
       Decode, BuildInst, Inside, Execute, Reschedule, Squash, Commit, CommitMode, CommitPseudo,
       CommitContext, pvars, ovars
<1>3. SUFFICES /\ flight' \in Flights /\ \A d \in Core : Len(flight'[d]) <= Window
               /\ cycle' \in Cycles \cup {NoCycle}
               /\ RoomLeft'
  BY <1>1, <1>2 DEF O3Inv, O3TypeOK, Flights, Cycles
<1>4. /\ flight \in Flights /\ \A d \in Core : Len(flight[d]) <= Window
      /\ cycle \in Cycles \cup {NoCycle} /\ RoomLeft
      /\ FetchWidth \in Nat \ {0} /\ Window \in Nat
  BY O3Assumption DEF O3Inv, O3TypeOK, Flights, Cycles
<1>5. CASE UNCHANGED <<flight, cycle>>
  BY <1>4, <1>5 DEF RoomLeft
<1>6. ASSUME NEW c \in Core, BeginFetch(c)
      PROVE  flight' = flight /\ cycle' \in Cycles /\ RoomLeft'
  <2>1. flight' = flight /\ cycle' = [stage |-> "loop", core |-> c, num |-> 0]
    BY <1>6 DEF BeginFetch
  <2>2. Len(flight[c]) + FetchWidth <= Window
    BY <1>6 DEF BeginFetch
  <2>3. cycle'.core = c /\ cycle'.num = 0
    BY <2>1
  <2> QED BY <1>4, <2>1, <2>2, <2>3 DEF Cycles, RoomLeft
<1>7. ASSUME NextInst \/ Fetch \/ Decode
      PROVE  flight' = flight /\ cycle' \in Cycles /\ RoomLeft'
  <2>1. cycle # NoCycle /\ flight' = flight
    BY <1>7 DEF NextInst, Fetch, Decode, At
  <2>2. PICK s \in {"main", "fetch", "decode"} : cycle' = [cycle EXCEPT !.stage = s]
    BY <1>7 DEF NextInst, Fetch, Decode
  <2>3. cycle \in Cycles
    BY <1>4, <2>1
  <2>4. cycle' \in Cycles /\ cycle'.core = cycle.core /\ cycle'.num = cycle.num
    BY <2>2, <2>3 DEF Cycles
  <2> QED BY <1>4, <2>1, <2>4 DEF RoomLeft
<1>8. ASSUME Break PROVE flight' = flight /\ cycle' = NoCycle
  BY <1>8 DEF Break
<1>9. ASSUME NEW x \in {"op", "pseudo"}, BuildInst(x)
      PROVE  /\ flight' \in Flights /\ \A d \in Core : Len(flight'[d]) <= Window
             /\ cycle' \in Cycles \cup {NoCycle} /\ RoomLeft'
  <2>1. cycle # NoCycle /\ cycle \in Cycles
    BY <1>4, <1>9 DEF BuildInst, At
  <2>2. cycle.core \in Core /\ cycle.num \in 0 .. FetchWidth - 1
    BY <2>1 DEF Cycles
  <2>3. Len(flight[cycle.core]) + (FetchWidth - cycle.num) <= Window
    BY <1>4, <2>1 DEF RoomLeft
  <2> DEFINE s == Append(flight[cycle.core], x)
  <2>4. s \in Seq(Inst) /\ Len(s) = Len(flight[cycle.core]) + 1 /\ Len(flight[cycle.core]) \in Nat
    BY <1>4, <2>2 DEF Flights, Inst
  <2>5. flight' = [flight EXCEPT ![cycle.core] = s]
    BY <1>9 DEF BuildInst
  <2> HIDE DEF s
  <2>6. Len(s) <= Window
    BY <1>4, <2>2, <2>3, <2>4
  <2>7. flight' \in Flights /\ \A d \in Core : Len(flight'[d]) <= Window
    BY <1>0, <2>2, <2>4, <2>5, <2>6, FlightChanged, Zenon
  <2>8. CASE cycle' = NoCycle
    BY <2>7, <2>8 DEF RoomLeft
  <2>9. CASE cycle' # NoCycle
    <3>1. cycle' = Continued(cycle.num + 1)
      BY <1>9, <2>9 DEF BuildInst
    <3>2. /\ cycle.num + 1 < FetchWidth
          /\ cycle' = [cycle EXCEPT !.stage = "loop", !.num = cycle.num + 1]
      BY <2>9, <3>1 DEF Continued
    <3> DEFINE n == cycle.num + 1
    <3>a. n \in 0 .. FetchWidth - 1
      BY <1>4, <2>2, <3>2
    <3>b. cycle' = [cycle EXCEPT !.stage = "loop", !.num = n]
      BY <3>2
    <3> HIDE DEF n
    <3>3. cycle' \in Cycles /\ cycle'.core = cycle.core /\ cycle'.num = n
      BY <2>1, <3>a, <3>b, Zenon DEF Cycles
    <3>4. flight'[cycle.core] = s
      BY <1>4, <2>2, <2>5 DEF Flights
    <3>5. Len(s) + (FetchWidth - n) <= Window
      <4>1. ASSUME NEW a \in Nat, NEW b, b = a + 1, NEW m \in 0 .. FetchWidth - 1,
                   a + (FetchWidth - m) <= Window
            PROVE  b + (FetchWidth - (m + 1)) <= Window
        BY <4>1, O3Assumption
      <4> QED BY <2>2, <2>3, <2>4, <4>1, Zenon DEF n
    <3>6. RoomLeft'
      BY <3>3, <3>4, <3>5 DEF RoomLeft
    <3> QED BY <2>7, <3>3, <3>6
  <2> QED BY <2>8, <2>9
<1>10. ASSUME NEW c \in Core, NEW s \in Seq(Inst), Len(s) <= Window,
              flight' = [flight EXCEPT ![c] = s], cycle' = NoCycle
       PROVE  /\ flight' \in Flights /\ \A d \in Core : Len(flight'[d]) <= Window
              /\ cycle' \in Cycles \cup {NoCycle} /\ RoomLeft'
  BY <1>0, <1>10, FlightChanged, Zenon DEF RoomLeft
<1>11. ASSUME NEW c \in Core PROVE flight[c] \in Seq(Inst) /\ Len(flight[c]) <= Window
  BY <1>4, <1>11 DEF Flights
<1>12. ASSUME NEW c \in Core, finishTranslation(c)
       PROVE  \E s \in Seq(Inst) :
                Len(s) <= Window /\ flight' = [flight EXCEPT ![c] = s] /\ cycle' = NoCycle
  <2>1. Append(flight[c], "fault") \in Seq(Inst) /\ Len(Append(flight[c], "fault")) <= Window
    BY <1>4, <1>11, <1>12 DEF finishTranslation, Inst
  <2> QED BY <1>12, <2>1, Zenon DEF finishTranslation
<1>13. ASSUME NEW c \in Core, NEW i, Execute(c, i) \/ Reschedule(c, i)
       PROVE  \E s \in Seq(Inst) :
                Len(s) <= Window /\ flight' = [flight EXCEPT ![c] = s] /\ cycle' = NoCycle
  <2>1. PICK x \in Inst : flight' = [flight EXCEPT ![c][i] = x]
    BY <1>13 DEF Execute, Reschedule, Inst
  <2>2. i \in DOMAIN flight[c] /\ cycle' = NoCycle
    BY <1>13 DEF Execute, Reschedule, Between
  <2> DEFINE s == [flight[c] EXCEPT ![i] = x]
  <2>3. s \in Seq(Inst) /\ Len(s) = Len(flight[c])
    BY <1>11, <2>2
  <2>4. flight' = [flight EXCEPT ![c] = s]
    BY <2>1
  <2> HIDE DEF s
  <2> QED BY <1>11, <2>2, <2>3, <2>4, Zenon
<1>14. ASSUME NEW c \in Core, NEW i \in 0 .. Window, Squash(c, i)
       PROVE  \E s \in Seq(Inst) :
                Len(s) <= Window /\ flight' = [flight EXCEPT ![c] = s] /\ cycle' = NoCycle
  <2>1. /\ i \in 0 .. Len(flight[c]) - 1 /\ cycle' = NoCycle
        /\ flight' = [flight EXCEPT ![c] = SubSeq(flight[c], 1, i)]
    BY <1>14 DEF Squash, Between
  <2>2. SubSeq(flight[c], 1, i) \in Seq(Inst) /\ Len(SubSeq(flight[c], 1, i)) <= Window
    BY <1>4, <1>11, <2>1
  <2> QED BY <2>1, <2>2, Zenon
<1>15. ASSUME NEW c \in Core,
              \/ Commit(c) \/ CommitMode(c) \/ CommitPseudo(c)
              \/ \E p \in Pcb \cup {NoPcb} : CommitContext(c, p)
       PROVE  \E s \in Seq(Inst) :
                Len(s) <= Window /\ flight' = [flight EXCEPT ![c] = s] /\ cycle' = NoCycle
  <2>1. \E x \in Inst : Retires(c, x)
    BY <1>15 DEF Commit, CommitMode, CommitPseudo, CommitContext, Inst
  <2>2. /\ flight[c] # <<>> /\ cycle' = NoCycle
        /\ flight' = [flight EXCEPT ![c] = Tail(flight[c])]
    BY <2>1 DEF Retires, Between
  <2>3. Tail(flight[c]) \in Seq(Inst) /\ Len(Tail(flight[c])) <= Window
    BY <1>4, <1>11, <2>2
  <2> QED BY <2>2, <2>3, Zenon
<1>16. ASSUME Inside \/ UNCHANGED ovars PROVE UNCHANGED <<flight, cycle>>
  BY <1>16 DEF Inside, pvars, ovars
<1>17. ASSUME NextInst \/ Fetch \/ Decode \/ Break \/ \E c \in Core : BeginFetch(c)
       PROVE  /\ flight' \in Flights /\ \A d \in Core : Len(flight'[d]) <= Window
              /\ cycle' \in Cycles \cup {NoCycle} /\ RoomLeft'
  <2>1. CASE Break
    BY <1>4, <1>8, <2>1 DEF RoomLeft
  <2> QED BY <1>4, <1>6, <1>7, <1>17, <2>1
<1>18. ASSUME NEW c \in Core,
              \E s \in Seq(Inst) :
                Len(s) <= Window /\ flight' = [flight EXCEPT ![c] = s] /\ cycle' = NoCycle
       PROVE  /\ flight' \in Flights /\ \A d \in Core : Len(flight'[d]) <= Window
              /\ cycle' \in Cycles \cup {NoCycle} /\ RoomLeft'
  BY <1>10, <1>18, Zenon
<1> QED BY <1>5, <1>9, <1>12, <1>13, <1>14, <1>15, <1>16, <1>17, <1>18, Zenon DEF O3Next, CycleStep

\* The state of the CPU model keeps its types, however wide the fetch stage is: a cycle
\* never brings more instructions into the pipeline than there is room for.
THEOREM O3TypeCorrect == O3Spec => []O3TypeOK
<1>1. O3Inv => O3TypeOK
  BY DEF O3Inv
<1> QED BY <1>1, O3InitInv, O3NextInv, PTL DEF O3Spec

\* The fetch, execute and commit stages (fetch_impl.hh:1127-1389) use the fault injector
\* as FaultInjector allows.
THEOREM O3InjectorImplemented == O3Spec => O3ImplementsInjector
<1>1. O3Init => InjInit
  BY DEF O3Init
<1>2. O3TypeOK /\ [O3Next]_ovars => [InjNext]_ivars
  BY O3StepImplements
<1> QED BY <1>1, <1>2, O3TypeCorrect, PTL DEF O3Spec, InjSpec, O3ImplementsInjector

\* On this CPU, too, a call of a hook manifests a fault at most once, and no fault
\* manifests more often than its file says, whatever is squashed and executed again.
THEOREM O3FaultsBounded == O3Spec => [](OncePerHook /\ OccurrenceBudget)
<1> QED BY O3InjectorImplemented, ManifestsOncePerHook, BudgetKept, PTL DEF O3ImplementsInjector

-----------------------------------------------------------------------------
(* The counters of fetched and decoded instructions.  The event that a     *)
(* core loses when it first sees a thread is never one of them, because    *)
(* the ticks of a cycle are charged before its hooks are called and the    *)
(* mode and the PCB do not change in a cycle (SeenInCycle).                *)

HookInCycle ==
  hook # NoHook =>
    /\ Injecting(hook.core) /\ hook.pcb = running[hook.core]
    /\ IF hook.stage = "iew" THEN cycle = NoCycle
       ELSE cycle # NoCycle /\ cycle.core = hook.core /\ cycle.stage = hook.stage

SeenInCycle ==
  cycle # NoCycle /\ Injecting(cycle.core) => cycle.core \in CoresOf(running[cycle.core])

\* p, running on c, has been counted by the fetch hook and not yet by the decode hook.
Lead(p, c) ==
  /\ cycle # NoCycle /\ cycle.core = c /\ running[c] = p /\ mode[c] = "user"
  /\ cycle.stage = IF hook = NoHook THEN "fetch" ELSE "decode"

Ahead(p, c) ==
  CntOf(p, c, Fetched) = CntOf(p, c, Decoded) + (IF Lead(p, c) THEN 1 ELSE 0)

Exact ==
  \A p \in Pcb, c \in Core, k \in {Fetched, Decoded} :
    Active(p) => CntOf(p, c, k) = RanOf(p, c, k)

InStep == \A p \in Pcb, c \in Core : Active(p) => Ahead(p, c)

O3CountInv ==
  O3Inv /\ IInv /\ HookInCycle /\ SeenInCycle /\ Exact /\ InStep

\* A step that counts nothing.
LEMMA QuietCounts ==
  ASSUME O3CountInv, O3Inv', IInv', HookInCycle', SeenInCycle',
         \A q \in Pcb : Active(q)' =>
           \/ Kept(q) /\ \A c \in Core : Lead(q, c)' <=> Lead(q, c)
           \/ Fresh(q) /\ \A c \in Core : ~Lead(q, c)'
  PROVE  O3CountInv'
<1>0. {Fetched, Decoded} \subseteq Counter
  BY DEF Counter
<1>1. Exact'
  <2> SUFFICES ASSUME NEW q \in Pcb, NEW c \in Core, NEW k \in {Fetched, Decoded}, Active(q)'
               PROVE  CntOf(q, c, k)' = RanOf(q, c, k)'
    BY DEF Exact
  <2>1. CASE Kept(q)
    <3>1. Active(q)
      BY <2>1 DEF Kept
    <3> QED BY <2>1, <3>1, KeptCounts DEF O3CountInv, Exact
  <2>2. CASE Fresh(q)
    BY <1>0, <2>2, FreshCounts
  <2> QED BY <2>1, <2>2
<1>2. InStep'
  <2> SUFFICES ASSUME NEW q \in Pcb, NEW c \in Core, Active(q)'
               PROVE  Ahead(q, c)'
    BY DEF InStep
  <2>1. ASSUME Kept(q), Lead(q, c)' <=> Lead(q, c) PROVE Ahead(q, c)'
    <3>1. \A k : CntOf(q, c, k)' = CntOf(q, c, k)
      BY <2>1, KeptCounts
    <3>2. Ahead(q, c)
      BY <2>1 DEF O3CountInv, InStep, Kept
    <3> QED BY <2>1, <3>1, <3>2 DEF Ahead, Fetched, Decoded
  <2>2. ASSUME Fresh(q), ~Lead(q, c)' PROVE Ahead(q, c)'
    <3>1. \A k \in Counter : CntOf(q, c, k)' = 0
      BY <2>2, FreshCounts
    <3> QED BY <1>0, <2>2, <3>1 DEF Ahead, Fetched, Decoded
  <2> QED BY <2>1, <2>2
<1> QED BY <1>1, <1>2 DEF O3CountInv

\* An event k of p on core c.
LEMMA CountedCounts ==
  ASSUME O3CountInv, O3Inv', IInv', HookInCycle', SeenInCycle',
         NEW p \in Pcb, NEW c \in Core, NEW k \in Counter, NEW n \in Nat,
         CountEvent(p, c, k, n, CountOn(ThreadOf(p), c, k, n)),
         k \in {Fetched, Decoded} => c \in CoresOf(p),
         \A q \in Pcb, d \in Core : q # p \/ d # c => (Lead(q, d)' <=> Lead(q, d)),
         Ahead(p, c)'
  PROVE  O3CountInv'
<1>0. IInv
  BY DEF O3CountInv
<1>1. Fetched \in Counter /\ Decoded \in Counter
  BY DEF Counter
<1>2. ASSUME NEW q \in Pcb, Active(q)' PROVE Active(q) /\ (q # p => Kept(q))
  BY <1>0, <1>2, CountEffect, Zenon
<1>3. Exact'
  <2> SUFFICES ASSUME NEW q \in Pcb, NEW d \in Core, NEW j \in {Fetched, Decoded}, Active(q)'
               PROVE  CntOf(q, d, j)' = RanOf(q, d, j)'
    BY DEF Exact
  <2>1. CntOf(q, d, j) = RanOf(q, d, j)
    BY <1>2 DEF O3CountInv, Exact
  <2>2. CASE q # p
    BY <1>2, <2>1, <2>2, KeptCounts
  <2>3. CASE q = p
    BY <1>0, <1>1, <2>1, <2>3, Counted
  <2> QED BY <2>2, <2>3
<1>4. InStep'
  <2> SUFFICES ASSUME NEW q \in Pcb, NEW d \in Core, Active(q)'
               PROVE  Ahead(q, d)'
    BY DEF InStep
  <2>1. CASE q = p /\ d = c
    BY <2>1, Zenon
  <2>2. CASE q # p \/ d # c
    <3>1. \A j \in {Fetched, Decoded} : CntOf(q, d, j)' = CntOf(q, d, j)
      <4>1. CASE q # p
        BY <1>2, <4>1, KeptCounts
      <4>2. CASE q = p
        BY <1>0, <1>1, <2>2, <4>2, Counted
      <4> QED BY <4>1, <4>2
    <3>2. Ahead(q, d) /\ (Lead(q, d)' <=> Lead(q, d))
      BY <1>2, <2>2, Zenon DEF O3CountInv, InStep
    <3> QED BY <3>1, <3>2 DEF Ahead, Fetched, Decoded
  <2> QED BY <2>1, <2>2
<1> QED BY <1>3, <1>4 DEF O3CountInv

LEMMA SameTable ==
  ASSUME UNCHANGED <<fi_activation, threadList, ran>>, NEW q
  PROVE  (Active(q)' <=> Active(q)) /\ (Active(q) => Kept(q))
BY DEF Active, Kept, ThreadOf

LEMMA HookCalled ==
  ASSUME O3CountInv, NEW s \in Stage, NEW c \in Core, CallHook(s, c)
  PROVE  /\ hook = NoHook /\ UNCHANGED <<fi_activation, threadList, ran>>
         /\ IF Injecting(c)
              THEN hook' # NoHook /\ hook'.stage = s /\ hook'.core = c /\ hook'.pcb = running[c]
              ELSE hook' = NoHook
<1>1. CASE Injecting(c)
  <2>1. PICK pc \in Addr : BeginHook(s, c, running[c], pc)
    BY <1>1 DEF CallHook
  <2>2. running[c] \in Pcb /\ Active(running[c])
    BY <1>1 DEF Injecting
  <2>3. InRange(fi_activation[running[c]])
    BY <2>2, ActiveThread DEF O3CountInv
  <2>4. hook' = [stage |-> s, core |-> c, pcb |-> running[c], pc |-> pc]
    BY <2>1, <2>3 DEF BeginHook
  <2>5. hook' # NoHook
    BY <2>4 DEF NoHook, Stage
  <2> QED BY <1>1, <2>1, <2>4, <2>5 DEF BeginHook, Ready, ReadThread
<1>2. CASE ~Injecting(c)
  BY <1>2, Zenon DEF CallHook, Elsewhere, Ready, fvars, tvars
<1> QED BY <1>1, <1>2, Zenon

\* The cycle goes to its next stage and calls the hook.
LEMMA StageCounts ==
  ASSUME O3CountInv, NextInst \/ Fetch \/ Decode, O3Inv', IInv'
  PROVE  O3CountInv'
<1>1. /\ cycle # NoCycle /\ cycle \in Cycles /\ hook = NoHook /\ UNCHANGED <<mode, running>>
  BY CycleCore DEF NextInst, Fetch, Decode, At, Ready, O3CountInv, O3Inv, Cycles
<1>2. PICK s \in {"main", "fetch", "decode"} :
        /\ cycle' = [cycle EXCEPT !.stage = s] /\ CallHook(s, cycle.core)
        /\ cycle.stage = "fetch" <=> s = "decode"
  BY <1>1 DEF NextInst, Fetch, Decode, At, Cycles
<1>3. PICK c \in Core : c = cycle.core
  BY <1>1 DEF Cycles
<1>4. cycle' # NoCycle /\ cycle'.core = c /\ cycle'.stage = s
  BY <1>1, <1>2, <1>3 DEF Cycles, NoCycle
<1>5. /\ UNCHANGED <<fi_activation, threadList, ran>>
      /\ IF Injecting(c)
           THEN hook' # NoHook /\ hook'.stage = s /\ hook'.core = c /\ hook'.pcb = running[c]
           ELSE hook' = NoHook
  BY <1>2, <1>3, HookCalled DEF Stage
<1>6. Injecting(c)' <=> Injecting(c)
  BY <1>1, <1>5 DEF Injecting, Active
<1>7. HookInCycle'
  <2> SUFFICES ASSUME hook' # NoHook
               PROVE  /\ Injecting(hook.core)' /\ hook'.pcb = running'[hook'.core]
                      /\ hook'.stage # "iew" /\ cycle' # NoCycle /\ cycle'.core = hook'.core
                      /\ cycle'.stage = hook'.stage
    BY DEF HookInCycle
  <2>1. Injecting(c) /\ hook'.core = c /\ hook'.stage = s /\ hook'.pcb = running[c]
    BY <1>5
  <2>2. Injecting(hook.core)'
    BY <1>1, <1>5, <2>1 DEF Injecting, Active
  <2> QED BY <1>1, <1>4, <2>1, <2>2
<1>8. SeenInCycle'
  <2> SUFFICES ASSUME Injecting(c)' PROVE c \in CoresOf(running[c])'
    BY <1>1, <1>4, <1>5 DEF SeenInCycle, Injecting, Active, CoresOf, ThreadOf
  <2>1. c \in CoresOf(running[c])
    BY <1>1, <1>3, <1>6 DEF O3CountInv, SeenInCycle
  <2>2. CoresOf(running[c])' = CoresOf(running[c])
    BY <1>1, <1>5 DEF CoresOf, ThreadOf
  <2> QED BY <2>1, <2>2, Zenon
<1>9. ASSUME NEW q \in Pcb, Active(q)', NEW d \in Core PROVE Lead(q, d)' <=> Lead(q, d)
  <2>1. Active(q)
    BY <1>5, <1>9, SameTable
  <2>2. CASE d = c /\ running[c] = q /\ mode[c] = "user"
    <3>1. Injecting(c)
      BY <2>1, <2>2 DEF Injecting
    <3> QED BY <1>1, <1>2, <1>3, <1>4, <1>5, <2>2, <3>1 DEF Lead
  <2>3. CASE ~(d = c /\ running[c] = q /\ mode[c] = "user")
    BY <1>1, <1>3, <1>4, <2>3 DEF Lead
  <2> QED BY <2>2, <2>3
<1> QED BY <1>5, <1>7, <1>8, <1>9, SameTable, QuietCounts

\* No hook, and the cycle ends, or goes back to the head of its loop, or there is none.
LEMMA NoHookCounts ==
  ASSUME O3CountInv, UNCHANGED <<fi_activation, threadList, ran>>, hook = NoHook, hook' = NoHook,
         cycle # NoCycle => cycle.stage \in {"main", "decode"},
         \/ cycle' = NoCycle
         \/ /\ cycle # NoCycle /\ cycle'.core = cycle.core /\ cycle'.stage = "loop"
            /\ UNCHANGED <<mode, running>>,
         O3Inv', IInv'
  PROVE  O3CountInv'
<1>1. \A q, d : ~Lead(q, d) /\ ~Lead(q, d)'
  BY DEF Lead
<1>2. HookInCycle'
  BY DEF HookInCycle
<1>3. SeenInCycle'
  BY DEF O3CountInv, SeenInCycle, Injecting, Active, CoresOf, ThreadOf
<1> QED BY <1>1, <1>2, <1>3, SameTable, QuietCounts

\* An instruction calls iew_fault, out of order with the fetch cycles.
LEMMA ExecuteCounts ==
  ASSUME O3CountInv, NEW c \in Core, NEW i, Execute(c, i), O3Inv', IInv'
  PROVE  O3CountInv'
<1>1. hook = NoHook /\ cycle = NoCycle /\ cycle' = NoCycle /\ UNCHANGED <<mode, running>>
  BY DEF Execute, Between, Ready
<1>2. CASE UNCHANGED ivars
  <2>1. UNCHANGED <<fi_activation, threadList, ran>> /\ hook' = NoHook
    BY <1>1, <1>2, Zenon DEF ivars, tvars, fvars
  <2> QED BY <1>1, <2>1, NoHookCounts
<1>3. CASE CallHook("iew", c)
  <2>1. /\ UNCHANGED <<fi_activation, threadList, ran>>
        /\ IF Injecting(c)
             THEN hook' # NoHook /\ hook'.stage = "iew" /\ hook'.core = c /\ hook'.pcb = running[c]
             ELSE hook' = NoHook
    BY <1>3, HookCalled DEF Stage
  <2>2. HookInCycle'
    <3> SUFFICES ASSUME hook' # NoHook
                 PROVE  /\ Injecting(hook.core)' /\ hook'.pcb = running'[hook'.core]
                        /\ hook'.stage = "iew" /\ cycle' = NoCycle
      BY DEF HookInCycle
    <3>1. Injecting(c) /\ hook'.core = c /\ hook'.stage = "iew" /\ hook'.pcb = running[c]
      BY <2>1
    <3>2. Injecting(hook.core)'
      BY <1>1, <2>1, <3>1 DEF Injecting, Active
    <3> QED BY <1>1, <3>1, <3>2
  <2>3. SeenInCycle'
    BY <1>1 DEF SeenInCycle
  <2>4. \A q, d : ~Lead(q, d) /\ ~Lead(q, d)'
    BY <1>1 DEF Lead
  <2> QED BY <2>1, <2>2, <2>3, <2>4, SameTable, QuietCounts, Zenon
<1> QED BY <1>2, <1>3 DEF Execute

\* A pseudo instruction commits between cycles.
LEMMA PseudoCounts ==
  ASSUME Liberty = {}, O3CountInv, NEW c \in Core, CommitPseudo(c), O3Inv', IInv'
  PROVE  O3CountInv'
<1>1. cycle = NoCycle /\ cycle' = NoCycle
  BY DEF CommitPseudo, Retires, Between
<1>2. PICK p \in Pcb :
        \/ \E id \in ThreadId, a \in Addr : Elsewhere(fi_activate_inst(p, id, a))
        \/ \E a \in Addr : Elsewhere(get_Pc_address(p, a))
        \/ Reset
  BY DEF CommitPseudo
<1>3. hook' = NoHook
  BY <1>2 DEF Elsewhere, Ready, fvars, Reset
<1>4. HookInCycle' /\ SeenInCycle'
  BY <1>1, <1>3 DEF HookInCycle, SeenInCycle
<1>5. \A q, d : ~Lead(q, d) /\ ~Lead(q, d)'
  BY <1>1 DEF Lead
<1>6. ASSUME NEW q \in Pcb, Active(q)' PROVE Kept(q) \/ Fresh(q)
  <2>0. IInv
    BY DEF O3CountInv
  <2>1. ASSUME NEW id \in ThreadId, NEW a \in Addr, fi_activate_inst(p, id, a)
        PROVE  Kept(q) \/ Fresh(q)
    BY <1>6, <2>0, <2>1, ActivateEffect, DeactivateEffect DEF fi_activate_inst
  <2>2. ASSUME NEW a \in Addr, get_Pc_address(p, a) PROVE Kept(q)
    BY <1>6, <2>0, <2>2, GetPcEffect
  <2>3. ASSUME Reset PROVE FALSE
    BY <1>6, <2>3 DEF Reset, init_fi_system, ResetThreads, Active
  <2> QED BY <1>2, <2>1, <2>2, <2>3 DEF Elsewhere
<1> QED BY <1>4, <1>5, <1>6, QuietCounts

\* The ticks of a cycle are charged.
LEMMA BeginFetchCounts ==
  ASSUME O3CountInv, NEW c \in Core, BeginFetch(c), O3Inv', IInv'
  PROVE  O3CountInv'
<1>1. /\ hook = NoHook /\ cycle = NoCycle /\ cycle' = [stage |-> "loop", core |-> c, num |-> 0]
      /\ UNCHANGED <<mode, running>>
  BY DEF BeginFetch, Ready
<1>2. cycle' # NoCycle /\ cycle'.core = c /\ cycle'.stage = "loop"
  BY <1>1 DEF NoCycle
<1>3. hook' = NoHook
  BY <1>1 DEF BeginFetch, Elsewhere, ivars, fvars
<1>4. HookInCycle'
  BY <1>3 DEF HookInCycle
<1>5. \A q, d : ~Lead(q, d) /\ ~Lead(q, d)'
  BY <1>1, <1>2, <1>3 DEF Lead
<1>6. CASE ~Injecting(c)
  <2>1. UNCHANGED <<fi_activation, threadList, ran>>
    BY <1>6 DEF BeginFetch, ivars, tvars
  <2>2. SeenInCycle'
    BY <1>1, <1>2, <1>6, <2>1 DEF SeenInCycle, Injecting, Active
  <2> QED BY <1>4, <1>5, <2>1, <2>2, SameTable, QuietCounts
<1>7. CASE Injecting(c)
  <2>1. PICK p \in Pcb : p = running[c] /\ Active(p)
    BY <1>7 DEF Injecting
  <2>2. CpuTicks \in Nat
    BY O3Assumption, LatencyAssumption
  <2>3. Ticks \in Counter /\ Ticks \notin {Fetched, Decoded}
    BY DEF Counter, Ticks, Fetched, Decoded
  <2>4. CountEvent(p, c, Ticks, CpuTicks, CountOn(ThreadOf(p), c, Ticks, CpuTicks))
    BY <1>7, <2>1 DEF BeginFetch, Elsewhere, increase_ticks, increaseTicks
  <2>5. IInv
    BY DEF O3CountInv
  <2>6. /\ c \in CoresOf(p)'
        /\ CntOf(p, c, Fetched)' = CntOf(p, c, Fetched)
        /\ CntOf(p, c, Decoded)' = CntOf(p, c, Decoded)
    <3>1. Fetched \in Counter /\ Decoded \in Counter
      BY DEF Counter
    <3> QED BY <2>2, <2>3, <2>4, <2>5, <3>1, Counted
  <2>7. SeenInCycle'
    BY <1>1, <1>2, <2>1, <2>6, Zenon DEF SeenInCycle, CoresOf, ThreadOf
  <2>8. Ahead(p, c)'
    <3>1. Ahead(p, c)
      BY <2>1 DEF O3CountInv, InStep
    <3> QED BY <1>5, <2>6, <3>1 DEF Ahead, Fetched, Decoded
  <2>9. Ticks \in {Fetched, Decoded} => c \in CoresOf(p)
    BY <2>3
  <2>10. \A q \in Pcb, d \in Core : q # p \/ d # c => (Lead(q, d)' <=> Lead(q, d))
    BY <1>5
  <2> QED BY <1>4, <2>2, <2>3, <2>4, <2>7, <2>8, <2>9, <2>10, CountedCounts, Zenon
<1> QED BY <1>6, <1>7

\* A hook returns and counts its instruction.
LEMMA EndHookCounts ==
  ASSUME O3CountInv, EndHook, UNCHANGED pvars, O3Inv', IInv'
  PROVE  O3CountInv'
<1>0. IInv /\ UNCHANGED <<mode, running, cycle>>
  BY DEF O3CountInv, pvars
<1>1. hook # NoHook /\ hook' = NoHook
  BY DEF EndHook
<1>2. hook.stage \in Stage /\ hook.core \in Core /\ hook.pcb \in Pcb
  BY <1>1, HookIsHook DEF O3CountInv, O3Inv, O3TypeOK, InjTypeOK
<1>3. PICK c \in Core : c = hook.core
  BY <1>2
<1>4. PICK p \in Pcb : p = hook.pcb
  BY <1>2, Zenon
<1>5. Injecting(c) /\ p = running[c] /\ mode[c] = "user" /\ Active(p)
  BY <1>1, <1>3, <1>4 DEF O3CountInv, HookInCycle, Injecting
<1>6. HookInCycle'
  BY <1>1, Zenon DEF HookInCycle
<1>7. Ahead(p, c)
  BY <1>5 DEF O3CountInv, InStep
<1>8. IF hook.stage = "iew" THEN cycle = NoCycle
      ELSE cycle # NoCycle /\ cycle.core = c /\ cycle.stage = hook.stage
  BY <1>1, <1>3 DEF O3CountInv, HookInCycle
<1>9. cycle # NoCycle => cycle.core = c /\ c \in CoresOf(p)
  BY <1>5, <1>8 DEF O3CountInv, SeenInCycle
<1>10. \A q, d : q # p \/ d # c => ~Lead(q, d) /\ ~Lead(q, d)'
  BY <1>0, <1>5, <1>9 DEF Lead
<1>11. /\ Lead(p, c) <=> hook.stage = "decode"
       /\ Lead(p, c)' <=> hook.stage = "fetch"
  BY <1>0, <1>1, <1>5, <1>8 DEF Lead
<1>12. CASE hook.stage = "main"
  <2>1. UNCHANGED <<fi_activation, threadList, ran>>
    BY <1>12 DEF EndHook, tvars
  <2>2. SeenInCycle'
    BY <1>0, <2>1 DEF O3CountInv, SeenInCycle, Injecting, Active, CoresOf, ThreadOf
  <2>3. \A q \in Pcb, d \in Core : Lead(q, d)' <=> Lead(q, d)
    BY <1>10, <1>11, <1>12
  <2> QED BY <1>6, <2>1, <2>2, <2>3, SameTable, QuietCounts
<1>13. ASSUME NEW k \in Counter,
              CountEvent(p, c, k, 1, CountOn(ThreadOf(p), c, k, 1)),
              k \in {Fetched, Decoded} => cycle # NoCycle,
              k = Fetched <=> hook.stage = "fetch", k = Decoded <=> hook.stage = "decode"
       PROVE  O3CountInv'
  <2>1. Fetched \in Counter /\ Decoded \in Counter /\ Fetched # Decoded
    BY DEF Counter, Fetched, Decoded
  <2>2. /\ c \in CoresOf(p)'
        /\ \A j \in Counter : /\ CntOf(p, c, j) \in Nat
                              /\ j # k => CntOf(p, c, j)' = CntOf(p, c, j)
                              /\ j = k /\ c \in CoresOf(p) => CntOf(p, c, j)' = CntOf(p, c, j) + 1
    BY <1>0, <1>13, Counted
  <2>3. SeenInCycle'
    BY <1>0, <1>5, <1>9, <2>2, Zenon DEF SeenInCycle, CoresOf, ThreadOf
  <2>4. k \in {Fetched, Decoded} => c \in CoresOf(p)
    BY <1>9, <1>13, Zenon
  <2>7. Ahead(p, c)'
    <3>1. CASE k \notin {Fetched, Decoded}
      BY <1>7, <1>11, <1>13, <2>1, <2>2, <3>1 DEF Ahead, Fetched, Decoded
    <3>2. CASE k = Fetched
      BY <1>7, <1>11, <1>13, <2>1, <2>2, <2>4, <3>2 DEF Ahead, Fetched, Decoded
    <3>3. CASE k = Decoded
      BY <1>7, <1>11, <1>13, <2>1, <2>2, <2>4, <3>3 DEF Ahead, Fetched, Decoded
    <3> QED BY <3>1, <3>2, <3>3
  <2>8. \A q \in Pcb, d \in Core : q # p \/ d # c => (Lead(q, d)' <=> Lead(q, d))
    BY <1>10
  <2> QED BY <1>6, <1>13, <2>3, <2>4, <2>7, <2>8, CountedCounts, Zenon
<1>14. CASE hook.stage = "fetch"
  <2>1. CountEvent(p, c, Fetched, 1, CountOn(ThreadOf(p), c, Fetched, 1))
    BY <1>3, <1>4, <1>14 DEF EndHook, increase_instr_fetched, increaseFetchedInstr
  <2> QED BY <1>8, <1>13, <1>14, <2>1 DEF Counter, Fetched, Decoded
<1>15. CASE hook.stage = "decode"
  <2>1. CountEvent(p, c, Decoded, 1, CountOn(ThreadOf(p), c, Decoded, 1))
    BY <1>3, <1>4, <1>15 DEF EndHook, increase_instr_decoded, increaseDecodedInstr
  <2> QED BY <1>8, <1>13, <1>15, <2>1 DEF Counter, Fetched, Decoded
<1>16. CASE hook.stage = "iew"
  <2>1. CountEvent(p, c, Executed, 1, CountOn(ThreadOf(p), c, Executed, 1))
    BY <1>3, <1>4, <1>16, Zenon DEF EndHook, increase_instr_executed, increaseExecutedInstr
  <2> QED BY <1>13, <1>16, <2>1 DEF Counter, Fetched, Decoded, Executed
<1> QED BY <1>2, <1>12, <1>14, <1>15, <1>16 DEF Stage

LEMMA O3CountInit == O3Init => O3CountInv
<1> SUFFICES ASSUME O3Init PROVE O3CountInv
  OBVIOUS
<1>1. O3Inv /\ IInv
  BY O3InitInv, InitInv DEF O3Init, InjInit
<1>2. \A p \in Pcb : ~Active(p)
  BY DEF O3Init, InjInit, Init, Active
<1>3. hook = NoHook /\ cycle = NoCycle
  BY DEF O3Init, InjInit
<1> QED BY <1>1, <1>2, <1>3
           DEF O3CountInv, HookInCycle, SeenInCycle, Exact, InStep

LEMMA O3CountNext == Liberty = {} /\ O3CountInv /\ [O3Next]_ovars => O3CountInv'
<1> SUFFICES ASSUME Liberty = {}, O3CountInv, [O3Next]_ovars PROVE O3CountInv'
  OBVIOUS
<1>0. O3Inv'
  BY O3NextInv DEF O3CountInv
<1>1. IInv'
  <2>1. [InjNext]_ivars
    BY O3StepImplements DEF O3CountInv, O3Inv
  <2>2. [Next]_tvars
    BY <2>1, StepImplements DEF O3CountInv, O3Inv, O3TypeOK, InjTypeOK
  <2> QED BY <2>2, NextInv DEF O3CountInv
<1>2. ASSUME Break \/ \E x \in {"op", "pseudo"} : BuildInst(x) PROVE O3CountInv'
  <2>1. /\ UNCHANGED ivars /\ cycle # NoCycle /\ hook = NoHook /\ UNCHANGED <<mode, running>>
        /\ cycle.stage \in {"main", "decode"}
    BY <1>2 DEF Break, BuildInst, At, Ready
  <2>2. UNCHANGED <<fi_activation, threadList, ran>> /\ hook' = NoHook
    BY <2>1 DEF ivars, tvars, fvars
  <2>3. cycle' = NoCycle \/ (cycle'.core = cycle.core /\ cycle'.stage = "loop")
    <3>1. cycle \in Cycles
      BY <2>1, CycleCore DEF O3CountInv, O3Inv, Cycles
    <3> QED BY <1>2, <3>1, Zenon DEF Break, BuildInst, Continued, Cycles
  <2> QED BY <1>0, <1>1, <2>1, <2>2, <2>3, NoHookCounts
<1>3. ASSUME \/ \E c \in Core : finishTranslation(c) \/ Commit(c) \/ CommitMode(c)
             \/ \E c \in Core, i \in 1 .. Window : Reschedule(c, i)
             \/ \E c \in Core, i \in 0 .. Window : Squash(c, i)
             \/ \E c \in Core, p \in Pcb \cup {NoPcb} : CommitContext(c, p)
      PROVE  O3CountInv'
  <2>1. UNCHANGED ivars /\ cycle = NoCycle /\ cycle' = NoCycle /\ hook = NoHook
    BY <1>3 DEF finishTranslation, Commit, CommitMode, Reschedule, Squash, CommitContext,
                Retires, Between, Ready
  <2>2. UNCHANGED <<fi_activation, threadList, ran>> /\ hook' = NoHook
    BY <2>1 DEF ivars, tvars, fvars
  <2> QED BY <1>0, <1>1, <2>1, <2>2, NoHookCounts, Zenon
<1>4. ASSUME UNCHANGED <<fi_activation, threadList, ran, hook>>, UNCHANGED pvars
      PROVE  O3CountInv'
  <2>1. UNCHANGED <<fi_activation, threadList, ran, hook, mode, running, cycle>>
    BY <1>4, Zenon DEF pvars
  <2>2. HookInCycle' /\ SeenInCycle'
    BY <2>1 DEF O3CountInv, HookInCycle, SeenInCycle, Injecting, Active, CoresOf, ThreadOf
  <2>3. \A q, d : Lead(q, d)' <=> Lead(q, d)
    BY <2>1 DEF Lead
  <2> QED BY <1>0, <1>1, <2>1, <2>2, <2>3, SameTable, QuietCounts
<1>5. ASSUME Inside PROVE O3CountInv'
  <2>1. CASE EndHook
    BY <1>0, <1>1, <1>5, <2>1, EndHookCounts DEF Inside
  <2>2. ASSUME getFromFile \/ \E f \in Fault : Manifest(f) PROVE O3CountInv'
    <3>1. UNCHANGED <<fi_activation, threadList, ran, hook>> /\ UNCHANGED pvars
      BY <1>5, <2>2, Zenon DEF Inside, getFromFile, Manifest, tvars
    <3> QED BY <1>4, <3>1
  <2> QED BY <1>5, <2>1, <2>2 DEF Inside, HookStep
<1>6. ASSUME UNCHANGED ovars PROVE O3CountInv'
  BY <1>4, <1>6 DEF ovars, ivars, tvars, fvars
<1>7. ASSUME NextInst \/ Fetch \/ Decode PROVE O3CountInv'
  BY <1>0, <1>1, <1>7, StageCounts
<1>8. ASSUME NEW c \in Core, BeginFetch(c) PROVE O3CountInv'
  BY <1>0, <1>1, <1>8, BeginFetchCounts
<1>9. ASSUME NEW c \in Core, NEW i, Execute(c, i) PROVE O3CountInv'
  BY <1>0, <1>1, <1>9, ExecuteCounts
<1>10. ASSUME NEW c \in Core, CommitPseudo(c) PROVE O3CountInv'
  BY <1>0, <1>1, <1>10, PseudoCounts
<1> QED BY <1>2, <1>3, <1>5, <1>6, <1>7, <1>8, <1>9, <1>10, Zenon DEF O3Next, CycleStep

\* On the out-of-order CPU, too, fetched and decoded instructions are counted exactly:
\* fetch() charges the ticks of a cycle before it calls a hook (fetch_impl.hh:1194), so
\* that the event the thread table loses on each core is not one of them.
THEOREM FetchCountersExact ==
  ASSUME Liberty = {}
  PROVE  O3Spec => []FetchCountsExact
<1>1. O3CountInv => FetchCountsExact
  BY Zenon DEF O3CountInv, Exact, FetchCountsExact, CntOf, RanOf
<1>2. O3CountInv /\ [O3Next]_ovars => O3CountInv'
  BY O3CountNext
<1> QED BY <1>1, <1>2, O3CountInit, PTL DEF O3Spec

\* Between fetch cycles an active thread has decoded what it has fetched, core by core,
\* whatever commits, squashes and hooks of the execute stage come in between.
THEOREM FetchDecodeInStep ==
  ASSUME Liberty = {}
  PROVE  O3Spec => []FetchInStep
<1>1. O3CountInv => FetchInStep
  <2> SUFFICES ASSUME O3CountInv, cycle = NoCycle, NEW p \in Pcb, Active(p), NEW c \in Core
               PROVE  CntOf(p, c, Decoded) = CntOf(p, c, Fetched)
    BY Zenon DEF FetchInStep, CntOf
  <2>1. Ahead(p, c) /\ ~Lead(p, c)
    BY DEF O3CountInv, InStep, Lead
  <2>2. Decoded \in Counter
    BY DEF Counter
  <2>3. CntOf(p, c, Decoded) \in Nat
    BY <2>2, CountsNat DEF O3CountInv
  <2> QED BY <2>1, <2>3 DEF Ahead
<1>2. O3CountInv /\ [O3Next]_ovars => O3CountInv'
  BY O3CountNext
<1> QED BY <1>1, <1>2, O3CountInit, PTL DEF O3Spec
=============================================================================
