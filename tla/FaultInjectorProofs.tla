------------------------- MODULE FaultInjectorProofs -------------------------
(***************************************************************************)
(* Proofs about the hooks of Fi_System and the faults they let manifest,   *)
(* under the assumptions of FiSystemProofs.                                *)
(***************************************************************************)
EXTENDS FiSystemProofs

-----------------------------------------------------------------------------
(* The inductive invariant.  How often a fault has manifested is tied to   *)
(* its _occurrence only while the fault is queued, so the invariant has to *)
(* say that a fault is queued once (QueuesSound) and has not manifested    *)
(* before it is read (Reading).  A permanent fault leaves its queue when   *)
(* _occurrence has come round to 1 (PermanentCount); a fault that has      *)
(* manifested in this hook is not due again (NotDueAgain).                 *)

Reading ==
  /\ IsInjective(file)
  /\ file # <<>> => hook = NoHook
  /\ \A f \in Range(file) : ~Queued(f) /\ hits[f] = 0

PermanentCount ==
  \A f \in Fault :
    Desc[f].occ = 0 /\ Queued(f) /\ hits[f] < IntMod =>
      occ[f] = IF hits[f] <= IntMax + 1 THEN -hits[f] ELSE IntMod - hits[f]

NotDueAgain ==
  \A f \in Fault :
    /\ hook = NoHook => here[f] = 0
    /\ Desc[f].kind # "Addr" =>
         /\ here[f] <= 1
         /\ hook # NoHook /\ here[f] = 1 /\ Queued(f) => ~Due(f, hook)

InjInv ==
  /\ InjTypeOK /\ QueuesSound /\ Reading
  /\ OccurrenceBudget /\ PermanentStays /\ PermanentCount /\ NotDueAgain

\* The queues after a fault has been read: one more fault, in its own queue.
LEMMA ReadFaultQueues ==
  ASSUME InjTypeOK, QueuesSound, Reading, getFromFile
  PROVE  /\ QueuesSound'
         /\ \A g \in Fault : Queued(g)' <=> (Queued(g) \/ g = Head(file))
<1> DEFINE f == Head(file)
<1>1. f \in Fault /\ f \in Range(file)
  <2>1. file \in Seq(Fault) /\ file # <<>>
    BY DEF InjTypeOK, getFromFile
  <2> QED BY <2>1 DEF Range
<1>2. QueueOf(f) \in Stage
  BY <1>1, QueueOfType
<1>3. PICK i \in 1 .. Len(queue[QueueOf(f)]) + 1 :
        queue' = [queue EXCEPT ![QueueOf(f)] = InsertedAt(queue[QueueOf(f)], i, f)]
  BY Zenon DEF getFromFile
<1>4. ~Queued(f)
  BY <1>1 DEF Reading
<1> HIDE DEF f
<1> DEFINE s == queue[QueueOf(f)]
           t == InsertedAt(s, i, f)
<1>5. s \in Seq(Fault) /\ IsInjective(s) /\ f \notin Range(s)
  BY <1>2, <1>4 DEF InjTypeOK, QueuesSound, Queued
<1>6. t \in Seq(Fault) /\ Range(t) = Range(s) \cup {f} /\ IsInjective(t)
  BY <1>1, <1>5, InsertedAtElements, InsertedAtSet
<1>7. queue' = [queue EXCEPT ![QueueOf(f)] = t]
  BY <1>3
<1> HIDE DEF t
<1>8. ASSUME NEW g \in Fault PROVE Queued(g)' <=> (Queued(g) \/ g = f)
  <2>1. QueueOf(g) \in Stage
    BY QueueOfType
  <2>2. Queued(g)' <=> g \in Range(queue'[QueueOf(g)])
    BY DEF Queued, QueueOf
  <2> QED BY <1>2, <1>6, <1>7, <2>1, <2>2 DEF Queued, InjTypeOK
<1>9. ASSUME NEW r \in Stage
      PROVE  /\ IsInjective(queue'[r])
             /\ \A j \in 1 .. Len(queue'[r]) : QueueOf(queue'[r][j]) = r
  <2>1. CASE r # QueueOf(f)
    BY <1>2, <1>7, <2>1 DEF InjTypeOK, QueuesSound
  <2>2. CASE r = QueueOf(f)
    <3>1. queue'[r] = t
      BY <1>7, <2>2 DEF InjTypeOK
    <3>2. ASSUME NEW j \in 1 .. Len(t) PROVE QueueOf(t[j]) = r
      <4>1. t[j] \in Range(s) \cup {f}
        BY <1>6, <3>2, SMTT(30) DEF Range
      <4>2. CASE t[j] \in Range(s)
        BY <1>2, <1>5, <2>2, <4>2 DEF Range, QueuesSound
      <4> QED BY <2>2, <4>1, <4>2
    <3> QED BY <1>6, <3>1, <3>2
  <2> QED BY <2>1, <2>2
<1>10. QueuesSound'
  BY <1>9, Zenon DEF QueuesSound, QueueOf
<1> QED BY <1>8, <1>10 DEF f

\* The queues after rescheduling: the fault is gone exactly when it was its last
\* manifestation.
LEMMA RescheduleQueues ==
  ASSUME InjTypeOK, QueuesSound, NEW f \in Fault, check4reschedule(f)
  PROVE  /\ QueuesSound'
         /\ \A g \in Fault : Queued(g)' <=> (Queued(g) /\ ~(g = f /\ occ[f] = 1))
<1>1. QueueOf(f) \in Stage
  BY QueueOfType
<1>2. CASE occ[f] # 1
  <2>1. queue' = queue
    BY <1>2 DEF check4reschedule
  <2> QED BY <1>2, <2>1, Zenon DEF QueuesSound, Queued, QueueOf
<1>3. CASE occ[f] = 1
  <2>1. PICK i \in 1 .. Len(queue[QueueOf(f)]) :
          /\ queue[QueueOf(f)][i] = f
          /\ queue' = [queue EXCEPT ![QueueOf(f)] = RemovedAt(queue[QueueOf(f)], i)]
    BY <1>3 DEF check4reschedule
  <2> DEFINE s == queue[QueueOf(f)]
             t == RemovedAt(s, i)
  <2>2. s \in Seq(Fault) /\ IsInjective(s)
    BY <1>1 DEF InjTypeOK, QueuesSound
  <2>3. t \in Seq(Fault) /\ Range(t) = Range(s) \ {f} /\ IsInjective(t)
    BY <2>1, <2>2, RemovedAtElements, RemovedAtSet
  <2>4. queue' = [queue EXCEPT ![QueueOf(f)] = t]
    BY <2>1
  <2> HIDE DEF t
  <2>5. ASSUME NEW g \in Fault PROVE Queued(g)' <=> (Queued(g) /\ ~(g = f /\ occ[f] = 1))
    <3>1. QueueOf(g) \in Stage
      BY QueueOfType
    <3>2. Queued(g)' <=> g \in Range(queue'[QueueOf(g)])
      BY DEF Queued, QueueOf
    <3> QED BY <1>1, <1>3, <2>3, <2>4, <3>1, <3>2, Zenon DEF Queued, InjTypeOK
  <2>6. ASSUME NEW r \in Stage
        PROVE  /\ IsInjective(queue'[r])
               /\ \A j \in 1 .. Len(queue'[r]) : QueueOf(queue'[r][j]) = r
    <3>1. CASE r # QueueOf(f)
      BY <1>1, <2>4, <3>1 DEF InjTypeOK, QueuesSound
    <3>2. CASE r = QueueOf(f)
      <4>1. queue'[r] = t
        BY <2>4, <3>2 DEF InjTypeOK
      <4>2. ASSUME NEW j \in 1 .. Len(t) PROVE QueueOf(t[j]) = r
        <5>0. t[j] \in Range(t)
          BY <2>3, <4>2 DEF Range
        <5>1. t[j] \in Range(s)
          BY <2>3, <5>0, SMTT(30)
        <5> QED BY <1>1, <2>2, <3>2, <5>1 DEF Range, QueuesSound
      <4> QED BY <2>3, <4>1, <4>2
    <3> QED BY <3>1, <3>2
  <2>7. QueuesSound'
    BY <2>6, Zenon DEF QueuesSound, QueueOf
  <2> QED BY <2>5, <2>7
<1> QED BY <1>2, <1>3

\* What a scan returns is queued, and due.
LEMMA ScanQueued ==
  ASSUME InjTypeOK, QueuesSound, hook # NoHook, NEW f \in Fault, Scan(f)
  PROVE  Queued(f) /\ Due(f, hook)
<1>1. hook.stage \in Stage
  BY HookIsHook DEF InjTypeOK
<1>2. PICK i \in 1 .. Len(queue[hook.stage]) : f = queue[hook.stage][i] /\ Due(f, hook)
  BY DEF Scan
<1>3. queue[hook.stage] \in Seq(Fault) /\ QueueOf(f) = hook.stage
  BY <1>1, <1>2 DEF InjTypeOK, QueuesSound
<1> QED BY <1>2, <1>3 DEF Queued, Range

\* A rescheduled fault that is timed by ticks or instructions has another time.
LEMMA LaterMoves ==
  ASSUME InjTypeOK, NEW f \in Fault, Desc[f].kind # "Addr"
  PROVE  Later(f) # timing[f]
<1>1. Desc[f].kind \in {"Tick", "Inst"} /\ timing[f] \in 0 .. WordMod - 1
  BY DescType DEF TimingType, InjTypeOK
<1> QED BY <1>1, TickStepMoves, NarrowMoves DEF Later

\* Whether a fault is due does not change while its time and the counters stay.
LEMMA DueUnchanged ==
  ASSUME UNCHANGED <<tvars, hook>>, NEW f \in Fault, timing'[f] = timing[f]
  PROVE  Due(f, hook)' <=> Due(f, hook)
<1>1. Counters(f, hook)' = Counters(f, hook)
  BY CountersUnchanged
<1>2. ThreadOf(hook.pcb)' = ThreadOf(hook.pcb)
  BY DEF tvars, ThreadOf
<1> QED BY <1>1, <1>2 DEF Due

\* Within a hook a fault that has been given another time is not due any more.
LEMMA DueMoved ==
  ASSUME UNCHANGED <<tvars, hook>>, NEW f \in Fault, Desc[f].kind # "Addr",
         Due(f, hook), timing'[f] # timing[f]
  PROVE  ~Due(f, hook)'
<1>1. Counters(f, hook)' = Counters(f, hook)
  BY CountersUnchanged
<1>2. Desc[f].kind \in {"Tick", "Inst"}
  BY DescType DEF TimingType
<1> QED BY <1>1, <1>2, Zenon DEF Due

LEMMA InjInitInv == InjInit => InjInv
<1> SUFFICES ASSUME InjInit PROVE InjInv
  OBVIOUS
<1>1. InjTypeOK
  BY InjInitType
<1>2. \A f \in Fault : ~Queued(f) /\ hits[f] = 0 /\ here[f] = 0
  BY QueueOfType DEF InjInit, Queued, Range
<1>3. QueuesSound
  BY DEF InjInit, QueuesSound, IsInjective
<1>4. IsInjective(file) /\ hook = NoHook
  BY FilesAssumption DEF InjInit
<1>5. Range(file) \subseteq Fault
  BY <1>1 DEF InjTypeOK, Range
<1>6. Reading
  BY <1>2, <1>4, <1>5 DEF Reading
<1>7. OccurrenceBudget /\ PermanentStays /\ PermanentCount
  BY <1>2 DEF OccurrenceBudget, PermanentStays, PermanentCount
<1>8. NotDueAgain
  BY <1>2, <1>4 DEF NotDueAgain
<1> QED BY <1>1, <1>3, <1>6, <1>7, <1>8 DEF InjInv

\* Reading a fault starts its count.
LEMMA ReadFaultInv ==
  ASSUME InjInv, getFromFile, InjTypeOK'
  PROVE  InjInv'
<1> DEFINE f == Head(file)
<1>0. InjTypeOK /\ QueuesSound /\ Reading
  BY DEF InjInv
<1>1. file \in Seq(Fault) /\ file # <<>> /\ file' = Tail(file) /\ f \in Fault
  BY <1>0, SMTT(30) DEF InjTypeOK, getFromFile
<1>2. hook = NoHook /\ hook' = NoHook /\ hits' = hits /\ here' = here
  BY <1>0, <1>1 DEF Reading, getFromFile
<1>3. hits[f] = 0
  BY <1>0, <1>1 DEF Reading, Range
<1>4. QueuesSound' /\ \A g \in Fault : Queued(g)' <=> (Queued(g) \/ g = f)
  BY <1>0, ReadFaultQueues, SMTT(30)
<1>5. occ' = [occ EXCEPT ![f] = Desc[f].occ] /\ occ \in [Fault -> IntMin .. IntMax]
  BY <1>0 DEF getFromFile, InjTypeOK
<1>6. hits \in [Fault -> Nat]
  BY <1>0 DEF InjTypeOK
<1>7. Reading'
  <2>1. IsInjective(file)
    BY <1>0 DEF Reading
  <2>2. /\ Tail(file) \in Seq(Fault) /\ Len(Tail(file)) = Len(file) - 1
        /\ \A i \in 1 .. Len(Tail(file)) : Tail(file)[i] = file[i + 1]
    BY <1>1
  <2>3. IsInjective(Tail(file))
    BY <1>1, <2>1, <2>2 DEF IsInjective
  <2>4. ASSUME NEW g \in Range(Tail(file)) PROVE g \in Fault /\ g \in Range(file) /\ g # f
    <3>1. PICK i \in 1 .. Len(Tail(file)) : g = Tail(file)[i]
      BY <2>2, <2>4 DEF Range
    <3>2. g = file[i + 1] /\ i + 1 \in 1 .. Len(file) /\ f = file[1]
      BY <1>1, <2>2, <3>1
    <3> QED BY <1>1, <2>1, <3>1, <3>2 DEF Range, IsInjective
  <2>5. ASSUME NEW g \in Range(Tail(file)) PROVE ~Queued(g)' /\ hits'[g] = 0
    BY <1>0, <1>2, <1>4, <2>4 DEF Reading
  <2> QED BY <1>1, <1>2, <2>3, <2>5 DEF Reading
<1> HIDE DEF f
<1>8. OccurrenceBudget'
  <2> SUFFICES ASSUME NEW g \in Fault, Desc[g].occ >= 1
               PROVE  /\ Queued(g)' => occ'[g] >= 1 /\ hits'[g] + occ'[g] = Desc[g].occ
                      /\ ~Queued(g)' /\ hits'[g] > 0 => hits'[g] = Desc[g].occ
    BY DEF OccurrenceBudget
  <2>1. Desc[g].occ \in Int
    BY DescType, IntFacts
  <2> QED BY <1>2, <1>3, <1>4, <1>5, <1>6, <2>1 DEF InjInv, OccurrenceBudget
<1>9. PermanentStays' /\ PermanentCount'
  <2>1. ASSUME NEW g \in Fault, Desc[g].occ = 0, hits'[g] \in 1 .. IntMod - 1 PROVE Queued(g)'
    BY <1>2, <1>4, <2>1 DEF InjInv, PermanentStays
  <2>2. ASSUME NEW g \in Fault, Desc[g].occ = 0, Queued(g)', hits'[g] < IntMod
        PROVE  occ'[g] = IF hits'[g] <= IntMax + 1 THEN -hits'[g] ELSE IntMod - hits'[g]
    BY <1>2, <1>3, <1>4, <1>5, <2>2, IntFacts, SMTT(30) DEF InjInv, PermanentCount
  <2> QED BY <2>1, <2>2 DEF PermanentStays, PermanentCount, IntMax
<1>10. NotDueAgain'
  BY <1>2 DEF InjInv, NotDueAgain
<1> QED BY <1>4, <1>7, <1>8, <1>9, <1>10 DEF InjInv

\* A step that leaves the queues, the file and the counts of the faults alone.
LEMMA QuietInv ==
  ASSUME InjInv, UNCHANGED <<file, queue, occ, hits>>, InjTypeOK', NotDueAgain',
         file # <<>> => hook' = NoHook
  PROVE  InjInv'
<1>1. \A f : Queued(f)' <=> Queued(f)
  BY DEF Queued, QueueOf
<1>2. QueuesSound'
  BY Zenon DEF InjInv, QueuesSound, QueueOf
<1>3. Reading'
  BY <1>1 DEF InjInv, Reading
<1>4. OccurrenceBudget' /\ PermanentStays'
  BY <1>1 DEF InjInv, OccurrenceBudget, PermanentStays
<1>5. PermanentCount'
  BY <1>1 DEF InjInv, PermanentCount, IntMax
<1> QED BY <1>2, <1>3, <1>4, <1>5 DEF InjInv

\* Letting a fault manifest: it is rescheduled and counted.
LEMMA ManifestInv ==
  ASSUME InjInv, NEW f \in Fault, Manifest(f), ~Unsupported(f), InjTypeOK'
  PROVE  InjInv'
<1>0. InjTypeOK /\ QueuesSound /\ Reading
  BY DEF InjInv
<1>1. /\ hook # NoHook /\ check4reschedule(f) /\ Scan(f)
      /\ hits' = [hits EXCEPT ![f] = @ + 1] /\ here' = [here EXCEPT ![f] = @ + 1]
      /\ UNCHANGED <<tvars, file, hook>>
  BY DEF Manifest
<1>2. Queued(f) /\ Due(f, hook)
  BY <1>0, <1>1, ScanQueued
<1>3. QueuesSound' /\ \A g \in Fault : Queued(g)' <=> (Queued(g) /\ ~(g = f /\ occ[f] = 1))
  BY <1>0, <1>1, RescheduleQueues
<1>4. hits \in [Fault -> Nat] /\ here \in [Fault -> Nat] /\ occ \in [Fault -> IntMin .. IntMax]
  BY <1>0 DEF InjTypeOK
<1>5. occ' = IF occ[f] = 1 THEN occ ELSE [occ EXCEPT ![f] = OneLess(occ[f])]
  BY <1>1 DEF check4reschedule
<1>6. \A g \in Fault : g # f => occ'[g] = occ[g] /\ hits'[g] = hits[g] /\ here'[g] = here[g]
  BY <1>1, <1>4, <1>5
<1>7. hits'[f] = hits[f] + 1 /\ here'[f] = here[f] + 1
  BY <1>1, <1>4
<1>8. occ[f] # 1 => occ'[f] = OneLess(occ[f])
  BY <1>4, <1>5
<1>9. Reading'
  BY <1>0, <1>1, SMTT(30) DEF Reading, Range
<1>10. OccurrenceBudget'
  <2> SUFFICES ASSUME NEW g \in Fault, Desc[g].occ >= 1
               PROVE  /\ Queued(g)' => occ'[g] >= 1 /\ hits'[g] + occ'[g] = Desc[g].occ
                      /\ ~Queued(g)' /\ hits'[g] > 0 => hits'[g] = Desc[g].occ
    BY DEF OccurrenceBudget
  <2>1. CASE g # f
    BY <1>3, <1>6, <2>1 DEF InjInv, OccurrenceBudget
  <2>2. CASE g = f
    <3>1. occ[f] >= 1 /\ hits[f] + occ[f] = Desc[f].occ
      BY <1>2, <2>2, SMTT(30) DEF InjInv, OccurrenceBudget
    <3> QED BY <1>2, <1>3, <1>4, <1>7, <1>8, <2>2, <3>1, IntFacts, SMTT(30) DEF OneLess
  <2> QED BY <2>1, <2>2
<1>11. PermanentStays' /\ PermanentCount'
  <2>1. ASSUME Desc[f].occ = 0, hits[f] < IntMod
        PROVE  occ[f] = IF hits[f] <= IntMax + 1 THEN -hits[f] ELSE IntMod - hits[f]
    BY <1>2, <2>1 DEF InjInv, PermanentCount
  <2>2. ASSUME NEW g \in Fault, Desc[g].occ = 0, hits'[g] \in 1 .. IntMod - 1 PROVE Queued(g)'
    <3>1. CASE g # f
      BY <1>3, <1>6, <2>2, <3>1, SMTT(30) DEF InjInv, PermanentStays
    <3>2. CASE g = f
      BY <1>2, <1>3, <1>4, <1>7, <2>1, <2>2, <3>2, IntFacts, SMTT(30)
    <3> QED BY <3>1, <3>2
  <2>3. ASSUME NEW g \in Fault, Desc[g].occ = 0, Queued(g)', hits'[g] < IntMod
        PROVE  occ'[g] = IF hits'[g] <= IntMax + 1 THEN -hits'[g] ELSE IntMod - hits'[g]
    <3>1. CASE g # f
      BY <1>3, <1>6, <2>3, <3>1, SMTT(30) DEF InjInv, PermanentCount
    <3>2. CASE g = f
      <4>1. occ[f] # 1 /\ occ'[f] = OneLess(occ[f])
        BY <1>3, <1>8, <2>3, <3>2
      <4> QED BY <1>4, <1>7, <2>1, <2>3, <3>2, <4>1, IntFacts, SMTT(30) DEF OneLess
    <3> QED BY <3>1, <3>2, SMTT(30)
  <2> QED BY <2>2, <2>3 DEF PermanentStays, PermanentCount, IntMax
<1>12. NotDueAgain'
  <2> SUFFICES ASSUME NEW g \in Fault, Desc[g].kind # "Addr"
               PROVE  /\ here'[g] <= 1
                      /\ here'[g] = 1 /\ Queued(g)' => ~Due(g, hook)'
    BY <1>1, SMTT(30) DEF NotDueAgain
  <2>1. CASE g # f
    <3>1. timing'[g] = timing[g]
      BY <1>0, <1>1, <2>1, SMTT(30) DEF check4reschedule, InjTypeOK
    <3>2. Due(g, hook)' <=> Due(g, hook)
      BY <1>1, <3>1, DueUnchanged, SMTT(30)
    <3> QED BY <1>1, <1>3, <1>6, <2>1, <3>2, SMTT(30) DEF InjInv, NotDueAgain
  <2>2. CASE g = f
    <3>1. here[f] <= 1 /\ here[f] # 1
      BY <1>1, <1>2, <2>2, SMTT(30) DEF InjInv, NotDueAgain
    <3>2. here'[f] <= 1
      BY <1>4, <1>7, <3>1, SMTT(30)
    <3>3. ASSUME Queued(f)' PROVE ~Due(f, hook)'
      <4>1. timing' = [timing EXCEPT ![f] = Later(f)]
        BY <1>1, <1>3, <3>3, SMTT(30) DEF check4reschedule
      <4>2. timing'[f] # timing[f]
        BY <1>0, <2>2, <4>1, LaterMoves, SMTT(30) DEF InjTypeOK
      <4> QED BY <1>1, <1>2, <2>2, <4>2, DueMoved, SMTT(30)
    <3> QED BY <2>2, <3>2, <3>3, SMTT(30)
  <2> QED BY <2>1, <2>2, SMTT(30)
<1> QED BY <1>3, <1>9, <1>10, <1>11, <1>12 DEF InjInv

\* A reset empties the queues and forgets the counts.
LEMMA EmptyQueuesInv ==
  ASSUME InjInv, Reset, InjTypeOK'
  PROVE  InjInv'
<1>1. /\ queue' = [s \in Stage |-> <<>>] /\ file' \in Files /\ hits' = [f \in Fault |-> 0]
      /\ hook = NoHook /\ hook' = NoHook /\ here' = here
  BY DEF Reset, Ready
<1>2. \A f \in Fault : ~Queued(f)' /\ hits'[f] = 0
  <2>1. ASSUME NEW f \in Fault PROVE ~Queued(f)'
    <3>1. QueueOf(f) \in Stage
      BY QueueOfType
    <3>2. Queued(f)' <=> f \in Range(queue'[QueueOf(f)])
      BY DEF Queued, QueueOf
    <3> QED BY <1>1, <3>1, <3>2 DEF Range
  <2> QED BY <1>1, <2>1
<1>3. QueuesSound'
  BY <1>1 DEF QueuesSound, IsInjective
<1>4. Range(file') \subseteq Fault
  BY DEF InjTypeOK, Range
<1>5. Reading'
  BY <1>1, <1>2, <1>4, FilesAssumption, SMTT(30) DEF Reading
<1>6. OccurrenceBudget' /\ PermanentStays' /\ PermanentCount'
  BY <1>2 DEF OccurrenceBudget, PermanentStays, PermanentCount
<1>7. NotDueAgain'
  BY <1>1 DEF InjInv, NotDueAgain
<1> QED BY <1>3, <1>5, <1>6, <1>7 DEF InjInv

LEMMA InjNextInv == InjInv /\ [InjNext]_ivars => InjInv'
<1> SUFFICES ASSUME InjInv, [InjNext]_ivars PROVE InjInv'
  OBVIOUS
<1>0. InjTypeOK'
  BY InjNextType DEF InjInv
<1>1. ASSUME getFromFile PROVE InjInv'
  BY <1>0, <1>1, ReadFaultInv
<1>2. ASSUME NEW s \in Stage, NEW c \in Core, NEW p \in Pcb, NEW pc \in Addr,
             BeginHook(s, c, p, pc)
      PROVE  InjInv'
  <2>1. hook = NoHook /\ file = <<>> /\ UNCHANGED <<file, queue, occ, hits, here>>
    BY <1>2, SMTT(30) DEF BeginHook, Ready
  <2>2. NotDueAgain'
    BY <2>1 DEF InjInv, NotDueAgain
  <2> QED BY <1>0, <2>1, <2>2, QuietInv
<1>3. ASSUME EndHook PROVE InjInv'
  <2>1. /\ hook' = NoHook /\ here' = [f \in Fault |-> 0]
        /\ UNCHANGED <<file, queue, occ, hits>>
    BY <1>3 DEF EndHook
  <2>2. NotDueAgain'
    BY <2>1 DEF NotDueAgain
  <2> QED BY <1>0, <2>1, <2>2, QuietInv
<1>4. ASSUME NEW f \in Fault, Manifest(f), Unsupported(f) PROVE InjInv'
  <2>1. UNCHANGED <<tvars, file, queue, timing, occ, hook, hits, here>> /\ hook # NoHook
    BY <1>4, SMTT(30) DEF Manifest
  <2>2. NotDueAgain'
    <3>1. \A g \in Fault : Due(g, hook)' <=> Due(g, hook)
      BY <2>1, DueUnchanged
    <3>2. \A g : Queued(g)' <=> Queued(g)
      BY <2>1 DEF Queued, QueueOf
    <3> QED BY <2>1, <3>1, <3>2 DEF InjInv, NotDueAgain
  <2> QED BY <1>0, <2>1, <2>2, QuietInv DEF InjInv, Reading
<1>5. ASSUME Ready, UNCHANGED fvars PROVE InjInv'
  <2>1. hook = NoHook /\ hook' = NoHook /\ UNCHANGED <<file, queue, occ, hits, here>>
    BY <1>5 DEF Ready, fvars
  <2>2. NotDueAgain'
    BY <2>1 DEF InjInv, NotDueAgain
  <2> QED BY <1>0, <2>1, <2>2, QuietInv
<1>6. ASSUME UNCHANGED ivars PROVE InjInv'
  <2>1. UNCHANGED <<tvars, file, queue, timing, occ, hook, hits, here>>
    BY <1>6, SMTT(30) DEF ivars, fvars
  <2>2. NotDueAgain'
    <3>1. \A g \in Fault : Due(g, hook)' <=> Due(g, hook)
      BY <2>1, DueUnchanged
    <3>2. \A g : Queued(g)' <=> Queued(g)
      BY <2>1 DEF Queued, QueueOf
    <3> QED BY <2>1, <3>1, <3>2 DEF InjInv, NotDueAgain
  <2> QED BY <1>0, <2>1, <2>2, QuietInv DEF InjInv, Reading
<1> QED
  BY <1>0, <1>1, <1>2, <1>3, <1>4, <1>5, <1>6, ManifestInv, EmptyQueuesInv
  DEF InjNext, HookStep, Elsewhere, Aborted

\* The inductive invariant of the queues and the hooks (fi_system.hh, faultq.cc).
THEOREM InjectorInvariant == InjSpec => []InjInv
<1> QED BY InjInitInv, InjNextInv, PTL DEF InjSpec

-----------------------------------------------------------------------------

\* A fault timed by ticks or instructions manifests at most once in the hook of
\* an instruction, although the hook scans its queue again after every fault it
\* has let manifest (main_fault and the stage hooks, fi_system.hh).
THEOREM ManifestsOncePerHook == InjSpec => []OncePerHook
<1>1. InjInv => OncePerHook
  BY DEF InjInv, NotDueAgain, OncePerHook
<1> QED BY <1>1, InjectorInvariant, PTL

\* A transient or intermittent fault manifests as often as its description says
\* (faultq.hh:100), for any interleaving of threads, cores and stages.
THEOREM BudgetKept == InjSpec => []OccurrenceBudget
<1>1. InjInv => OccurrenceBudget
  BY DEF InjInv
<1> QED BY <1>1, InjectorInvariant, PTL

\* A permanent fault (faultq.hh:100) is not dequeued before it has manifested
\* 2^32 times, the number of values of its _occurrence.
THEOREM PermanentKept == InjSpec => []PermanentStays
<1>1. InjInv => PermanentStays
  BY DEF InjInv
<1> QED BY <1>1, InjectorInvariant, PTL

\* With the hooks in place, as without them: under the intended use of the pseudo
\* instructions the vector is not left, and every thread is charged with its own
\* events.
THEOREM HooksKeepThreadTable ==
  ASSUME Liberty = {}
  PROVE  InjSpec => [](NoWildAccess /\ SlotsDistinct /\ CountsOwnEvents)
<1>1. Spec => []NoWildAccess
  BY VectorAccessesInRange
<1>2. Spec => []SlotsDistinct
  BY PositionsDistinct
<1>3. Spec => []CountsOwnEvents
  BY CountersIsolated
<1>4. InjSpec => Spec
  BY ThreadTableImplemented DEF ImplementsThreadTable
<1> QED BY <1>1, <1>2, <1>3, <1>4, PTL
=============================================================================
