--------------------------- MODULE FiSystemProofs ---------------------------
(***************************************************************************)
(* Proofs about the thread table of Fi_System, and that the injector that  *)
(* is built on it keeps its types and drives the table as FiSystem allows, *)
(* for any set of cores, PCBs and thread ids, any fault files, and any     *)
(* width of int and uint64_t that WidthAssumption allows.                  *)
(***************************************************************************)
EXTENDS FaultInjector, SequenceLemmas

\* Counting an event keeps a thread record well typed.
LEMMA CountOnType ==
  ASSUME NEW th \in Thread, NEW c \in Core, NEW k \in Counter, NEW n \in Nat
  PROVE  CountOn(th, c, k, n) \in Thread
<1>1. th.cnt \in [Core -> Block] /\ th.cores \in SUBSET Core
  BY DEF Thread
<1>2. ZeroBlock \in Block
  BY DEF ZeroBlock, Block
<1>3. CASE c \notin th.cores
  BY <1>1, <1>2, <1>3, Zenon DEF CountOn, Thread
<1>4. CASE c \in th.cores
  <2>1. [th.cnt EXCEPT ![c][k] = @ + n] \in [Core -> Block]
    BY <1>1 DEF Block
  <2>2. CountOn(th, c, k, n) = [th EXCEPT !.cnt = [th.cnt EXCEPT ![c][k] = @ + n]]
    BY <1>4 DEF CountOn, Thread
  <2> QED BY <2>1, <2>2 DEF Thread
<1> QED BY <1>3, <1>4

LEMMA NewThreadType ==
  ASSUME NEW id \in ThreadId
  PROVE  NewThread(id) \in Thread
BY AddrAssumption DEF NewThread, Thread, ZeroBlock, Block

LEMMA InitType == Init => TypeOK
<1> SUFFICES ASSUME Init PROVE TypeOK
  OBVIOUS
<1>1. wild \subseteq Reader
  BY Zenon DEF Init
<1>2. ran \in [Pcb -> [Core -> Block]]
  BY DEF Init, NothingRan, ZeroBlock, Block
<1>3. threadList \in Seq(Thread) /\ vectorpos \in Nat
  BY DEF Init
<1>4. fi_activation \in [Pcb -> Nat \cup {Absent, Stopped}]
  BY DEF Init
<1> QED BY <1>1, <1>2, <1>3, <1>4 DEF TypeOK

LEMMA CountEventType ==
  ASSUME TypeOK, NEW p \in Pcb, NEW c \in Core, NEW k \in Counter, NEW n \in Nat,
         CountEvent(p, c, k, n, CountOn(ThreadOf(p), c, k, n))
  PROVE  TypeOK'
<1>1. ran' \in [Pcb -> [Core -> Block]]
  BY DEF TypeOK, CountEvent, Block
<1>2. threadList' \in Seq(Thread)
  <2>1. CASE InRange(fi_activation[p])
    <3>1. ThreadOf(p) \in Thread
      BY <2>1 DEF TypeOK, InRange, ThreadOf
    <3>2. CountOn(ThreadOf(p), c, k, n) \in Thread
      BY <3>1, CountOnType
    <3> QED BY <2>1, <3>2 DEF TypeOK, CountEvent, InRange
  <2>2. CASE ~InRange(fi_activation[p])
    BY <2>2 DEF TypeOK, CountEvent
  <2> QED BY <2>1, <2>2
<1>3. wild' \subseteq Reader
  BY DEF TypeOK, CountEvent, Indexes, Reader
<1> QED BY <1>1, <1>2, <1>3 DEF TypeOK, CountEvent

LEMMA ExceptOutside ==
  ASSUME NEW S, NEW s \in Seq(S), NEW i, i \notin 1 .. Len(s), NEW v
  PROVE  [s EXCEPT ![i] = v] = s
<1>1. DOMAIN s = 1 .. Len(s)
  OBVIOUS
<1>2. s = [j \in DOMAIN s |-> s[j]]
  OBVIOUS
<1> QED BY <1>1, <1>2, Zenon

\* Type correctness of one step.
LEMMA NextType == TypeOK /\ [Next]_tvars => TypeOK'
<1> SUFFICES ASSUME TypeOK, [Next]_tvars PROVE TypeOK'
  OBVIOUS
<1>1. ASSUME NEW p \in Pcb, NEW id \in ThreadId, NEW a \in Addr, ActivateNew(p, id, a)
      PROVE  TypeOK'
  <2>1. NewThread(id) \in Thread
    BY NewThreadType
  <2>2. Append(threadList, NewThread(id)) \in Seq(Thread)
    BY <2>1 DEF TypeOK
  <2>3. threadList' \in Seq(Thread)
    <3> DEFINE new == Append(threadList, NewThread(id))
    <3>1. threadList' = [new EXCEPT ![vectorpos + 1] = [new[vectorpos + 1] EXCEPT !.magic = a]]
      BY <1>1 DEF ActivateNew
    <3> HIDE DEF new
    <3>2. CASE vectorpos + 1 \in 1 .. Len(new)
      <4>1. new[vectorpos + 1] \in Thread
        BY <2>2, <3>2 DEF new
      <4>2. [new[vectorpos + 1] EXCEPT !.magic = a] \in Thread
        BY <4>1 DEF Thread
      <4> QED BY <2>2, <3>1, <3>2, <4>2 DEF new
    <3>3. CASE vectorpos + 1 \notin 1 .. Len(new)
      <4>1. threadList' = new
        BY <2>2, <3>1, <3>3, ExceptOutside DEF new
      <4> QED BY <2>2, <4>1 DEF new
    <3> QED BY <3>2, <3>3
  <2>4. ran' \in [Pcb -> [Core -> Block]]
    BY <1>1 DEF TypeOK, ActivateNew, NothingRan, ZeroBlock, Block
  <2>5. wild' \subseteq Reader
    BY <1>1 DEF TypeOK, ActivateNew, Reader
  <2>6. fi_activation' \in [Pcb -> Nat \cup {Absent, Stopped}] /\ vectorpos' \in Nat
    BY <1>1 DEF TypeOK, ActivateNew
  <2> QED BY <2>3, <2>4, <2>5, <2>6 DEF TypeOK
<1>2. ASSUME NEW p \in Pcb, Deactivate(p) PROVE TypeOK'
  <2>1. ran' \in [Pcb -> [Core -> Block]]
    BY <1>2 DEF TypeOK, Deactivate, NothingRan, ZeroBlock, Block
  <2>2. wild' \subseteq Reader
    BY <1>2 DEF TypeOK, Deactivate, Indexes, Reader
  <2> QED BY <1>2, <2>1, <2>2 DEF TypeOK, Deactivate
<1>3. ASSUME NEW p \in Pcb, NEW a \in Addr, get_Pc_address(p, a) PROVE TypeOK'
  <2>1. threadList' \in Seq(Thread)
    <3>1. CASE InRange(fi_activation[p])
      <4>1. ThreadOf(p) \in Thread
        BY <3>1 DEF TypeOK, InRange, ThreadOf
      <4>2. [ThreadOf(p) EXCEPT !.magic = a] \in Thread
        BY <4>1 DEF Thread
      <4> QED BY <1>3, <3>1, <4>2 DEF TypeOK, get_Pc_address, InRange, ThreadOf
    <3>2. CASE ~InRange(fi_activation[p])
      BY <1>3, <3>2 DEF TypeOK, get_Pc_address
    <3> QED BY <3>1, <3>2
  <2>2. wild' \subseteq Reader
    BY <1>3 DEF TypeOK, get_Pc_address, Indexes, Reader
  <2> QED BY <1>3, <2>1, <2>2 DEF TypeOK, get_Pc_address
<1>4. CASE init_fi_system
  <2>1. wild' \subseteq Reader
    BY <1>4 DEF init_fi_system, ResetThreads, TypeOK, Reader
  <2> QED BY <1>4, <2>1 DEF init_fi_system, ResetThreads, TypeOK
<1>5. ASSUME NEW p \in Pcb, NEW c \in Core, increase_instr_fetched(p, c) PROVE TypeOK'
  BY <1>5, CountEventType DEF increase_instr_fetched, increaseFetchedInstr, Counter
<1>6. ASSUME NEW p \in Pcb, NEW c \in Core, increase_instr_decoded(p, c) PROVE TypeOK'
  BY <1>6, CountEventType DEF increase_instr_decoded, increaseDecodedInstr, Counter
<1>7. ASSUME NEW p \in Pcb, NEW c \in Core, increase_instr_executed(p, c) PROVE TypeOK'
  BY <1>7, CountEventType DEF increase_instr_executed, increaseExecutedInstr, Counter
<1>8. ASSUME NEW p \in Pcb, NEW c \in Core, NEW n \in Latency, increase_ticks(p, c, n)
      PROVE  TypeOK'
  BY <1>8, CountEventType, LatencyAssumption DEF increase_ticks, increaseTicks, Counter
<1>9. ASSUME NEW p \in Pcb, ReadThread(p) PROVE TypeOK'
  <2>1. wild' \subseteq Reader
    BY <1>9 DEF ReadThread, Indexes, TypeOK, Reader
  <2> QED BY <1>9, <2>1 DEF ReadThread, TypeOK
<1>10. CASE UNCHANGED tvars
  BY <1>10 DEF tvars, TypeOK
<1> QED
  BY <1>1, <1>2, <1>3, <1>4, <1>5, <1>6, <1>7, <1>8, <1>9, <1>10 DEF Next, fi_activate_inst

-----------------------------------------------------------------------------
(* The inductive invariant.  NoWildAccess and CountsOwnEvents are not      *)
(* inductive alone: that an event of one PCB reaches its own thread record *)
(* and no other rests on SlotsDistinct, which in turn needs vectorpos to   *)
(* be the length of the vector when the next PCB activates.                *)

IInv == TypeOK /\ NoWildAccess /\ SlotsDistinct /\ CountsOwnEvents

\* One more event leaves exactly the first event of each core uncounted.
LEMMA CountOnFirstEvent ==
  ASSUME NEW th \in Thread, NEW r \in [Core -> Block],
         NEW c \in Core, NEW k \in Counter, NEW n \in Nat \ {0}, k # Ticks => n = 1,
         FirstEventMissing(th, r)
  PROVE  FirstEventMissing(CountOn(th, c, k, n), [r EXCEPT ![c][k] = @ + n])
<1> DEFINE th2 == CountOn(th, c, k, n)
           r2 == [r EXCEPT ![c][k] = @ + n]
<1>1. th.cnt \in [Core -> Block] /\ th.cores \in SUBSET Core
  BY DEF Thread
<1>2. ASSUME NEW d \in Core, d # c
      PROVE  r2[d] = r[d] /\ th2.cnt[d] = th.cnt[d] /\ (d \in th2.cores <=> d \in th.cores)
  <2>1. r2[d] = r[d]
    BY <1>2
  <2>2. CASE c \in th.cores
    <3>1. th2.cores = th.cores /\ th2.cnt = [th.cnt EXCEPT ![c][k] = @ + n]
      BY <2>2 DEF CountOn, Thread
    <3> QED BY <1>1, <1>2, <2>1, <3>1
  <2>3. CASE c \notin th.cores
    <3>1. th2.cores = th.cores \cup {c} /\ th2.cnt = [th.cnt EXCEPT ![c] = ZeroBlock]
      BY <2>3 DEF CountOn, Thread
    <3> QED BY <1>1, <1>2, <2>1, <3>1
  <2> QED BY <2>2, <2>3
<1>3. c \in th2.cores
  BY <1>1 DEF CountOn, Thread
<1>4. \E j \in Counter :
        /\ r2[c][j] > th2.cnt[c][j]
        /\ j # Ticks => r2[c][j] = th2.cnt[c][j] + 1
        /\ \A i \in Counter \ {j} : r2[c][i] = th2.cnt[c][i]
  <2>1. r2[c] = [r[c] EXCEPT ![k] = @ + n]
    OBVIOUS
  <2>2. CASE c \in th.cores
    <3>1. th2.cnt = [th.cnt EXCEPT ![c][k] = @ + n]
      BY <2>2 DEF CountOn, Thread
    <3>2. th2.cnt[c] = [th.cnt[c] EXCEPT ![k] = @ + n]
      BY <1>1, <3>1
    <3>3. PICK j \in Counter :
            /\ r[c][j] > th.cnt[c][j]
            /\ j # Ticks => r[c][j] = th.cnt[c][j] + 1
            /\ \A i \in Counter \ {j} : r[c][i] = th.cnt[c][i]
      BY <2>2 DEF FirstEventMissing
    <3>4. r[c] \in [Counter -> Nat] /\ th.cnt[c] \in [Counter -> Nat]
      BY <1>1 DEF Block
    <3> HIDE DEF th2, r2
    <3> WITNESS j \in Counter
    <3> QED BY <2>1, <3>2, <3>3, <3>4
  <2>3. CASE c \notin th.cores
    <3>1. th2.cnt = [th.cnt EXCEPT ![c] = ZeroBlock]
      BY <2>3 DEF CountOn, Thread
    <3>2. th2.cnt[c] = ZeroBlock /\ r[c] = ZeroBlock
      BY <1>1, <2>3, <3>1 DEF FirstEventMissing
    <3> HIDE DEF th2, r2
    <3> WITNESS k \in Counter
    <3> QED BY <2>1, <3>2 DEF ZeroBlock
  <2> QED BY <2>2, <2>3
<1> HIDE DEF th2, r2
<1>5. FirstEventMissing(th2, r2)
  BY <1>2, <1>3, <1>4 DEF FirstEventMissing
<1> QED BY <1>5 DEF th2, r2

\* Counting an event of p keeps the invariant.
LEMMA CountEventInv ==
  ASSUME IInv, NEW p \in Pcb, NEW c \in Core, NEW k \in Counter, NEW n \in Nat \ {0},
         k # Ticks => n = 1,
         CountEvent(p, c, k, n, CountOn(ThreadOf(p), c, k, n)), TypeOK'
  PROVE  IInv'
<1>1. Active(p) /\ InRange(fi_activation[p])
  BY DEF IInv, SlotsDistinct, CountEvent
<1>2. /\ threadList' = [threadList EXCEPT ![fi_activation[p] + 1] = CountOn(ThreadOf(p), c, k, n)]
      /\ Len(threadList') = Len(threadList)
      /\ UNCHANGED <<wild, fi_activation, vectorpos>>
      /\ ran' = [ran EXCEPT ![p][c][k] = @ + n]
  BY <1>1 DEF CountEvent, Indexes, IInv, TypeOK
<1>3. SlotsDistinct' /\ NoWildAccess'
  BY <1>2 DEF IInv, SlotsDistinct, NoWildAccess, Active, InRange
<1>4. ASSUME NEW q \in Pcb, Active(q)' PROVE FirstEventMissing(ThreadOf(q)', ran'[q])
  <2>1. Active(q) /\ InRange(fi_activation[q])
    BY <1>2, <1>4 DEF IInv, SlotsDistinct, Active
  <2>2. ThreadOf(q) \in Thread /\ ran[q] \in [Core -> Block]
    BY <2>1 DEF IInv, TypeOK, InRange, ThreadOf
  <2>3. FirstEventMissing(ThreadOf(q), ran[q])
    BY <2>1 DEF IInv, CountsOwnEvents
  <2>4. CASE q = p
    <3>1. ThreadOf(q)' = CountOn(ThreadOf(q), c, k, n)
      BY <1>1, <1>2, <2>4 DEF ThreadOf, InRange, IInv, TypeOK
    <3>2. ran'[q] = [ran[q] EXCEPT ![c][k] = @ + n]
      BY <1>2, <2>4 DEF IInv, TypeOK
    <3> QED BY <2>2, <2>3, <3>1, <3>2, CountOnFirstEvent
  <2>5. CASE q # p
    <3>1. fi_activation[q] # fi_activation[p]
      BY <1>1, <2>1, <2>5 DEF IInv, SlotsDistinct
    <3>2. ThreadOf(q)' = ThreadOf(q)
      BY <1>1, <1>2, <2>1, <3>1 DEF ThreadOf, InRange, IInv, TypeOK, Active
    <3>3. ran'[q] = ran[q]
      BY <1>2, <2>5 DEF IInv, TypeOK
    <3> QED BY <2>3, <3>2, <3>3
  <2> QED BY <2>4, <2>5
<1>5. CountsOwnEvents'
  BY <1>4 DEF CountsOwnEvents
<1> QED BY <1>3, <1>5 DEF IInv

\* A new record has no core and no event, as a PCB that has just activated.
LEMMA NewThreadFirstEvent ==
  ASSUME NEW id \in ThreadId, NEW a \in Addr
  PROVE  FirstEventMissing([NewThread(id) EXCEPT !.magic = a], NothingRan)
<1> DEFINE th == [NewThread(id) EXCEPT !.magic = a]
<1>1. th.cores = {} /\ th.cnt = [c \in Core |-> ZeroBlock]
  BY DEF NewThread
<1> HIDE DEF th
<1>2. FirstEventMissing(th, NothingRan)
  BY <1>1 DEF FirstEventMissing, NothingRan
<1> QED BY <1>2 DEF th

LEMMA ActivateInv ==
  ASSUME IInv, NEW p \in Pcb, NEW id \in ThreadId, NEW a \in Addr,
         ActivateNew(p, id, a), TypeOK'
  PROVE  IInv'
<1> DEFINE th == [NewThread(id) EXCEPT !.magic = a]
<1>1. vectorpos = Len(threadList) /\ vectorpos \in Nat /\ threadList \in Seq(Thread)
  BY DEF IInv, TypeOK, SlotsDistinct
<1>2. /\ Len(threadList') = Len(threadList) + 1
      /\ threadList'[vectorpos + 1] = th
      /\ \A i \in 1 .. Len(threadList) : threadList'[i] = threadList[i]
  <2> DEFINE new == Append(threadList, NewThread(id))
  <2>1. NewThread(id) \in Thread
    BY NewThreadType
  <2>2. /\ new \in Seq(Thread) /\ Len(new) = Len(threadList) + 1
        /\ new[vectorpos + 1] = NewThread(id)
        /\ \A i \in 1 .. Len(threadList) : new[i] = threadList[i]
    BY <1>1, <2>1
  <2>3. threadList' = [new EXCEPT ![vectorpos + 1] = [new[vectorpos + 1] EXCEPT !.magic = a]]
    BY DEF ActivateNew
  <2> HIDE DEF new, th
  <2>4. threadList' = [new EXCEPT ![vectorpos + 1] = th]
    BY <2>2, <2>3 DEF th
  <2> QED BY <1>1, <2>2, <2>4
<1> HIDE DEF th
<1>3. /\ fi_activation' = [fi_activation EXCEPT ![p] = vectorpos]
      /\ vectorpos' = vectorpos + 1 /\ ran' = [ran EXCEPT ![p] = NothingRan]
      /\ wild' = wild
  BY <1>1 DEF ActivateNew, IInv, TypeOK
<1>4. \A q \in Pcb \ {p} : Active(q)' <=> Active(q)
  BY <1>3 DEF Active, IInv, TypeOK
<1>5. SlotsDistinct' /\ NoWildAccess'
  BY <1>1, <1>2, <1>3, <1>4 DEF IInv, TypeOK, SlotsDistinct, NoWildAccess, InRange
<1>6. ASSUME NEW q \in Pcb, Active(q)' PROVE FirstEventMissing(ThreadOf(q)', ran'[q])
  <2>1. CASE q = p
    <3>1. ThreadOf(q)' = th /\ ran'[q] = NothingRan
      BY <1>2, <1>3, <2>1 DEF ThreadOf, IInv, TypeOK
    <3> QED BY <3>1, NewThreadFirstEvent DEF th
  <2>2. CASE q # p
    <3>1. Active(q) /\ InRange(fi_activation[q]) /\ fi_activation'[q] = fi_activation[q]
      BY <1>3, <1>4, <1>6, <2>2 DEF IInv, TypeOK, SlotsDistinct
    <3>2. ThreadOf(q)' = ThreadOf(q) /\ ran'[q] = ran[q]
      BY <1>2, <1>3, <2>2, <3>1 DEF ThreadOf, InRange, IInv, TypeOK
    <3> QED BY <3>1, <3>2 DEF IInv, CountsOwnEvents
  <2> QED BY <2>1, <2>2
<1>7. CountsOwnEvents'
  BY <1>6 DEF CountsOwnEvents
<1> QED BY <1>5, <1>7 DEF IInv

LEMMA DeactivateInv ==
  ASSUME Liberty = {}, IInv, NEW p \in Pcb, Deactivate(p), TypeOK'
  PROVE  IInv'
<1>1. Active(p)
  BY DEF Deactivate, Active
<1>2. InRange(fi_activation[p])
  BY <1>1 DEF IInv, SlotsDistinct
<1>3. /\ fi_activation' = [fi_activation EXCEPT ![p] = Stopped]
      /\ ran' = [ran EXCEPT ![p] = NothingRan]
      /\ UNCHANGED <<threadList, vectorpos>>
  BY DEF Deactivate
<1>4. NoWildAccess'
  BY <1>2, Zenon DEF Deactivate, Indexes, IInv, NoWildAccess
<1>5. ASSUME NEW q \in Pcb, Active(q)'
      PROVE  Active(q) /\ fi_activation'[q] = fi_activation[q] /\ ran'[q] = ran[q]
  BY <1>3, <1>5 DEF Active, IInv, TypeOK
<1>6. SlotsDistinct'
  BY <1>3, <1>5 DEF SlotsDistinct, IInv, InRange
<1>7. CountsOwnEvents'
  BY <1>3, <1>5 DEF CountsOwnEvents, IInv, ThreadOf
<1> QED BY <1>4, <1>6, <1>7 DEF IInv

LEMMA GetPcInv ==
  ASSUME Liberty = {}, IInv, NEW p \in Pcb, NEW a \in Addr, get_Pc_address(p, a), TypeOK'
  PROVE  IInv'
<1> DEFINE th == [ThreadOf(p) EXCEPT !.magic = a]
<1>1. InRange(fi_activation[p])
  BY DEF get_Pc_address, Active, IInv, SlotsDistinct
<1>2. ThreadOf(p) \in Thread
  BY <1>1 DEF IInv, TypeOK, InRange, ThreadOf
<1>3. th.cores = ThreadOf(p).cores /\ th.cnt = ThreadOf(p).cnt
  BY <1>2 DEF Thread
<1>4. threadList' = [threadList EXCEPT ![fi_activation[p] + 1] = th]
  BY <1>1 DEF get_Pc_address, IInv, TypeOK, ThreadOf, InRange
<1> HIDE DEF th
<1>5. UNCHANGED <<fi_activation, vectorpos, ran, wild>>
  BY <1>1 DEF get_Pc_address, Indexes
<1>6. /\ Len(threadList') = Len(threadList)
      /\ \A i \in 1 .. Len(threadList) :
           threadList'[i].cores = threadList[i].cores /\ threadList'[i].cnt = threadList[i].cnt
  BY <1>1, <1>3, <1>4 DEF IInv, TypeOK, InRange, ThreadOf
<1>7. SlotsDistinct' /\ NoWildAccess'
  BY <1>5, <1>6, SMTT(30) DEF IInv, SlotsDistinct, NoWildAccess, Active, InRange
<1>8. CountsOwnEvents'
  BY <1>5, <1>6
     DEF IInv, SlotsDistinct, CountsOwnEvents, FirstEventMissing, Active, InRange, ThreadOf
<1> QED BY <1>7, <1>8 DEF IInv

LEMMA ResetInv ==
  ASSUME Liberty = {}, IInv, init_fi_system, TypeOK'
  PROVE  IInv'
<1>1. \A p \in Pcb : ~Active(p)
  BY DEF init_fi_system
<1>2. NoWildAccess'
  BY DEF init_fi_system, ResetThreads, IInv, NoWildAccess
<1> QED
  BY <1>1, <1>2 DEF init_fi_system, ResetThreads, IInv, SlotsDistinct, CountsOwnEvents, Active

LEMMA NextInv == Liberty = {} /\ IInv /\ [Next]_tvars => IInv'
<1> SUFFICES ASSUME Liberty = {}, IInv, [Next]_tvars PROVE IInv'
  OBVIOUS
<1>1. TypeOK'
  BY NextType DEF IInv
<1>2. ASSUME NEW p \in Pcb, NEW id \in ThreadId, NEW a \in Addr, fi_activate_inst(p, id, a)
      PROVE  IInv'
  BY <1>1, <1>2, ActivateInv, DeactivateInv DEF fi_activate_inst
<1>3. ASSUME NEW p \in Pcb, NEW a \in Addr, get_Pc_address(p, a) PROVE IInv'
  BY <1>1, <1>3, GetPcInv
<1>4. CASE init_fi_system
  BY <1>1, <1>4, ResetInv
<1>5. ASSUME NEW p \in Pcb, NEW c \in Core, increase_instr_fetched(p, c) PROVE IInv'
  BY <1>1, <1>5, CountEventInv DEF increase_instr_fetched, increaseFetchedInstr, Counter
<1>6. ASSUME NEW p \in Pcb, NEW c \in Core, increase_instr_decoded(p, c) PROVE IInv'
  BY <1>1, <1>6, CountEventInv DEF increase_instr_decoded, increaseDecodedInstr, Counter
<1>7. ASSUME NEW p \in Pcb, NEW c \in Core, increase_instr_executed(p, c) PROVE IInv'
  BY <1>1, <1>7, CountEventInv DEF increase_instr_executed, increaseExecutedInstr, Counter
<1>8. ASSUME NEW p \in Pcb, NEW c \in Core, NEW n \in Latency, increase_ticks(p, c, n)
      PROVE  IInv'
  BY <1>1, <1>8, CountEventInv, LatencyAssumption DEF increase_ticks, increaseTicks, Counter
<1>9. ASSUME UNCHANGED tvars PROVE IInv'
  BY <1>1, <1>9 DEF tvars, IInv, NoWildAccess, SlotsDistinct, CountsOwnEvents, Active,
                    InRange, ThreadOf
<1>10. ASSUME NEW p \in Pcb, ReadThread(p) PROVE IInv'
  <2>1. InRange(fi_activation[p])
    BY <1>10 DEF ReadThread, IInv, SlotsDistinct
  <2>2. wild' = wild
    BY <1>10, <2>1 DEF ReadThread, Indexes
  <2> QED BY <1>9, <1>10, <2>2 DEF ReadThread, tvars
<1> QED BY <1>2, <1>3, <1>4, <1>5, <1>6, <1>7, <1>8, <1>9, <1>10 DEF Next

LEMMA InitInv == Init => IInv
<1> SUFFICES ASSUME Init PROVE IInv
  OBVIOUS
<1>1. TypeOK
  BY InitType
<1>2. \A p \in Pcb : ~Active(p)
  BY DEF Init, Active
<1>3. NoWildAccess
  BY Zenon DEF Init, NoWildAccess
<1> QED BY <1>1, <1>2, <1>3 DEF Init, IInv, SlotsDistinct, CountsOwnEvents

-----------------------------------------------------------------------------

\* The variables of the thread table keep their types whatever the guest does.
THEOREM TypeCorrect == Spec => []TypeOK
<1> QED BY InitType, NextType, PTL DEF Spec

\* Under the intended use of the pseudo instructions no access of the thread
\* vector by one of them (pseudo_inst.cc:247, 261, 299), by a hook or by the counting
\* of an event leaves it, whatever dump() does at the end of a reset.
THEOREM VectorAccessesInRange ==
  ASSUME Liberty = {}
  PROVE  Spec => []NoWildAccess
<1>1. IInv => NoWildAccess
  BY DEF IInv
<1>2. IInv /\ [Next]_tvars => IInv'
  BY NextInv
<1> QED BY <1>1, <1>2, InitInv, PTL DEF Spec

\* Under the intended use every active PCB has a position of its own.
THEOREM PositionsDistinct ==
  ASSUME Liberty = {}
  PROVE  Spec => []SlotsDistinct
<1>1. IInv => SlotsDistinct
  BY DEF IInv
<1>2. IInv /\ [Next]_tvars => IInv'
  BY NextInv
<1> QED BY <1>1, <1>2, InitInv, PTL DEF Spec

\* Under the intended use the counters of an active thread hold all of its own
\* events except the first on each core, and no event of another thread.
THEOREM CountersIsolated ==
  ASSUME Liberty = {}
  PROVE  Spec => []CountsOwnEvents
<1>1. IInv => CountsOwnEvents
  BY DEF IInv
<1>2. IInv /\ [Next]_tvars => IInv'
  BY NextInv
<1> QED BY <1>1, <1>2, InitInv, PTL DEF Spec

-----------------------------------------------------------------------------
(* What a step of the thread table does to the record of one PCB.          *)

Kept(q) ==
  /\ Active(q)
  /\ ThreadOf(q)'.cores = ThreadOf(q).cores /\ ThreadOf(q)'.cnt = ThreadOf(q).cnt
  /\ ran'[q] = ran[q]

Fresh(q) ==
  /\ ThreadOf(q)'.cores = {} /\ ThreadOf(q)'.cnt = [c \in Core |-> ZeroBlock]
  /\ ran'[q] = NothingRan

LEMMA ActiveThread ==
  ASSUME IInv, NEW q \in Pcb, Active(q)
  PROVE  /\ InRange(fi_activation[q]) /\ fi_activation[q] \in Nat
         /\ ThreadOf(q) \in Thread /\ ran[q] \in [Core -> Block]
<1>1. InRange(fi_activation[q])
  BY DEF IInv, SlotsDistinct
<1> QED BY <1>1 DEF IInv, TypeOK, InRange, ThreadOf, Active

\* Activating a PCB gives it a fresh record and leaves the others alone.
LEMMA ActivateEffect ==
  ASSUME IInv, NEW p \in Pcb, NEW id \in ThreadId, NEW a \in Addr, ActivateNew(p, id, a),
         NEW q \in Pcb, Active(q)'
  PROVE  IF q = p THEN Fresh(q) ELSE Kept(q)
<1> DEFINE th == [NewThread(id) EXCEPT !.magic = a]
<1>1. vectorpos = Len(threadList) /\ vectorpos \in Nat /\ threadList \in Seq(Thread)
  BY DEF IInv, TypeOK, SlotsDistinct
<1>2. /\ threadList'[vectorpos + 1] = th
      /\ \A i \in 1 .. Len(threadList) : threadList'[i] = threadList[i]
  <2> DEFINE new == Append(threadList, NewThread(id))
  <2>1. NewThread(id) \in Thread
    BY NewThreadType
  <2>2. /\ new \in Seq(Thread) /\ Len(new) = Len(threadList) + 1
        /\ new[vectorpos + 1] = NewThread(id)
        /\ \A i \in 1 .. Len(threadList) : new[i] = threadList[i]
    BY <1>1, <2>1
  <2>3. threadList' = [new EXCEPT ![vectorpos + 1] = [new[vectorpos + 1] EXCEPT !.magic = a]]
    BY DEF ActivateNew
  <2> HIDE DEF new, th
  <2>4. threadList' = [new EXCEPT ![vectorpos + 1] = th]
    BY <2>2, <2>3 DEF th
  <2> QED BY <1>1, <2>2, <2>4
<1>3. th.cores = {} /\ th.cnt = [c \in Core |-> ZeroBlock]
  BY DEF NewThread
<1> HIDE DEF th
<1>4. /\ fi_activation' = [fi_activation EXCEPT ![p] = vectorpos]
      /\ ran' = [ran EXCEPT ![p] = NothingRan]
      /\ fi_activation \in [Pcb -> Nat \cup {Absent, Stopped}] /\ ran \in [Pcb -> [Core -> Block]]
  BY DEF ActivateNew, IInv, TypeOK
<1>5. CASE q = p
  BY <1>2, <1>3, <1>4, <1>5 DEF Fresh, ThreadOf
<1>6. CASE q # p
  <2>1. fi_activation'[q] = fi_activation[q] /\ ran'[q] = ran[q] /\ Active(q)
    BY <1>4, <1>6 DEF Active
  <2>2. InRange(fi_activation[q])
    BY <2>1, ActiveThread
  <2> QED BY <1>2, <1>6, <2>1, <2>2 DEF Kept, ThreadOf, InRange
<1> QED BY <1>5, <1>6

\* Deactivating a PCB and storing a PC keep the counters of the other PCBs, or of
\* all of them.
LEMMA DeactivateEffect ==
  ASSUME IInv, NEW p \in Pcb, Deactivate(p), NEW q \in Pcb, Active(q)'
  PROVE  Kept(q) /\ q # p
<1>1. /\ fi_activation' = [fi_activation EXCEPT ![p] = Stopped]
      /\ ran' = [ran EXCEPT ![p] = NothingRan] /\ threadList' = threadList
  BY DEF Deactivate
<1> QED BY <1>1 DEF IInv, TypeOK, Active, Kept, ThreadOf

LEMMA GetPcEffect ==
  ASSUME Liberty = {}, IInv, NEW p \in Pcb, NEW a \in Addr, get_Pc_address(p, a),
         NEW q \in Pcb, Active(q)'
  PROVE  Kept(q)
<1> DEFINE th == [ThreadOf(p) EXCEPT !.magic = a]
<1>1. Active(p) /\ InRange(fi_activation[p]) /\ ThreadOf(p) \in Thread
  BY ActiveThread DEF get_Pc_address, Active
<1>2. th.cores = ThreadOf(p).cores /\ th.cnt = ThreadOf(p).cnt
  BY <1>1 DEF Thread
<1>3. threadList' = [threadList EXCEPT ![fi_activation[p] + 1] = th]
  BY <1>1 DEF get_Pc_address, IInv, TypeOK, ThreadOf, InRange
<1> HIDE DEF th
<1>4. UNCHANGED <<fi_activation, ran>>
  BY DEF get_Pc_address
<1>5. \A i \in 1 .. Len(threadList) :
        threadList'[i].cores = threadList[i].cores /\ threadList'[i].cnt = threadList[i].cnt
  BY <1>1, <1>2, <1>3 DEF IInv, TypeOK, InRange, ThreadOf
<1>6. Active(q)
  BY <1>4 DEF Active
<1>7. InRange(fi_activation[q])
  BY <1>6, ActiveThread
<1> QED BY <1>4, <1>5, <1>6, <1>7 DEF Kept, ThreadOf, InRange

\* Counting an event changes the record of the PCB it is counted for.
LEMMA CountEffect ==
  ASSUME IInv, NEW p \in Pcb, NEW c \in Core, NEW k \in Counter, NEW n \in Nat,
         CountEvent(p, c, k, n, CountOn(ThreadOf(p), c, k, n)),
         NEW q \in Pcb, Active(q)'
  PROVE  /\ Active(q)
         /\ q # p => Kept(q)
         /\ q = p => /\ ThreadOf(q)' = CountOn(ThreadOf(q), c, k, n)
                     /\ ran'[q] = [ran[q] EXCEPT ![c][k] = @ + n]
<1>1. Active(p) /\ InRange(fi_activation[p])
  BY ActiveThread DEF CountEvent
<1>2. /\ threadList' = [threadList EXCEPT ![fi_activation[p] + 1] = CountOn(ThreadOf(p), c, k, n)]
      /\ UNCHANGED fi_activation
      /\ ran' = [ran EXCEPT ![p][c][k] = @ + n]
  BY <1>1 DEF CountEvent, Indexes, IInv, TypeOK
<1>3. Active(q)
  BY <1>2 DEF Active
<1>4. InRange(fi_activation[q])
  BY <1>3, ActiveThread
<1>5. CASE q = p
  BY <1>2, <1>3, <1>4, <1>5 DEF ThreadOf, InRange, IInv, TypeOK
<1>6. CASE q # p
  <2>1. fi_activation[q] # fi_activation[p]
    BY <1>1, <1>3, <1>6 DEF IInv, SlotsDistinct
  <2>2. ThreadOf(q)' = ThreadOf(q)
    BY <1>1, <1>2, <1>3, <1>4, <2>1 DEF ThreadOf, InRange, IInv, TypeOK, Active
  <2>3. ran'[q] = ran[q]
    BY <1>2, <1>6 DEF IInv, TypeOK
  <2> QED BY <1>3, <1>6, <2>2, <2>3 DEF Kept
<1> QED BY <1>3, <1>5, <1>6

\* The counters after an event: the first on a core only makes the core known.
LEMMA CountOnFields ==
  ASSUME NEW th \in Thread, NEW c \in Core, NEW k \in Counter, NEW n \in Nat,
         c \notin th.cores => th.cnt[c] = ZeroBlock
  PROVE  /\ CountOn(th, c, k, n).cores = th.cores \cup {c}
         /\ c \in th.cores => CountOn(th, c, k, n).cnt = [th.cnt EXCEPT ![c][k] = @ + n]
         /\ c \notin th.cores => CountOn(th, c, k, n).cnt = th.cnt
<1>1. th.cnt \in [Core -> Block] /\ th.cores \in SUBSET Core
  BY DEF Thread
<1>2. CASE c \in th.cores
  <2>1. /\ CountOn(th, c, k, n).cores = th.cores
        /\ CountOn(th, c, k, n).cnt = [th.cnt EXCEPT ![c][k] = @ + n]
    BY <1>2 DEF CountOn, Thread
  <2>2. th.cores = th.cores \cup {c}
    BY <1>2
  <2> QED BY <1>2, <2>1, <2>2, Zenon
<1>3. CASE c \notin th.cores
  <2>1. /\ CountOn(th, c, k, n).cores = th.cores \cup {c}
        /\ CountOn(th, c, k, n).cnt = [th.cnt EXCEPT ![c] = ZeroBlock]
    BY <1>3 DEF CountOn, Thread
  <2>2. [th.cnt EXCEPT ![c] = ZeroBlock] = th.cnt
    <3>1. PICK f \in [Core -> Block] : f = th.cnt
      BY <1>1
    <3>2. f[c] = ZeroBlock => [f EXCEPT ![c] = ZeroBlock] = f
      OBVIOUS
    <3> QED BY <1>3, <3>1, <3>2, Zenon
  <2> QED BY <1>3, <2>1, <2>2, Zenon
<1> QED BY <1>2, <1>3

\* One counter of a PCB's thread on a core, the number of events it counts, and the cores
\* that know the thread.
CntOf(p, c, k) == ThreadOf(p).cnt[c][k]
RanOf(p, c, k) == ran[p][c][k]
CoresOf(p) == ThreadOf(p).cores

LEMMA KeptCounts ==
  ASSUME NEW q, Kept(q), NEW c, NEW k
  PROVE  CntOf(q, c, k)' = CntOf(q, c, k) /\ RanOf(q, c, k)' = RanOf(q, c, k)
BY Zenon DEF Kept, CntOf, RanOf

LEMMA KeptCores ==
  ASSUME NEW q, Kept(q)
  PROVE  CoresOf(q)' = CoresOf(q)
BY Zenon DEF Kept, CoresOf

LEMMA FreshCounts ==
  ASSUME NEW q, Fresh(q), NEW c \in Core, NEW k \in Counter
  PROVE  CntOf(q, c, k)' = 0 /\ RanOf(q, c, k)' = 0
<1>1. ThreadOf(q)'.cnt = [d \in Core |-> ZeroBlock] /\ ran'[q] = NothingRan
  BY Zenon DEF Fresh
<1>2. [d \in Core |-> ZeroBlock][c][k] = 0 /\ NothingRan[c][k] = 0
  BY DEF ZeroBlock, NothingRan
<1> QED BY <1>1, <1>2, Zenon DEF CntOf, RanOf

LEMMA CountsNat ==
  ASSUME IInv, NEW q \in Pcb, Active(q), NEW c \in Core, NEW k \in Counter
  PROVE  CntOf(q, c, k) \in Nat
<1>1. PICK f \in [Core -> Block] : f = ThreadOf(q).cnt
  BY ActiveThread DEF Thread
<1>2. f[c][k] \in Nat
  BY DEF Block
<1> QED BY <1>1, <1>2, Zenon DEF CntOf

LEMMA Increased ==
  ASSUME NEW f \in [Core -> Block], NEW c \in Core, NEW k \in Counter, NEW n \in Nat,
         NEW g, g = [f EXCEPT ![c][k] = @ + n], NEW d \in Core, NEW j \in Counter
  PROVE  /\ f[d][j] \in Nat
         /\ g[d][j] = IF d = c /\ j = k THEN f[d][j] + n ELSE f[d][j]
BY DEF Block

\* The thread that an event is counted for, counter by counter: the event is lost on a
\* core that did not know the thread, and counted on one that did.
LEMMA Counted ==
  ASSUME IInv, NEW p \in Pcb, NEW c \in Core, NEW k \in Counter, NEW n \in Nat,
         CountEvent(p, c, k, n, CountOn(ThreadOf(p), c, k, n))
  PROVE  /\ Active(p) /\ Active(p)' /\ CoresOf(p)' = CoresOf(p) \cup {c}
         /\ \A d \in Core, j \in Counter :
              /\ CntOf(p, d, j) \in Nat /\ RanOf(p, d, j) \in Nat
              /\ RanOf(p, d, j)' = IF d = c /\ j = k THEN RanOf(p, d, j) + n ELSE RanOf(p, d, j)
              /\ d # c \/ j # k \/ c \notin CoresOf(p) => CntOf(p, d, j)' = CntOf(p, d, j)
              /\ d = c /\ j = k /\ c \in CoresOf(p) => CntOf(p, d, j)' = CntOf(p, d, j) + n
<1>1. Active(p) /\ Active(p)'
  BY DEF CountEvent, Active
<1>2. PICK th, th2, r, r2 : th = ThreadOf(p) /\ th2 = ThreadOf(p)' /\ r = ran[p] /\ r2 = ran'[p]
  OBVIOUS
<1>3. th \in Thread /\ r \in [Core -> Block]
  BY <1>1, <1>2, ActiveThread
<1>4. th2 = CountOn(th, c, k, n) /\ r2 = [r EXCEPT ![c][k] = @ + n]
  BY <1>1, <1>2, CountEffect
<1>5. c \notin th.cores => th.cnt[c] = ZeroBlock
  BY <1>1, <1>2 DEF IInv, CountsOwnEvents, FirstEventMissing
<1>6. th.cnt \in [Core -> Block]
  BY <1>3 DEF Thread
<1>7. /\ th2.cores = th.cores \cup {c}
      /\ c \in th.cores => th2.cnt = [th.cnt EXCEPT ![c][k] = @ + n]
      /\ c \notin th.cores => th2.cnt = th.cnt
  BY <1>3, <1>4, <1>5, CountOnFields
<1>8. ASSUME NEW d \in Core, NEW j \in Counter
      PROVE  /\ CntOf(p, d, j) \in Nat /\ RanOf(p, d, j) \in Nat
             /\ RanOf(p, d, j)' = IF d = c /\ j = k THEN RanOf(p, d, j) + n ELSE RanOf(p, d, j)
             /\ d # c \/ j # k \/ c \notin CoresOf(p) => CntOf(p, d, j)' = CntOf(p, d, j)
             /\ d = c /\ j = k /\ c \in CoresOf(p) => CntOf(p, d, j)' = CntOf(p, d, j) + n
  <2>1. /\ CntOf(p, d, j) = th.cnt[d][j] /\ CntOf(p, d, j)' = th2.cnt[d][j]
        /\ RanOf(p, d, j) = r[d][j] /\ RanOf(p, d, j)' = r2[d][j] /\ CoresOf(p) = th.cores
    BY <1>2, Zenon DEF CntOf, RanOf, CoresOf
  <2>2. r[d][j] \in Nat /\ r2[d][j] = IF d = c /\ j = k THEN r[d][j] + n ELSE r[d][j]
    BY <1>3, <1>4, Increased
  <2>3. /\ th.cnt[d][j] \in Nat
        /\ c \in th.cores =>
             th2.cnt[d][j] = IF d = c /\ j = k THEN th.cnt[d][j] + n ELSE th.cnt[d][j]
        /\ c \notin th.cores => th2.cnt[d][j] = th.cnt[d][j]
    <3>1. PICK f, g : f \in [Core -> Block] /\ f = th.cnt /\ g = th2.cnt
      BY <1>6
    <3>2. f[d][j] \in Nat
      BY <3>1 DEF Block
    <3>3. c \in th.cores => g = [f EXCEPT ![c][k] = @ + n]
      BY <1>7, <3>1, Zenon
    <3>4. c \in th.cores => g[d][j] = IF d = c /\ j = k THEN f[d][j] + n ELSE f[d][j]
      BY <3>1, <3>3, Increased
    <3> QED BY <1>7, <3>1, <3>2, <3>4, Zenon
  <2> QED BY <2>1, <2>2, <2>3, Zenon
<1>9. CoresOf(p)' = CoresOf(p) \cup {c}
  BY <1>2, <1>7, Zenon DEF CoresOf
<1> QED BY <1>1, <1>8, <1>9

-----------------------------------------------------------------------------
(* The types of the injector.                                              *)

\* A word plus a step that is neither zero nor a full turn is another word.
LEMMA TickStepMoves ==
  ASSUME NEW t \in 0 .. WordMod - 1
  PROVE  /\ (t + CpuTicks) % WordMod \in 0 .. WordMod - 1
         /\ (t + CpuTicks) % WordMod # t
<1>1. WordMod \in Nat /\ WordMod > 0 /\ CpuTicks \in 1 .. WordMod - 1
  BY WidthAssumption, CpuTicksAssumption
<1>2. CASE t + CpuTicks < WordMod
  <2>1. (t + CpuTicks) % WordMod = t + CpuTicks
    BY <1>1, <1>2
  <2> QED BY <1>1, <1>2, <2>1
<1>3. CASE t + CpuTicks >= WordMod
  <2>1. (t + CpuTicks) % WordMod = t + CpuTicks - WordMod
    BY <1>1, <1>3
  <2> QED BY <1>1, <1>3, <2>1
<1> QED BY <1>1, <1>2, <1>3

\* Division with remainder.
LEMMA ModFacts ==
  ASSUME NEW n \in Nat, NEW m \in Nat, m > 0
  PROVE  n % m \in 0 .. m - 1 /\ n \div m \in Nat /\ n = m * (n \div m) + (n % m)
BY SMT

\* The successor of a word, squeezed through an int, is a word but never the
\* same word: the sign extension does not bring a fault back to its own time.
LEMMA NarrowMoves ==
  ASSUME NEW t \in 0 .. WordMod - 1
  PROVE  Narrow(t + 1) \in 0 .. WordMod - 1 /\ Narrow(t + 1) # t
<1> DEFINE M == IntMod
           W == WordMod
           r == (t + 1) % M
           q == (t + 1) \div M
           k == W \div M
<1>1. M \in Nat /\ M >= 4 /\ W \in Nat /\ W > M /\ W % M = 0
  BY WidthAssumption
<1>2. IntMax \in Nat /\ IntMax < M
  BY WidthAssumption DEF IntMax
<1>3. r \in 0 .. M - 1 /\ q \in Nat /\ t + 1 = M * q + r
  BY <1>1, ModFacts
<1>4. k \in Nat /\ W = M * k
  <2>1. k \in Nat /\ W = M * k + (W % M)
    BY <1>1, ModFacts
  <2> QED BY <1>1, <2>1
<1> HIDE DEF M, W, r, q, k
<1>5. Narrow(t + 1) = IF r > IntMax THEN W - M + r ELSE r
  BY DEF Narrow, M, W, r
<1>6. Narrow(t + 1) \in 0 .. W - 1
  BY <1>1, <1>2, <1>3, <1>5
<1>7. ASSUME Narrow(t + 1) = t PROVE FALSE
  <2>1. CASE r > IntMax
    <3>1. W - M + r + 1 = M * q + r
      BY <1>1, <1>2, <1>3, <1>5, <1>7, <2>1
    <3>2. M * k - M + 1 = M * q
      BY <1>1, <1>3, <1>4, <3>1
    <3>3. M * (k - 1 - q) = -1
      BY <1>1, <1>3, <1>4, <3>2
    <3>4. k - 1 - q >= 0 => M * (k - 1 - q) >= 0
      BY <1>1, <1>3, <1>4
    <3>5. k - 1 - q <= -1 => M * (k - 1 - q) <= -M
      BY <1>1, <1>3, <1>4
    <3> QED BY <1>1, <1>3, <1>4, <3>3, <3>4, <3>5
  <2>2. CASE ~(r > IntMax)
    <3>1. M * q = 1
      BY <1>1, <1>2, <1>3, <1>5, <1>7, <2>2
    <3>2. q >= 1 => M * q >= M
      BY <1>1, <1>3
    <3> QED BY <1>1, <1>3, <3>1, <3>2
  <2> QED BY <2>1, <2>2
<1> QED BY <1>6, <1>7 DEF W

-----------------------------------------------------------------------------

\* The range of an int.
LEMMA IntFacts ==
  /\ IntMax \in Nat /\ IntMax >= 1
  /\ IntMin = -IntMax - 1
  /\ IntMod = 2 * IntMax + 2
<1>1. IntMod \in Nat /\ IntMod % 2 = 0 /\ IntMod >= 4
  BY WidthAssumption
<1>2. IntMod \div 2 \in Nat /\ IntMod = 2 * (IntMod \div 2)
  BY <1>1, ModFacts
<1> QED BY <1>1, <1>2 DEF IntMin, IntMax

\* A step that leaves the thread table and the hook alone leaves the counters alone.
LEMMA CountersUnchanged ==
  ASSUME UNCHANGED <<tvars, hook>>, NEW f
  PROVE  Counters(f, hook)' = Counters(f, hook)
BY DEF tvars, Counters, get_fi_exec_counters, get_fi_decode_counters, get_fi_fetch_counters,
       Concerns, get_core_fetched_time, get_core_decoded_time, get_core_executed_time, CoreTime,
       CalculateFetchedTime, CalculateExecutedTime, Total, ThreadOf, Active, QueueOf

-----------------------------------------------------------------------------
(* Types, and the steps of the hooks seen as steps of the thread table.    *)

\* Every class of faults has a queue.
LEMMA QueueOfType ==
  ASSUME NEW f \in Fault
  PROVE  QueueOf(f) \in Stage
<1>1. Desc[f].type \in FaultType
  BY DescAssumption DEF Description
<1> QED BY <1>1 DEF QueueOf, FaultType, Stage

LEMMA DescType ==
  ASSUME NEW f \in Fault
  PROVE  /\ Desc[f].kind \in TimingType
         /\ Desc[f].timing \in 0 .. WordMod - 1
         /\ Desc[f].occ \in IntMin .. IntMax
BY DescAssumption DEF Description

LEMMA HookIsHook ==
  ASSUME hook \in Hook \cup {NoHook}, hook # NoHook
  PROVE  /\ hook \in Hook
         /\ hook.stage \in Stage /\ hook.core \in Core /\ hook.pcb \in Pcb /\ hook.pc \in Addr
BY DEF Hook

\* A step of the hooks is a step of the thread table, or leaves it alone.
LEMMA StepImplements ==
  ASSUME hook \in Hook \cup {NoHook}, [InjNext]_ivars
  PROVE  [Next]_tvars
<1>1. ASSUME getFromFile PROVE [Next]_tvars
  BY <1>1 DEF getFromFile
<1>2. ASSUME NEW s \in Stage, NEW c \in Core, NEW p \in Pcb, NEW pc \in Addr,
             BeginHook(s, c, p, pc)
      PROVE  [Next]_tvars
  BY <1>2 DEF BeginHook, Next
<1>3. ASSUME EndHook PROVE [Next]_tvars
  <2>1. hook.stage \in Stage /\ hook.core \in Core /\ hook.pcb \in Pcb
    BY <1>3, HookIsHook DEF EndHook
  <2>2. \/ UNCHANGED tvars
        \/ increase_instr_fetched(hook.pcb, hook.core)
        \/ increase_instr_decoded(hook.pcb, hook.core)
        \/ increase_instr_executed(hook.pcb, hook.core)
    BY <1>3, <2>1, Zenon DEF EndHook, Stage
  <2> QED BY <2>1, <2>2 DEF Next
<1>4. ASSUME NEW f \in Fault, Manifest(f) PROVE [Next]_tvars
  BY <1>4 DEF Manifest
<1>5. ASSUME NEW p \in Pcb, NEW id \in ThreadId, NEW a \in Addr,
             Elsewhere(fi_activate_inst(p, id, a))
      PROVE  [Next]_tvars
  BY <1>5 DEF Elsewhere, Next
<1>6. ASSUME NEW p \in Pcb, NEW a \in Addr, Elsewhere(get_Pc_address(p, a)) PROVE [Next]_tvars
  BY <1>6 DEF Elsewhere, Next
<1>7. ASSUME NEW p \in Pcb, NEW c \in Core, NEW n \in Latency, Elsewhere(increase_ticks(p, c, n))
      PROVE  [Next]_tvars
  BY <1>7 DEF Elsewhere, Next
<1>8. ASSUME Reset PROVE [Next]_tvars
  BY <1>8 DEF Reset, Next
<1>9. ASSUME UNCHANGED ivars PROVE [Next]_tvars
  BY <1>9 DEF ivars
<1> QED
  BY <1>1, <1>2, <1>3, <1>4, <1>5, <1>6, <1>7, <1>8, <1>9 DEF InjNext, HookStep, Aborted

\* Rescheduling keeps the types.
LEMMA RescheduleType ==
  ASSUME InjTypeOK, NEW f \in Fault, check4reschedule(f)
  PROVE  /\ queue' \in [Stage -> Seq(Fault)]
         /\ timing' \in [Fault -> 0 .. WordMod - 1]
         /\ occ' \in [Fault -> IntMin .. IntMax]
<1>1. QueueOf(f) \in Stage /\ Desc[f].kind \in TimingType
  BY QueueOfType, DescType
<1>2. CASE occ[f] = 1
  <2>1. PICK i \in 1 .. Len(queue[QueueOf(f)]) :
          queue' = [queue EXCEPT ![QueueOf(f)] = RemovedAt(@, i)]
    BY <1>2 DEF check4reschedule
  <2>2. queue[QueueOf(f)] \in Seq(Fault)
    BY <1>1 DEF InjTypeOK
  <2>3. RemovedAt(queue[QueueOf(f)], i) \in Seq(Fault)
    BY <2>2, RemovedAtElements
  <2> QED BY <1>1, <1>2, <2>1, <2>3, Zenon DEF check4reschedule, InjTypeOK
<1>3. CASE occ[f] # 1
  <2>1. Later(f) \in 0 .. WordMod - 1
    BY <1>1, TickStepMoves, NarrowMoves DEF Later, TimingType, InjTypeOK
  <2>2. OneLess(occ[f]) \in IntMin .. IntMax
    <3>1. occ[f] \in IntMin .. IntMax
      BY DEF InjTypeOK
    <3> QED BY <3>1, IntFacts DEF OneLess
  <2> QED BY <1>3, <2>1, <2>2, Zenon DEF check4reschedule, InjTypeOK
<1> QED BY <1>2, <1>3

LEMMA InjInitType == InjInit => InjTypeOK
<1> SUFFICES ASSUME InjInit PROVE InjTypeOK
  OBVIOUS
<1>1. TypeOK
  BY InitType DEF InjInit
<1>2. file \in Seq(Fault) /\ queue \in [Stage -> Seq(Fault)]
  BY FilesAssumption DEF InjInit
<1>3. timing \in [Fault -> 0 .. WordMod - 1] /\ occ \in [Fault -> IntMin .. IntMax]
  BY DescType DEF InjInit
<1>4. hits \in [Fault -> Nat] /\ here \in [Fault -> Nat]
  BY DEF InjInit
<1>5. alive \in BOOLEAN
  BY Zenon DEF InjInit
<1>6. hook \in Hook \cup {NoHook}
  BY DEF InjInit
<1> QED BY <1>1, <1>2, <1>3, <1>4, <1>5, <1>6 DEF InjTypeOK

\* Reading one fault of the file.
LEMMA ReadFaultType ==
  ASSUME InjTypeOK, getFromFile
  PROVE  /\ Head(file) \in Fault
         /\ file' \in Seq(Fault)
         /\ queue' \in [Stage -> Seq(Fault)]
         /\ timing' \in [Fault -> 0 .. WordMod - 1]
         /\ occ' \in [Fault -> IntMin .. IntMax]
<1> DEFINE f == Head(file)
<1>1. file \in Seq(Fault) /\ file # <<>>
  BY Zenon DEF InjTypeOK, getFromFile
<1>2. f \in Fault /\ Tail(file) \in Seq(Fault)
  BY <1>1
<1>3. QueueOf(f) \in Stage
  BY <1>2, QueueOfType
<1>4. PICK i \in 1 .. Len(queue[QueueOf(f)]) + 1 :
        /\ queue' = [queue EXCEPT ![QueueOf(f)] = InsertedAt(queue[QueueOf(f)], i, f)]
        /\ timing' = [timing EXCEPT ![f] = Desc[f].timing]
        /\ occ' = [occ EXCEPT ![f] = Desc[f].occ]
  BY Zenon DEF getFromFile
<1> HIDE DEF f
<1>5. queue[QueueOf(f)] \in Seq(Fault)
  BY <1>3 DEF InjTypeOK
<1>6. InsertedAt(queue[QueueOf(f)], i, f) \in Seq(Fault)
  BY <1>2, <1>5, InsertedAtElements, Zenon
<1>7. file' \in Seq(Fault)
  BY <1>2 DEF getFromFile, f
<1> QED BY <1>2, <1>3, <1>4, <1>6, <1>7, DescType, Zenon DEF InjTypeOK, f

\* Type correctness of one step of the hooks.
LEMMA InjNextType == InjTypeOK /\ [InjNext]_ivars => InjTypeOK'
<1> SUFFICES ASSUME InjTypeOK, [InjNext]_ivars PROVE InjTypeOK'
  OBVIOUS
<1>0. TypeOK'
  BY StepImplements, NextType, SMTT(30) DEF InjTypeOK
<1>1. ASSUME getFromFile PROVE InjTypeOK'
  BY <1>0, <1>1, ReadFaultType, Zenon DEF getFromFile, InjTypeOK
<1>2. ASSUME NEW s \in Stage, NEW c \in Core, NEW p \in Pcb, NEW pc \in Addr,
             BeginHook(s, c, p, pc)
      PROVE  InjTypeOK'
  <2>1. hook' \in Hook \cup {NoHook}
    BY <1>2 DEF BeginHook, Hook
  <2> QED BY <1>0, <1>2, <2>1 DEF BeginHook, InjTypeOK
<1>3. ASSUME EndHook PROVE InjTypeOK'
  <2>1. here' \in [Fault -> Nat]
    BY <1>3 DEF EndHook
  <2> QED BY <1>0, <1>3, <2>1 DEF EndHook, InjTypeOK
<1>4. ASSUME NEW f \in Fault, Manifest(f) PROVE InjTypeOK'
  <2>1. CASE Unsupported(f)
    <3>1. alive' \in BOOLEAN
      BY <1>4, <2>1, Zenon DEF Manifest
    <3> QED BY <1>0, <1>4, <2>1, <3>1 DEF Manifest, InjTypeOK
  <2>2. CASE ~Unsupported(f)
    <3>1. /\ queue' \in [Stage -> Seq(Fault)]
          /\ timing' \in [Fault -> 0 .. WordMod - 1]
          /\ occ' \in [Fault -> IntMin .. IntMax]
      BY <1>4, <2>2, RescheduleType DEF Manifest
    <3>2. hits' \in [Fault -> Nat] /\ here' \in [Fault -> Nat]
      <4>1. hits' = [hits EXCEPT ![f] = @ + 1] /\ here' = [here EXCEPT ![f] = @ + 1]
        BY <1>4, <2>2 DEF Manifest
      <4>2. hits \in [Fault -> Nat] /\ here \in [Fault -> Nat]
        BY DEF InjTypeOK
      <4> QED BY <4>1, <4>2
    <3>3. alive' \in BOOLEAN
      BY <1>4, <2>2, Zenon DEF Manifest, InjTypeOK
    <3>4. file' \in Seq(Fault) /\ hook' \in Hook \cup {NoHook}
      BY <1>4 DEF Manifest, InjTypeOK
    <3> QED BY <1>0, <3>1, <3>2, <3>3, <3>4 DEF InjTypeOK
  <2> QED BY <2>1, <2>2
<1>5. ASSUME UNCHANGED fvars PROVE InjTypeOK'
  BY <1>0, <1>5 DEF fvars, InjTypeOK
<1>6. ASSUME Reset PROVE InjTypeOK'
  BY <1>0, <1>6, FilesAssumption DEF Reset, InjTypeOK
<1> QED
  BY <1>1, <1>2, <1>3, <1>4, <1>5, <1>6 DEF InjNext, HookStep, Elsewhere, Aborted, ivars

\* The injector keeps its types: in particular _timing stays a uint64_t and
\* _occurrence an int through every rescheduling (cpu_injfault.cc:41-64).
THEOREM InjectorTypeCorrect == InjSpec => []InjTypeOK
<1> QED BY InjInitType, InjNextType, PTL DEF InjSpec

\* Whatever hooks are called, and whatever faults they let manifest, the thread
\* table does what FiSystem says.
THEOREM ThreadTableImplemented == InjSpec => ImplementsThreadTable
<1>1. InjInit => Init
  BY DEF InjInit
<1>2. InjTypeOK /\ [InjNext]_ivars => [Next]_tvars
  BY StepImplements DEF InjTypeOK
<1> QED BY <1>1, <1>2, InjectorTypeCorrect, PTL DEF InjSpec, Spec, ImplementsThreadTable
=============================================================================
