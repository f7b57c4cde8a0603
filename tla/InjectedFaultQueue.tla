------------------------- MODULE InjectedFaultQueue -------------------------
(***************************************************************************)
(* The doubly linked list of faults (class InjectedFaultQueue of           *)
(* src/fi/faultq.hh, .cc), pointer by pointer.  insert and remove walk the *)
(* list one node per step; nothing else runs meanwhile.                    *)
(*                                                                         *)
(* The list goes through the phases its users give it: faults are inserted *)
(* while the fault file is read, then retimed and removed while the        *)
(* program runs, until Fi_System::reset drains the list and reads again.   *)
(*                                                                         *)
(* The constructor of InjectedFault leaves the fields nxt and prv          *)
(* uninitialised, and insert does not set all of them: FreshLinks is what  *)
(* a new object may hold there, NULL or an arbitrary pointer (Wild).       *)
(***************************************************************************)
EXTENDS Lists

CONSTANTS
  Fault,       \* fault objects; each is inserted at most once
  Timing,      \* the values of the _timing field
  NULL, Wild,  \* the null pointer; a pointer to no fault
  FreshLinks   \* what nxt and prv of a new fault may hold

ASSUME TimingAssumption == Timing \subseteq Nat
ASSUME PointerAssumption == NULL \notin Fault /\ Wild \notin Fault /\ NULL # Wild
ASSUME FreshAssumption == FreshLinks \subseteq {NULL, Wild} /\ NULL \in FreshLinks

VARIABLES
  head, tail,  \* ends of the list
  nxt, prv,    \* the links of each fault
  timing,      \* the _timing field of each fault
  created,     \* faults whose constructor has run
  phase,       \* "load", "run" or "drain"
  op,          \* the operation in progress: what, on which fault, cursor p
  status,      \* "ok", "assert" (assert(0) of remove), "wild" (Wild dereferenced)
  q            \* history: the list the operations so far should have built

links == <<head, tail, nxt, prv>>
vars == <<links, timing, created, phase, op, status, q>>

Pointer == Fault \cup {NULL, Wild}
Idle == [what |-> "idle", f |-> NULL, p |-> NULL]
empty == head = NULL /\ tail = NULL

TypeOK ==
  /\ head \in Pointer /\ tail \in Pointer
  /\ nxt \in [Fault -> Pointer] /\ prv \in [Fault -> Pointer]
  /\ timing \in [Fault -> Timing]
  /\ created \in SUBSET Fault
  /\ phase \in {"load", "run", "drain"}
  /\ op \in [what : {"idle", "insert", "remove"}, f : Fault \cup {NULL}, p : Pointer]
  /\ status \in {"ok", "assert", "wild"}
  /\ q \in Seq(Fault)

Init ==
  /\ head = NULL /\ tail = NULL
  /\ nxt \in [Fault -> FreshLinks] /\ prv \in [Fault -> FreshLinks]
  /\ timing \in [Fault -> Timing]
  /\ created = {}
  /\ phase = "load"
  /\ op = Idle
  /\ status = "ok"
  /\ q = <<>>

-----------------------------------------------------------------------------
(* insert                                                                  *)

\* The list is empty, or the walk for the place of f starts at the head.
insert(f) ==
  /\ status = "ok" /\ phase = "load" /\ op = Idle
  /\ f \notin created
  /\ created' = created \cup {f}
  /\ IF empty
       THEN /\ head' = f /\ tail' = f
            /\ nxt' = [nxt EXCEPT ![f] = NULL]
            /\ prv' = [prv EXCEPT ![f] = NULL]
            /\ q' = <<f>>
            /\ UNCHANGED op
       ELSE /\ op' = [what |-> "insert", f |-> f, p |-> head]
            /\ UNCHANGED <<links, q>>
  /\ UNCHANGED <<timing, phase, status>>

\* One iteration of a walk: past a node, or into a pointer to no fault.
Advance ==
  IF op.p = Wild
    THEN status' = "wild" /\ UNCHANGED <<links, op, q>>
    ELSE op' = [op EXCEPT !.p = nxt[op.p]] /\ UNCHANGED <<links, status, q>>

\* Mutants: the walk also passes faults of the same time; it looks for later ones.
EarlierOrSame(p, f) == timing[p] <= timing[f]
LaterInstead(p, f) == timing[p] > timing[f]

\* The walk goes on past earlier faults and stops at one of the same time.
Earlier(p, f) == timing[p] < timing[f]

InsertWalk ==
  /\ status = "ok" /\ op.what = "insert"
  /\ op.p # NULL
  /\ op.p # Wild => Earlier(op.p, op.f)
  /\ Advance
  /\ UNCHANGED <<timing, created, phase>>

\* The cursor ran off the end: f becomes the tail and keeps its nxt.
InsertAtTail ==
  /\ status = "ok" /\ op.what = "insert" /\ op.p = NULL
  /\ nxt' = [nxt EXCEPT ![tail] = op.f]
  /\ prv' = [prv EXCEPT ![op.f] = tail]
  /\ tail' = op.f
  /\ q' = Append(q, op.f)
  /\ op' = Idle
  /\ UNCHANGED <<head, timing, created, phase, status>>

\* Mutant: head is set before nxt, which then points to f itself.
InsertAtHeadSwapped ==
  /\ status = "ok" /\ op.what = "insert" /\ op.p \in Fault
  /\ ~Earlier(op.p, op.f)
  /\ op.p = head
  /\ prv' = [prv EXCEPT ![head] = op.f]
  /\ nxt' = [nxt EXCEPT ![op.f] = op.f]
  /\ head' = op.f
  /\ q' = <<op.f>> \o q
  /\ op' = Idle
  /\ UNCHANGED <<tail, timing, created, phase, status>>

\* The cursor is still at the head: f becomes the head and keeps its prv.
InsertAtHead ==
  /\ status = "ok" /\ op.what = "insert" /\ op.p \in Fault
  /\ ~Earlier(op.p, op.f)
  /\ op.p = head
  /\ prv' = [prv EXCEPT ![head] = op.f]
  /\ nxt' = [nxt EXCEPT ![op.f] = head]
  /\ head' = op.f
  /\ q' = <<op.f>> \o q
  /\ op' = Idle
  /\ UNCHANGED <<tail, timing, created, phase, status>>

\* f goes between the cursor and the node before it.
InsertBetween ==
  /\ status = "ok" /\ op.what = "insert" /\ op.p \in Fault
  /\ ~Earlier(op.p, op.f)
  /\ op.p # head
  /\ IF prv[op.p] \in Fault
       THEN /\ nxt' = [nxt EXCEPT ![prv[op.p]] = op.f, ![op.f] = op.p]
            /\ prv' = [prv EXCEPT ![op.f] = prv[op.p], ![op.p] = op.f]
            /\ \E i \in 1 .. Len(q) : q[i] = op.p /\ q' = InsertedAt(q, i, op.f)
            /\ op' = Idle
            /\ UNCHANGED status
       ELSE status' = "wild" /\ UNCHANGED <<nxt, prv, q, op>>
  /\ UNCHANGED <<head, tail, timing, created, phase>>

-----------------------------------------------------------------------------
(* remove                                                                  *)

BeginRemove(f) ==
  /\ status = "ok" /\ op = Idle
  /\ op' = IF empty THEN Idle ELSE [what |-> "remove", f |-> f, p |-> head]
  /\ UNCHANGED <<links, timing, created, status, q>>

\* check4reschedule removes a fault that has manifested for the last time.
remove(f) ==
  /\ phase = "run" /\ f \in Range(q)
  /\ BeginRemove(f)
  /\ UNCHANGED phase

\* Without the fault in the list the walk ends in assert(0).
RemoveWalk ==
  /\ status = "ok" /\ op.what = "remove"
  /\ op.p # op.f
  /\ IF op.p = NULL
       THEN status' = "assert" /\ UNCHANGED <<links, op, q>>
       ELSE Advance
  /\ UNCHANGED <<timing, created, phase>>

\* Mutants: the rest of the list is dropped; the back link of the next fault, or
\* the tail, is not updated.
UnlinkForwardTruncates(f) ==
  IF prv[f] = NULL
    THEN head' = nxt[f] /\ UNCHANGED nxt
    ELSE nxt' = [nxt EXCEPT ![prv[f]] = NULL] /\ UNCHANGED head
UnlinkBackwardKeepsPrv(f) ==
  IF nxt[f] = NULL
    THEN tail' = prv[f] /\ UNCHANGED prv
    ELSE UNCHANGED <<prv, tail>>
UnlinkBackwardKeepsTail(f) ==
  IF nxt[f] = NULL
    THEN UNCHANGED <<prv, tail>>
    ELSE prv' = [prv EXCEPT ![nxt[f]] = prv[f]] /\ UNCHANGED tail

\* Whatever pointed to f from the front points to the fault after it.
UnlinkForward(f) ==
  IF prv[f] = NULL
    THEN head' = nxt[f] /\ UNCHANGED nxt
    ELSE nxt' = [nxt EXCEPT ![prv[f]] = nxt[f]] /\ UNCHANGED head

\* Whatever pointed to f from the back points to the fault before it.
UnlinkBackward(f) ==
  IF nxt[f] = NULL
    THEN tail' = prv[f] /\ UNCHANGED prv
    ELSE prv' = [prv EXCEPT ![nxt[f]] = prv[f]] /\ UNCHANGED tail

\* The fault is found and taken out; following Wild is undefined.
Unlink ==
  /\ status = "ok" /\ op.what = "remove" /\ op.p = op.f
  /\ LET f == op.f IN
       IF Wild \in {prv[f], nxt[f]}
         THEN status' = "wild" /\ UNCHANGED <<links, op, q>>
         ELSE /\ UnlinkForward(f)
              /\ UnlinkBackward(f)
              /\ \E i \in 1 .. Len(q) : q[i] = f /\ q' = RemovedAt(q, i)
              /\ op' = Idle
              /\ UNCHANGED status
  /\ UNCHANGED <<timing, created, phase>>

-----------------------------------------------------------------------------
(* The users of the list.                                                  *)

\* Mutant: the time is added to the old one.
increaseTimingAdds(f, t) ==
  /\ status = "ok" /\ phase = "run" /\ op = Idle
  /\ f \in Range(q)
  /\ timing' = [timing EXCEPT ![f] = @ + t + 1]
  /\ UNCHANGED <<links, created, phase, op, status, q>>

\* check4reschedule gives a fault that stays in the list another time: a later one,
\* or, when the new time does not fit the int it is computed in, an earlier one.
increaseTiming(f, t) ==
  /\ status = "ok" /\ phase = "run" /\ op = Idle
  /\ f \in Range(q)
  /\ timing' = [timing EXCEPT ![f] = t]
  /\ UNCHANGED <<links, created, phase, op, status, q>>

\* getFromFile has read the whole file.
Loaded ==
  /\ status = "ok" /\ phase = "load" /\ op = Idle
  /\ phase' = "run"
  /\ UNCHANGED <<links, timing, created, op, status, q>>

\* Fi_System::reset: remove the head until the list is empty, then set both
\* ends to NULL and read the file again.
Reset ==
  /\ status = "ok" /\ phase = "run" /\ op = Idle
  /\ phase' = "drain"
  /\ UNCHANGED <<links, timing, created, op, status, q>>

DrainHead ==
  /\ phase = "drain" /\ ~empty /\ head \in Fault
  /\ BeginRemove(head)
  /\ UNCHANGED phase

DrainDone ==
  /\ status = "ok" /\ phase = "drain" /\ op = Idle /\ empty
  /\ head' = NULL /\ tail' = NULL
  /\ phase' = "load"
  /\ UNCHANGED <<nxt, prv, timing, created, op, status, q>>

\* The steps of an operation or a reset under way.
Work ==
  \/ InsertWalk \/ InsertAtTail \/ InsertAtHead \/ InsertBetween
  \/ RemoveWalk \/ Unlink
  \/ DrainHead \/ DrainDone

Next ==
  \/ \E f \in Fault : insert(f) \/ remove(f)
  \/ \E f \in Fault, t \in Timing : increaseTiming(f, t)
  \/ Loaded \/ Reset
  \/ Work

Spec == Init /\ [][Next]_vars
FairSpec == Spec /\ WF_vars(Work)

-----------------------------------------------------------------------------
(* Properties.                                                             *)

\* "pointers on the next and previous fault in the queue" (faultq.hh:103-106):
\* head, tail and the links of the queued faults spell out the list q in both
\* directions, and no fault is queued twice.
ListOK ==
  /\ head = (IF q = <<>> THEN NULL ELSE q[1])
  /\ tail = (IF q = <<>> THEN NULL ELSE q[Len(q)])
  /\ \A i \in 1 .. Len(q) :
       /\ nxt[q[i]] = (IF i = Len(q) THEN NULL ELSE q[i + 1])
       /\ prv[q[i]] = (IF i = 1 THEN NULL ELSE q[i - 1])
  /\ \A i, j \in 1 .. Len(q) : q[i] = q[j] => i = j

\* remove finds the fault it is given (the assert(0) of faultq.cc:254 is not
\* reached) and no walk follows a pointer to no fault.
NoAbort == status = "ok"

\* The loops of insert and remove and the drain loop of reset terminate.
OperationsEnd == op # Idle ~> op = Idle
DrainEnds == phase = "drain" ~> phase = "load"

\* "The faults are entered in a ascending order based on their timing value"
\* (faultq.hh:484): after any number of inserts the list is sorted.
LoadedAscending ==
  phase = "load" => \A i \in 1 .. Len(q) - 1 : timing[q[i]] <= timing[q[i + 1]]

\* insert and remove, walks included, are the list operations of FaultList.
List == INSTANCE FaultList
ImplementsList == List!Spec
=============================================================================
