---------------------- MODULE InjectedFaultQueueProofs ----------------------
(***************************************************************************)
(* Proofs about InjectedFaultQueue.  insert and remove are walks followed  *)
(* by pointer surgery; the inductive invariant says where the cursor of a  *)
(* walk stands in the list q and what the walk has already passed, so that *)
(* the surgery is known to happen at one position of q.  The two lemmas on *)
(* linking and unlinking a position are the pointer argument proper.       *)
(*                                                                         *)
(* A fault object keeps what its constructor left in the link that insert  *)
(* does not set, so all but the type invariant need FreshLinks = {NULL}.   *)
(***************************************************************************)
EXTENDS InjectedFaultQueue, SequenceLemmas

\* The type invariant needs one fact more: an operation under way has a fault.
OpType == TypeOK /\ (op.what # "idle" => op.f \in Fault)

\* The cursor stands at position i, one past the end being NULL.
CursorAt(i) == op.p = (IF i = Len(q) + 1 THEN NULL ELSE q[i])

\* The walk of insert has passed only earlier faults, and the fault it is to
\* enter is not linked to anything.
Inserting ==
  op.what = "insert" =>
    /\ phase = "load" /\ q # <<>>
    /\ op.f \in created \ Range(q)
    /\ nxt[op.f] = NULL /\ prv[op.f] = NULL
    /\ \E i \in 1 .. Len(q) + 1 :
         CursorAt(i) /\ \A j \in 1 .. i - 1 : Earlier(q[j], op.f)

\* The walk of remove has not passed the fault it looks for.
Removing ==
  op.what = "remove" =>
    /\ phase # "load"
    /\ \E j \in 1 .. Len(q) : op.f = q[j] /\ \E i \in 1 .. j : op.p = q[i]

\* The links of a fault whose constructor has not run are those of FreshLinks.
Unlinked == \A f \in Fault \ created : nxt[f] = NULL /\ prv[f] = NULL

IInv ==
  /\ OpType /\ ListOK /\ NoAbort /\ LoadedAscending
  /\ op.what = "idle" => op = Idle
  /\ Range(q) \subseteq created
  /\ Unlinked /\ Inserting /\ Removing

-----------------------------------------------------------------------------
(* The type invariant.                                                     *)

LEMMA InitType == Init => OpType
BY FreshAssumption DEF Init, OpType, TypeOK, Pointer, Idle

LEMMA NextType == OpType /\ [Next]_vars => OpType'
<1> SUFFICES ASSUME OpType, [Next]_vars PROVE OpType'
  OBVIOUS
<1> USE DEF OpType, TypeOK
<1>0. /\ NULL \in Pointer /\ Fault \subseteq Pointer
      /\ Idle \in [what : {"idle", "insert", "remove"}, f : Fault \cup {NULL}, p : Pointer]
      /\ Idle.what = "idle"
  BY DEF Idle, Pointer
<1>1. ASSUME NEW f \in Fault, insert(f) PROVE OpType'
  <2>1. <<f>> \in Seq(Fault)
    OBVIOUS
  <2>2. CASE empty
    <3>1. /\ head' = f /\ tail' = f /\ created' = created \cup {f} /\ q' = <<f>>
          /\ nxt' = [nxt EXCEPT ![f] = NULL] /\ prv' = [prv EXCEPT ![f] = NULL]
          /\ UNCHANGED <<op, timing, phase, status>>
      BY <1>1, <2>2 DEF insert
    <3> QED BY <1>0, <2>1, <3>1
  <2>3. CASE ~empty
    BY <1>0, <1>1, <2>3 DEF insert, links
  <2> QED BY <2>2, <2>3
<1>2. ASSUME NEW f \in Fault, BeginRemove(f), phase' = phase PROVE OpType'
  BY <1>0, <1>2 DEF BeginRemove, links
<1>3. ASSUME NEW f \in Fault, NEW t \in Timing, increaseTiming(f, t) PROVE OpType'
  BY <1>3 DEF increaseTiming, links
<1>4. ASSUME Loaded \/ Reset PROVE OpType'
  BY <1>4 DEF Loaded, Reset, links
<1>5. ASSUME Advance, op.p # NULL, UNCHANGED <<timing, created, phase>> PROVE OpType'
  <2>1. op.p # Wild => nxt[op.p] \in Pointer
    BY <1>5 DEF Pointer
  <2> QED BY <1>5, <2>1 DEF Advance, links
<1>6. CASE InsertWalk
  BY <1>5, <1>6 DEF InsertWalk
<1>7. CASE InsertAtTail
  <2>1. op.f \in Fault
    BY <1>7 DEF InsertAtTail
  <2>2. q' \in Seq(Fault)
    BY <1>7, <2>1 DEF InsertAtTail
  <2> QED BY <1>0, <1>7, <2>1, <2>2, Zenon DEF InsertAtTail
<1>8. CASE InsertAtHead
  <2>1. op.f \in Fault
    BY <1>8 DEF InsertAtHead
  <2>2. q' \in Seq(Fault)
    BY <1>8, <2>1 DEF InsertAtHead
  <2> QED BY <1>0, <1>8, <2>1, <2>2 DEF InsertAtHead
<1>9. CASE InsertBetween
  <2>1. op.f \in Fault
    BY <1>9 DEF InsertBetween
  <2>2. q' \in Seq(Fault)
    <3>1. CASE prv[op.p] \in Fault
      <4>1. PICK i \in 1 .. Len(q) : q' = InsertedAt(q, i, op.f)
        BY <1>9, <3>1 DEF InsertBetween
      <4>2. i \in 1 .. Len(q) + 1
        OBVIOUS
      <4> QED BY <2>1, <4>1, <4>2, InsertedAtPlaces
    <3>2. CASE prv[op.p] \notin Fault
      BY <1>9, <3>2 DEF InsertBetween
    <3> QED BY <3>1, <3>2
  <2> QED BY <1>0, <1>9, <2>1, <2>2, Zenon DEF InsertBetween
<1>10. CASE RemoveWalk
  BY <1>5, <1>10 DEF RemoveWalk, links
<1>11. CASE Unlink
  <2>1. op.f \in Fault
    BY <1>11 DEF Unlink
  <2>2. q' \in Seq(Fault)
    BY <1>11, RemovedAtElements DEF Unlink, links
  <2>3. CASE Wild \in {prv[op.f], nxt[op.f]}
    BY <1>11, <2>3 DEF Unlink, links
  <2>4. CASE Wild \notin {prv[op.f], nxt[op.f]}
    <3>1. head' \in Pointer /\ nxt' \in [Fault -> Pointer]
      BY <1>11, <2>1, <2>4 DEF Unlink, UnlinkForward
    <3>2. tail' \in Pointer /\ prv' \in [Fault -> Pointer]
      BY <1>11, <2>1, <2>4 DEF Unlink, UnlinkBackward
    <3> QED BY <1>0, <1>11, <2>2, <2>4, <3>1, <3>2 DEF Unlink
  <2> QED BY <2>3, <2>4
<1>12. CASE DrainHead
  BY <1>2, <1>12 DEF DrainHead
<1>13. CASE DrainDone
  BY <1>0, <1>13 DEF DrainDone
<1>14. CASE UNCHANGED vars
  BY <1>14 DEF vars, links
<1> QED
  BY <1>1, <1>2, <1>3, <1>4, <1>6, <1>7, <1>8, <1>9, <1>10, <1>11, <1>12, <1>13, <1>14
  DEF Next, Work, remove

\* Whatever a new object holds in its links (faultq.hh leaves nxt and prv
\* uninitialised), every field of the list and of its faults keeps its type.
THEOREM TypeCorrect == Spec => []TypeOK
<1>1. OpType => TypeOK
  BY DEF OpType
<1> QED BY <1>1, InitType, NextType, PTL DEF Spec
-----------------------------------------------------------------------------
(* The pointer surgery.                                                    *)

\* ListOK of a list s, its ends and its links.
Linked(s, hd, tl, n, b) ==
  /\ hd = (IF s = <<>> THEN NULL ELSE s[1])
  /\ tl = (IF s = <<>> THEN NULL ELSE s[Len(s)])
  /\ \A i \in 1 .. Len(s) :
       /\ n[s[i]] = (IF i = Len(s) THEN NULL ELSE s[i + 1])
       /\ b[s[i]] = (IF i = 1 THEN NULL ELSE s[i - 1])
  /\ \A i, j \in 1 .. Len(s) : s[i] = s[j] => i = j

\* What insert does to the links when f gets position i: the fault before it
\* and the one at i point to f, and f points to both (faultq.cc, insert).
Spliced(s, i, f, hd, tl, n, b, h2, t2, n2, b2) ==
  /\ h2 = (IF i = 1 THEN f ELSE hd)
  /\ t2 = (IF i = Len(s) + 1 THEN f ELSE tl)
  /\ n2[f] = (IF i = Len(s) + 1 THEN NULL ELSE s[i])
  /\ b2[f] = (IF i = 1 THEN NULL ELSE s[i - 1])
  /\ i > 1 => n2[s[i - 1]] = f
  /\ i <= Len(s) => b2[s[i]] = f
  /\ \A j \in 1 .. Len(s) : j # i - 1 => n2[s[j]] = n[s[j]]
  /\ \A j \in 1 .. Len(s) : j # i => b2[s[j]] = b[s[j]]

\* A fault spliced in at position i is at position i of the linked list.
LEMMA LinkedIn ==
  ASSUME NEW s \in Seq(Fault), NEW i \in 1 .. Len(s) + 1, NEW f \in Fault, f \notin Range(s),
         NEW hd, NEW tl, NEW n, NEW b, Linked(s, hd, tl, n, b),
         NEW h2, NEW t2, NEW n2, NEW b2, Spliced(s, i, f, hd, tl, n, b, h2, t2, n2, b2)
  PROVE  Linked(InsertedAt(s, i, f), h2, t2, n2, b2)
<1> DEFINE r == InsertedAt(s, i, f)
<1>1. /\ r \in Seq(Fault) /\ Len(r) = Len(s) + 1 /\ r[i] = f
      /\ \A j \in 1 .. i - 1 : r[j] = s[j]
      /\ \A j \in i .. Len(s) : r[j + 1] = s[j]
  BY InsertedAtPlaces
<1>2. /\ \A j \in 1 .. Len(s) : s[j] # f /\ s[j] \in Fault
      /\ \A j, k \in 1 .. Len(s) : s[j] = s[k] => j = k
  BY DEF Range, Linked
<1>3. IsInjective(r)
  <2>1. IsInjective(s)
    BY <1>2 DEF IsInjective
  <2> QED BY <2>1, InsertedAtSet
<1> HIDE DEF r
<1>a. /\ h2 = (IF i = 1 THEN f ELSE hd)
      /\ t2 = (IF i = Len(s) + 1 THEN f ELSE tl)
  BY DEF Spliced
<1>n. /\ n2[f] = (IF i = Len(s) + 1 THEN NULL ELSE s[i])
      /\ i > 1 => n2[s[i - 1]] = f
      /\ \A j \in 1 .. Len(s) : j # i - 1 => n2[s[j]] = n[s[j]]
  BY DEF Spliced
<1>b. /\ b2[f] = (IF i = 1 THEN NULL ELSE s[i - 1])
      /\ i <= Len(s) => b2[s[i]] = f
      /\ \A j \in 1 .. Len(s) : j # i => b2[s[j]] = b[s[j]]
  BY DEF Spliced
<1>l. /\ s # <<>> => hd = s[1] /\ tl = s[Len(s)]
      /\ \A j \in 1 .. Len(s) : /\ n[s[j]] = (IF j = Len(s) THEN NULL ELSE s[j + 1])
                                /\ b[s[j]] = (IF j = 1 THEN NULL ELSE s[j - 1])
  BY DEF Linked
<1>4. r # <<>> /\ h2 = r[1] /\ t2 = r[Len(r)]
  <2>1. r # <<>> /\ (i # 1 \/ i # Len(s) + 1 => s # <<>>)
    BY <1>1
  <2>2. h2 = r[1]
    <3>1. CASE i = 1
      BY <1>1, <1>a, <3>1
    <3>2. CASE i # 1
      BY <1>1, <1>a, <1>l, <2>1, <3>2
    <3> QED BY <3>1, <3>2
  <2>3. t2 = r[Len(r)]
    <3>1. CASE i = Len(s) + 1
      BY <1>1, <1>a, <3>1
    <3>2. CASE i # Len(s) + 1
      <4>1. Len(s) \in i .. Len(s)
        BY <3>2
      <4> QED BY <1>1, <1>a, <1>l, <2>1, <3>2, <4>1
    <3> QED BY <3>1, <3>2
  <2> QED BY <2>1, <2>2, <2>3
<1>5. ASSUME NEW j \in 1 .. Len(r)
      PROVE  n2[r[j]] = IF j = Len(r) THEN NULL ELSE r[j + 1]
  <2>1. CASE j = i
    BY <1>1, <1>n, <2>1
  <2>2. CASE j = i - 1
    BY <1>1, <1>n, <2>2
  <2>3. CASE j < i - 1
    <3>1. /\ j \in 1 .. i - 1 /\ j + 1 \in 1 .. i - 1 /\ j # i - 1
          /\ j \in 1 .. Len(s) /\ j # Len(s) /\ j # Len(s) + 1
      BY <2>3
    <3> QED BY <1>1, <1>l, <1>n, <3>1
  <2>4. CASE j > i
    <3>1. PICK k \in i .. Len(s) : j = k + 1
      BY <1>1, <2>4
    <3>2. /\ k \in 1 .. Len(s) /\ k # i - 1 /\ (k = Len(s) <=> j = Len(s) + 1)
          /\ k # Len(s) => j \in i .. Len(s)
      BY <3>1
    <3>3. n2[s[k]] = (IF k = Len(s) THEN NULL ELSE s[k + 1])
      BY <1>l, <1>n, <3>2, Zenon
    <3>4. r[j] = s[k] /\ (k # Len(s) => r[j + 1] = s[j])
      BY <1>1, <3>1, <3>2, Zenon
    <3> QED BY <1>1, <3>1, <3>2, <3>3, <3>4, Zenon
  <2> QED BY <1>1, <2>1, <2>2, <2>3, <2>4
<1>6. ASSUME NEW j \in 1 .. Len(r)
      PROVE  b2[r[j]] = IF j = 1 THEN NULL ELSE r[j - 1]
  <2>1. CASE j = i
    BY <1>1, <1>b, <2>1
  <2>2. CASE j = i + 1
    <3>1. r[j] = s[i] /\ r[j - 1] = f /\ i <= Len(s) /\ j # 1
      BY <1>1, <2>2
    <3> QED BY <1>b, <3>1
  <2>3. CASE j < i
    <3>1. /\ j \in 1 .. i - 1 /\ j \in 1 .. Len(s) /\ j # i
          /\ j # 1 => j - 1 \in 1 .. i - 1
      BY <2>3
    <3> QED BY <1>1, <1>l, <1>b, <3>1
  <2>4. CASE j > i + 1
    <3>1. PICK k \in i .. Len(s) : j = k + 1
      BY <1>1, <2>4
    <3>2. /\ k \in 1 .. Len(s) /\ k # 1 /\ k # i /\ j # 1 /\ j - 1 = k
          /\ k - 1 \in i .. Len(s) /\ (k - 1) + 1 = k
      BY <2>4, <3>1
    <3>3. b2[s[k]] = s[k - 1]
      BY <1>l, <1>b, <3>2, Zenon
    <3>4. r[j] = s[k] /\ r[j - 1] = s[k - 1]
      BY <1>1, <3>1, <3>2, Zenon
    <3> QED BY <3>2, <3>3, <3>4, Zenon
  <2> QED BY <1>1, <2>1, <2>2, <2>3, <2>4
<1>7. \A j, k \in 1 .. Len(r) : r[j] = r[k] => j = k
  BY <1>1, <1>3 DEF IsInjective
<1>8. Linked(r, h2, t2, n2, b2)
  BY <1>4, <1>5, <1>6, <1>7 DEF Linked
<1> QED BY <1>8 DEF r

\* What remove does to the links when the fault at position i goes: the fault
\* before it and the one after it point to each other (faultq.cc, remove).
Cut(s, i, hd, tl, n, b, h2, t2, n2, b2) ==
  /\ h2 = (IF i = 1 THEN n[s[i]] ELSE hd)
  /\ t2 = (IF i = Len(s) THEN b[s[i]] ELSE tl)
  /\ i > 1 => n2[s[i - 1]] = n[s[i]]
  /\ i < Len(s) => b2[s[i + 1]] = b[s[i]]
  /\ \A j \in 1 .. Len(s) : j # i - 1 => n2[s[j]] = n[s[j]]
  /\ \A j \in 1 .. Len(s) : j # i + 1 => b2[s[j]] = b[s[j]]

\* The linked list without the fault cut out at position i.
LEMMA LinkedOut ==
  ASSUME NEW s \in Seq(Fault), NEW i \in 1 .. Len(s),
         NEW hd, NEW tl, NEW n, NEW b, Linked(s, hd, tl, n, b),
         NEW h2, NEW t2, NEW n2, NEW b2, Cut(s, i, hd, tl, n, b, h2, t2, n2, b2)
  PROVE  Linked(RemovedAt(s, i), h2, t2, n2, b2)
<1> DEFINE r == RemovedAt(s, i)
<1>1. /\ r \in Seq(Fault) /\ Len(r) = Len(s) - 1
      /\ \A j \in 1 .. Len(s) - 1 : r[j] = IF j < i THEN s[j] ELSE s[j + 1]
  BY RemovedAtElements, Zenon
<1>2. IsInjective(s)
  BY DEF Linked, IsInjective
<1>3. IsInjective(r)
  BY <1>2, RemovedAtSet
<1> HIDE DEF r
<1>a. /\ h2 = (IF i = 1 THEN n[s[i]] ELSE hd)
      /\ t2 = (IF i = Len(s) THEN b[s[i]] ELSE tl)
  BY DEF Cut
<1>n. /\ i > 1 => n2[s[i - 1]] = n[s[i]]
      /\ \A j \in 1 .. Len(s) : j # i - 1 => n2[s[j]] = n[s[j]]
  BY DEF Cut
<1>b. /\ i < Len(s) => b2[s[i + 1]] = b[s[i]]
      /\ \A j \in 1 .. Len(s) : j # i + 1 => b2[s[j]] = b[s[j]]
  BY DEF Cut
<1>l. /\ s # <<>> => hd = s[1] /\ tl = s[Len(s)]
      /\ \A j \in 1 .. Len(s) : /\ n[s[j]] = (IF j = Len(s) THEN NULL ELSE s[j + 1])
                                /\ b[s[j]] = (IF j = 1 THEN NULL ELSE s[j - 1])
  BY DEF Linked
<1>4. /\ \A j \in 1 .. i - 1 : r[j] = s[j]
      /\ \A j \in i .. Len(s) - 1 : r[j] = s[j + 1]
  <2>1. ASSUME NEW j \in 1 .. i - 1 PROVE r[j] = s[j]
    <3>1. j \in 1 .. Len(s) - 1 /\ j < i
      OBVIOUS
    <3> QED BY <1>1, <3>1, Zenon
  <2>2. ASSUME NEW j \in i .. Len(s) - 1 PROVE r[j] = s[j + 1]
    <3>1. j \in 1 .. Len(s) - 1 /\ ~(j < i)
      OBVIOUS
    <3> QED BY <1>1, <3>1, Zenon
  <2> QED BY <2>1, <2>2
<1>c. Len(r) = Len(s) - 1 /\ (r = <<>> <=> Len(s) = 1) /\ s # <<>>
  BY <1>1
<1>5. h2 = (IF r = <<>> THEN NULL ELSE r[1]) /\ t2 = (IF r = <<>> THEN NULL ELSE r[Len(r)])
  <2>1. CASE Len(s) = 1
    <3>1. i = 1 /\ r = <<>>
      BY <1>c, <2>1
    <3> QED BY <1>a, <1>l, <2>1, <3>1
  <2>2. CASE Len(s) # 1
    <3>1. r # <<>> /\ Len(s) > 1
      BY <1>c, <2>2
    <3>2. h2 = r[1]
      <4>1. CASE i = 1
        <5>1. 1 \in i .. Len(s) - 1 /\ i # Len(s) /\ i + 1 = 1 + 1
          BY <3>1, <4>1
        <5> QED BY <1>4, <1>a, <1>l, <4>1, <5>1
      <4>2. CASE i # 1
        <5>1. 1 \in 1 .. i - 1
          BY <4>2
        <5> QED BY <1>4, <1>a, <1>c, <1>l, <4>2, <5>1, Zenon
      <4> QED BY <4>1, <4>2
    <3>3. t2 = r[Len(r)]
      <4>1. CASE i = Len(s)
        <5>1. Len(s) - 1 \in 1 .. i - 1 /\ i # 1
          BY <3>1, <4>1
        <5> QED BY <1>4, <1>a, <1>c, <1>l, <4>1, <5>1, Zenon
      <4>2. CASE i # Len(s)
        <5>1. Len(s) - 1 \in i .. Len(s) - 1 /\ (Len(s) - 1) + 1 = Len(s)
          BY <4>2
        <5> QED BY <1>4, <1>a, <1>c, <1>l, <4>2, <5>1, Zenon
      <4> QED BY <4>1, <4>2
    <3> QED BY <3>1, <3>2, <3>3
  <2> QED BY <2>1, <2>2
<1>6. ASSUME NEW j \in 1 .. Len(r)
      PROVE  n2[r[j]] = IF j = Len(r) THEN NULL ELSE r[j + 1]
  <2>1. CASE j < i - 1
    <3>1. /\ j \in 1 .. i - 1 /\ j + 1 \in 1 .. i - 1 /\ j # i - 1
          /\ j \in 1 .. Len(s) /\ j # Len(s) /\ j # Len(s) - 1
      BY <2>1
    <3> QED BY <1>4, <1>c, <1>l, <1>n, <3>1
  <2>2. CASE j = i - 1
    <3>1. /\ j \in 1 .. i - 1 /\ i > 1 /\ j + 1 = i /\ (j = Len(s) - 1 <=> i = Len(s))
          /\ i # Len(s) => i \in i .. Len(s) - 1
      BY <2>2
    <3>2. r[j] = s[i - 1] /\ n2[s[i - 1]] = n[s[i]] /\ (i # Len(s) => r[j + 1] = s[i + 1])
      BY <1>4, <1>n, <2>2, <3>1, Zenon
    <3> QED BY <1>c, <1>l, <3>1, <3>2, Zenon
  <2>3. CASE j >= i
    <3>1. /\ j \in i .. Len(s) - 1 /\ j + 1 \in 1 .. Len(s) /\ j + 1 # i - 1
          /\ j = Len(s) - 1 <=> j + 1 = Len(s)
          /\ j # Len(s) - 1 => j + 1 \in i .. Len(s) - 1
      BY <1>c, <2>3
    <3>2. r[j] = s[j + 1] /\ (j # Len(s) - 1 => r[j + 1] = s[(j + 1) + 1])
      BY <1>4, <3>1, Zenon
    <3>3. n2[s[j + 1]] = IF j + 1 = Len(s) THEN NULL ELSE s[(j + 1) + 1]
      BY <1>l, <1>n, <3>1, Zenon
    <3> QED BY <1>c, <3>1, <3>2, <3>3, Zenon
  <2> QED BY <2>1, <2>2, <2>3
<1>7. ASSUME NEW j \in 1 .. Len(r)
      PROVE  b2[r[j]] = IF j = 1 THEN NULL ELSE r[j - 1]
  <2>1. CASE j < i
    <3>1. j \in 1 .. i - 1 /\ j \in 1 .. Len(s) /\ j # i + 1 /\ (j # 1 => j - 1 \in 1 .. i - 1)
      BY <2>1
    <3> QED BY <1>4, <1>b, <1>l, <3>1
  <2>2. CASE j = i
    <3>1. j \in i .. Len(s) - 1 /\ i < Len(s) /\ (j # 1 => i - 1 \in 1 .. i - 1)
      BY <1>c, <2>2
    <3>2. r[j] = s[i + 1] /\ b2[s[i + 1]] = b[s[i]] /\ (j # 1 => r[j - 1] = s[i - 1])
      BY <1>4, <1>b, <2>2, <3>1, Zenon
    <3> QED BY <1>l, <2>2, <3>2, Zenon
  <2>3. CASE j > i
    <3>1. /\ j \in i .. Len(s) - 1 /\ j - 1 \in i .. Len(s) - 1 /\ (j - 1) + 1 = j
          /\ j + 1 \in 1 .. Len(s) /\ j # 1 /\ j + 1 # 1 /\ j + 1 # i + 1 /\ (j + 1) - 1 = j
      BY <1>c, <2>3
    <3>2. r[j] = s[j + 1] /\ r[j - 1] = s[j]
      BY <1>4, <3>1, Zenon
    <3>3. b2[s[j + 1]] = s[j]
      BY <1>b, <1>l, <3>1, Zenon
    <3> QED BY <3>1, <3>2, <3>3, Zenon
  <2> QED BY <2>1, <2>2, <2>3
<1>8. \A j, k \in 1 .. Len(r) : r[j] = r[k] => j = k
  BY <1>1, <1>3 DEF IsInjective
<1>9. Linked(r, h2, t2, n2, b2)
  BY <1>5, <1>6, <1>7, <1>8 DEF Linked
<1> QED BY <1>9 DEF r

-----------------------------------------------------------------------------
(* Entering a fault.                                                       *)

LEMMA ListLinked == ListOK <=> Linked(q, head, tail, nxt, prv)
BY DEF ListOK, Linked

\* What the invariant says of the queued faults, in the form the steps use it.
LEMMA Queued ==
  ASSUME IInv
  PROVE  /\ q \in Seq(Fault) /\ Len(q) \in Nat
         /\ \A i \in 1 .. Len(q) : /\ q[i] \in Fault /\ q[i] # NULL /\ q[i] # Wild
                                   /\ q[i] \in Range(q) /\ q[i] \in created
         /\ \A f \in Range(q) : \E i \in 1 .. Len(q) : f = q[i]
         /\ IsInjective(q) /\ \A i, j \in 1 .. Len(q) : q[i] = q[j] => i = j
         /\ (q = <<>> <=> Len(q) = 0) /\ (q = <<>> <=> empty)
<1>1. q \in Seq(Fault)
  BY DEF IInv, OpType, TypeOK
<1>2. \A i \in 1 .. Len(q) : q[i] \in Fault /\ q[i] # NULL /\ q[i] # Wild
  BY <1>1, PointerAssumption
<1>3. /\ \A i \in 1 .. Len(q) : q[i] \in Range(q)
      /\ \A f \in Range(q) : \E i \in 1 .. Len(q) : f = q[i]
  BY <1>1 DEF Range
<1>4. \A i \in 1 .. Len(q) : q[i] \in created
  BY <1>3, Zenon DEF IInv
<1>5. IsInjective(q) /\ \A i, j \in 1 .. Len(q) : q[i] = q[j] => i = j
  BY <1>1 DEF IInv, ListOK, IsInjective
<1>6. q = <<>> <=> Len(q) = 0
  BY <1>1
<1>7. q = <<>> <=> empty
  BY <1>1, <1>2, <1>6 DEF IInv, ListOK, empty
<1> QED BY <1>1, <1>2, <1>3, <1>4, <1>5, <1>6, <1>7

\* op.f has been entered at position i, the place of its time.
Entered(i) ==
  /\ i \in 1 .. Len(q) + 1
  /\ \A j \in 1 .. i - 1 : Earlier(q[j], op.f)
  /\ i <= Len(q) => ~Earlier(q[i], op.f)
  /\ q' = InsertedAt(q, i, op.f)

\* The fault goes behind the last one; its own nxt is still NULL.
LEMMA TailEntered ==
  ASSUME IInv, InsertAtTail
  PROVE  ListOK' /\ \E i \in 1 .. Len(q) + 1 : Entered(i)
<1>a. /\ op.what = "insert" /\ op.p = NULL
      /\ nxt' = [nxt EXCEPT ![tail] = op.f] /\ prv' = [prv EXCEPT ![op.f] = tail]
      /\ tail' = op.f /\ head' = head /\ q' = Append(q, op.f)
  BY DEF InsertAtTail
<1>0. /\ op.f \in Fault /\ op.f \notin Range(q) /\ q # <<>>
      /\ nxt[op.f] = NULL /\ prv[op.f] = NULL
      /\ nxt \in [Fault -> Pointer] /\ prv \in [Fault -> Pointer]
  BY <1>a DEF IInv, Inserting, OpType, TypeOK
<1>1. PICK i \in 1 .. Len(q) + 1 : CursorAt(i) /\ \A j \in 1 .. i - 1 : Earlier(q[j], op.f)
  BY <1>a DEF IInv, Inserting
<1>2. i = Len(q) + 1
  BY <1>a, <1>1, Queued DEF CursorAt
<1>3. q' = InsertedAt(q, i, op.f)
  <2>1. q' \in Seq(Fault) /\ Len(q') = Len(q) + 1
        /\ \A j \in 1 .. Len(q) + 1 : q'[j] = IF j = Len(q) + 1 THEN op.f ELSE q[j]
    BY <1>a, <1>0, Queued
  <2>2. /\ InsertedAt(q, i, op.f) \in Seq(Fault) /\ Len(InsertedAt(q, i, op.f)) = Len(q) + 1
        /\ InsertedAt(q, i, op.f)[i] = op.f
        /\ \A j \in 1 .. i - 1 : InsertedAt(q, i, op.f)[j] = q[j]
    BY <1>0, <1>1, Queued, InsertedAtPlaces
  <2>3. \A j \in 1 .. Len(q) + 1 : q'[j] = InsertedAt(q, i, op.f)[j]
    BY <1>2, <2>1, <2>2
  <2> QED BY <2>1, <2>2, <2>3, SameElements
<1>4. Entered(i)
  BY <1>1, <1>2, <1>3, Queued DEF Entered
<1>5. tail = q[Len(q)] /\ Len(q) \in 1 .. Len(q) /\ tail \in Fault /\ tail # op.f
  BY <1>0, Queued DEF IInv, ListOK
<1>6. Linked(q', head', tail', nxt', prv')
  <2>1. nxt'[op.f] = NULL /\ nxt'[q[Len(q)]] = op.f /\ prv'[op.f] = q[Len(q)]
    BY <1>a, <1>0, <1>5
  <2>2. \A j \in 1 .. Len(q) : j # Len(q) => nxt'[q[j]] = nxt[q[j]]
    BY <1>a, <1>0, <1>5, Queued
  <2>3. \A j \in 1 .. Len(q) : prv'[q[j]] = prv[q[j]]
    BY <1>a, <1>0, Queued
  <2>4. Linked(q, head, tail, nxt, prv)
    BY ListLinked DEF IInv
  <2>5. i # 1 /\ i - 1 = Len(q)
    BY <1>0, <1>2, Queued
  <2>6. Spliced(q, i, op.f, head, tail, nxt, prv, head', tail', nxt', prv')
    <3>1. head' = head /\ tail' = op.f
      BY <1>a
    <3>2. i = Len(q) + 1 /\ i # 1 /\ i - 1 = Len(q) /\ ~(i <= Len(q))
      BY <1>2, <2>5, Queued
    <3> QED BY <2>1, <2>2, <2>3, <3>1, <3>2, Zenon DEF Spliced
  <2>7. Linked(InsertedAt(q, i, op.f), head', tail', nxt', prv')
    BY <1>0, <2>4, <2>6, Queued, LinkedIn
  <2> QED BY <1>3, <2>7
<1> QED BY <1>4, <1>6 DEF ListOK, Linked
\* The fault goes before the first one; its own prv is still NULL.
LEMMA HeadEntered ==
  ASSUME IInv, InsertAtHead
  PROVE  ListOK' /\ \E i \in 1 .. Len(q) + 1 : Entered(i)
<1>a. /\ op.what = "insert" /\ op.p \in Fault /\ op.p = head /\ ~Earlier(op.p, op.f)
      /\ prv' = [prv EXCEPT ![head] = op.f] /\ nxt' = [nxt EXCEPT ![op.f] = head]
      /\ head' = op.f /\ tail' = tail /\ q' = <<op.f>> \o q
  BY DEF InsertAtHead
<1>0. /\ op.f \in Fault /\ op.f \notin Range(q) /\ q # <<>>
      /\ nxt[op.f] = NULL /\ prv[op.f] = NULL
      /\ nxt \in [Fault -> Pointer] /\ prv \in [Fault -> Pointer]
  BY <1>a DEF IInv, Inserting, OpType, TypeOK
<1>1. head = q[1] /\ 1 \in 1 .. Len(q) /\ 1 \in 1 .. Len(q) + 1 /\ 1 # Len(q) + 1 /\ head # op.f
  BY <1>0, Queued DEF IInv, ListOK
<1>2. q' = InsertedAt(q, 1, op.f)
  <2>1. /\ SubSeq(q, 1, 1 - 1) = <<>> /\ SubSeq(q, 1, Len(q)) = q
        /\ <<>> \o <<op.f>> = <<op.f>>
    BY <1>0, Queued
  <2> QED BY <1>a, <2>1 DEF InsertedAt
<1>3. Entered(1)
  BY <1>a, <1>1, <1>2 DEF Entered
<1>4. Linked(q', head', tail', nxt', prv')
  <2>1. nxt'[op.f] = q[1] /\ prv'[op.f] = NULL /\ prv'[q[1]] = op.f
    BY <1>a, <1>0, <1>1, Queued
  <2>2. \A j \in 1 .. Len(q) : nxt'[q[j]] = nxt[q[j]]
    BY <1>a, <1>0, Queued
  <2>3. \A j \in 1 .. Len(q) : j # 1 => prv'[q[j]] = prv[q[j]]
    BY <1>a, <1>0, <1>1, Queued
  <2>4. Linked(q, head, tail, nxt, prv)
    BY ListLinked DEF IInv
  <2>5. Spliced(q, 1, op.f, head, tail, nxt, prv, head', tail', nxt', prv')
    <3>1. head' = op.f /\ tail' = tail
      BY <1>a
    <3> QED BY <1>1, <2>1, <2>2, <2>3, <3>1 DEF Spliced
  <2>6. Linked(InsertedAt(q, 1, op.f), head', tail', nxt', prv')
    BY <1>0, <1>1, <2>4, <2>5, Queued, LinkedIn
  <2> QED BY <1>2, <2>6
<1> QED BY <1>1, <1>3, <1>4 DEF ListOK, Linked

\* The fault goes between two queued ones; no pointer to no fault is followed.
LEMMA BetweenEntered ==
  ASSUME IInv, InsertBetween
  PROVE  /\ ListOK' /\ \E i \in 1 .. Len(q) + 1 : Entered(i)
         /\ op' = Idle /\ status' = status
<1>a. /\ op.what = "insert" /\ op.p \in Fault /\ op.p # head /\ ~Earlier(op.p, op.f)
      /\ head' = head /\ tail' = tail
  BY DEF InsertBetween
<1>0. /\ op.f \in Fault /\ op.f \notin Range(q) /\ q # <<>>
      /\ nxt \in [Fault -> Pointer] /\ prv \in [Fault -> Pointer]
  BY <1>a DEF IInv, Inserting, OpType, TypeOK
<1>1. PICK i \in 1 .. Len(q) + 1 : CursorAt(i) /\ \A j \in 1 .. i - 1 : Earlier(q[j], op.f)
  BY <1>a DEF IInv, Inserting
<1>2. /\ i \in 1 .. Len(q) /\ op.p = q[i] /\ i # 1 /\ i - 1 \in 1 .. Len(q) /\ i > 1
      /\ i # Len(q) + 1 /\ i <= Len(q)
  <2>1. i # Len(q) + 1
    BY <1>a, <1>1, PointerAssumption DEF CursorAt
  <2>2. i # 1
    BY <1>a, <1>0, <1>1, <2>1 DEF CursorAt, IInv, ListOK
  <2> QED BY <1>1, <2>1, <2>2, Queued DEF CursorAt
<1>3. /\ prv[op.p] = q[i - 1] /\ q[i - 1] \in Fault
      /\ q[i - 1] # q[i] /\ op.f # q[i] /\ op.f # q[i - 1]
  <2>1. prv[q[i]] = q[i - 1]
    BY <1>2 DEF IInv, ListOK
  <2>2. q[i - 1] # q[i]
    BY <1>2, Queued
  <2> QED BY <1>0, <1>2, <2>1, <2>2, Queued
<1>4. /\ nxt' = [nxt EXCEPT ![q[i - 1]] = op.f, ![op.f] = q[i]]
      /\ prv' = [prv EXCEPT ![op.f] = q[i - 1], ![q[i]] = op.f]
      /\ op' = Idle /\ status' = status
      /\ \E k \in 1 .. Len(q) : q[k] = op.p /\ q' = InsertedAt(q, k, op.f)
  BY <1>2, <1>3 DEF InsertBetween
<1>5. q' = InsertedAt(q, i, op.f)
  BY <1>2, <1>4, Queued
<1>6. Entered(i)
  BY <1>a, <1>1, <1>2, <1>5 DEF Entered
<1>7. Linked(q', head', tail', nxt', prv')
  <2>1. nxt'[op.f] = q[i] /\ nxt'[q[i - 1]] = op.f /\ prv'[op.f] = q[i - 1] /\ prv'[q[i]] = op.f
    BY <1>0, <1>2, <1>3, <1>4, Queued
  <2>2. ASSUME NEW j \in 1 .. Len(q), j # i - 1 PROVE nxt'[q[j]] = nxt[q[j]]
    <3>1. q[j] # q[i - 1] /\ q[j] # op.f /\ q[j] \in Fault
      BY <1>0, <1>2, <2>2, Queued
    <3> QED BY <1>0, <1>4, <3>1
  <2>3. ASSUME NEW j \in 1 .. Len(q), j # i PROVE prv'[q[j]] = prv[q[j]]
    <3>1. q[j] # q[i] /\ q[j] # op.f /\ q[j] \in Fault
      BY <1>0, <1>2, <2>3, Queued
    <3> QED BY <1>0, <1>4, <3>1
  <2>4. Linked(q, head, tail, nxt, prv)
    BY ListLinked DEF IInv
  <2>5. Spliced(q, i, op.f, head, tail, nxt, prv, head', tail', nxt', prv')
    <3>1. head' = head /\ tail' = tail
      BY <1>a
    <3> QED BY <1>2, <2>1, <2>2, <2>3, <3>1 DEF Spliced
  <2>6. Linked(InsertedAt(q, i, op.f), head', tail', nxt', prv')
    BY <1>0, <2>4, <2>5, Queued, LinkedIn
  <2> QED BY <1>5, <2>6
<1>8. ListOK'
  BY <1>7, Zenon DEF ListOK, Linked
<1> QED BY <1>4, <1>6, <1>8
\* The place of its time: behind earlier faults only, before one that is not.
LEMMA EnteredPlace ==
  ASSUME IInv, NEW i \in 1 .. Len(q) + 1, Entered(i), op.f \in Fault
  PROVE  /\ \A j \in 1 .. Len(q) : timing[q[j]] \in Nat
         /\ timing[op.f] \in Nat
         /\ \A j \in 1 .. i - 1 : timing[q[j]] < timing[op.f]
         /\ i <= Len(q) => timing[q[i]] >= timing[op.f]
<1>1. timing \in [Fault -> Nat]
  BY TimingAssumption, Zenon DEF IInv, OpType, TypeOK
<1>2. timing[op.f] \in Nat /\ \A j \in 1 .. Len(q) : timing[q[j]] \in Nat
  BY <1>1, Queued
<1>3. \A j \in 1 .. i - 1 : timing[q[j]] < timing[op.f]
  BY Zenon DEF Entered, Earlier
<1>4. ASSUME i <= Len(q) PROVE timing[q[i]] >= timing[op.f]
  <2>1. ~(timing[q[i]] < timing[op.f])
    BY <1>4, Zenon DEF Entered, Earlier
  <2>2. timing[q[i]] \in Nat
    BY <1>2, <1>4
  <2> QED BY <1>2, <2>1, <2>2
<1> QED BY <1>2, <1>3, <1>4

\* Entering a fault at the place of its time keeps the list in order.
LEMMA EnteredAscending ==
  ASSUME IInv, op.what = "insert", NEW i \in 1 .. Len(q) + 1, Entered(i), timing' = timing
  PROVE  \A j \in 1 .. Len(q') - 1 : timing'[q'[j]] <= timing'[q'[j + 1]]
<1>0. op.f \in Fault /\ q \in Seq(Fault) /\ Len(q) \in Nat
  BY Queued DEF IInv, OpType
<1>1. /\ Len(q') = Len(q) + 1 /\ q'[i] = op.f
      /\ \A j \in 1 .. i - 1 : q'[j] = q[j]
      /\ \A j \in i .. Len(q) : q'[j + 1] = q[j]
  <2>1. q' = InsertedAt(q, i, op.f)
    BY DEF Entered
  <2> QED BY <1>0, <2>1, InsertedAtPlaces
<1>2. /\ \A j \in 1 .. Len(q) : timing[q[j]] \in Nat
      /\ timing[op.f] \in Nat
      /\ \A j \in 1 .. i - 1 : timing[q[j]] < timing[op.f]
      /\ i <= Len(q) => timing[q[i]] >= timing[op.f]
  BY <1>0, EnteredPlace
<1>3. \A j \in 1 .. Len(q) - 1 : timing[q[j]] <= timing[q[j + 1]]
  BY DEF IInv, LoadedAscending, Inserting
<1> SUFFICES ASSUME NEW j \in 1 .. Len(q) PROVE timing[q'[j]] <= timing[q'[j + 1]]
  BY <1>0, <1>1
<1>5. CASE j < i - 1
  <2>1. j \in 1 .. i - 1 /\ j + 1 \in 1 .. i - 1 /\ j \in 1 .. Len(q) - 1
    BY <1>0, <1>5
  <2> QED BY <1>1, <1>3, <2>1, Zenon
<1>6. CASE j = i - 1
  <2>1. j \in 1 .. i - 1 /\ j + 1 = i
    BY <1>0, <1>6
  <2>2. q'[j] = q[j] /\ q'[j + 1] = op.f /\ timing[q[j]] < timing[op.f]
    BY <1>1, <1>2, <2>1, Zenon
  <2>3. timing[q[j]] \in Nat
    BY <1>2, Zenon
  <2> QED BY <1>2, <2>2, <2>3
<1>7. CASE j = i
  <2>1. j \in i .. Len(q) /\ i <= Len(q)
    BY <1>0, <1>7
  <2>2. q'[j] = op.f /\ q'[j + 1] = q[i] /\ timing[q[i]] >= timing[op.f]
    BY <1>1, <1>2, <1>7, <2>1, Zenon
  <2>3. timing[q[i]] \in Nat
    BY <1>2, <1>7, Zenon
  <2> QED BY <1>2, <2>2, <2>3
<1>8. CASE j > i
  <2>1. /\ j - 1 \in i .. Len(q) /\ j \in i .. Len(q) /\ j - 1 \in 1 .. Len(q) - 1
        /\ (j - 1) + 1 = j
    BY <1>0, <1>8
  <2>2. q'[j] = q[j - 1] /\ q'[j + 1] = q[j] /\ timing[q[j - 1]] <= timing[q[j]]
    BY <1>1, <1>3, <2>1, Zenon
  <2> QED BY <2>2
<1> QED BY <1>5, <1>6, <1>7, <1>8

LEMMA EnteredInv ==
  ASSUME IInv, op.what = "insert", NEW i \in 1 .. Len(q) + 1, Entered(i),
         OpType', ListOK', op' = Idle, UNCHANGED <<timing, created, phase, status>>,
         \A g \in Fault \ created : nxt'[g] = nxt[g] /\ prv'[g] = prv[g]
  PROVE  IInv'
<1>1. op.f \in Fault /\ op.f \in created /\ q \in Seq(Fault)
  BY DEF IInv, OpType, TypeOK, Inserting
<1>2. Range(q') = Range(q) \cup {op.f}
  BY <1>1, InsertedAtSet DEF Entered
<1>3. Range(q)' \subseteq created'
  BY <1>1, <1>2 DEF IInv
<1>4. LoadedAscending'
  BY EnteredAscending DEF LoadedAscending
<1>5. Unlinked'
  BY DEF IInv, Unlinked
<1>6. NoAbort'
  BY DEF IInv, NoAbort
<1>7. op'.what = "idle"
  BY DEF Idle
<1> QED BY <1>3, <1>4, <1>5, <1>6, <1>7 DEF IInv, Inserting, Removing
-----------------------------------------------------------------------------
(* Removing a fault.                                                       *)

\* The fault at position i has been taken out.
Removed(i) == i \in 1 .. Len(q) /\ op.f = q[i] /\ q' = RemovedAt(q, i)

\* remove closes the gap and follows no pointer to no fault.
LEMMA UnlinkRemoves ==
  ASSUME IInv, Unlink
  PROVE  /\ ListOK' /\ \E i \in 1 .. Len(q) : Removed(i)
         /\ op' = Idle /\ status' = status
         /\ \A g \in Fault \ created : nxt'[g] = nxt[g] /\ prv'[g] = prv[g]
<1>a. op.what = "remove" /\ op.p = op.f
  BY DEF Unlink
<1>1. PICK i \in 1 .. Len(q) : op.f = q[i]
  BY <1>a DEF IInv, Removing
<1>2. /\ nxt \in [Fault -> Pointer] /\ prv \in [Fault -> Pointer]
      /\ q[i] \in Fault
  BY Queued DEF IInv, OpType, TypeOK
<1>3. /\ nxt[q[i]] = (IF i = Len(q) THEN NULL ELSE q[i + 1])
      /\ prv[q[i]] = (IF i = 1 THEN NULL ELSE q[i - 1])
      /\ i # Len(q) => i + 1 \in 1 .. Len(q)
      /\ i # 1 => i - 1 \in 1 .. Len(q)
  BY Queued DEF IInv, ListOK
<1>4. /\ nxt[q[i]] = NULL <=> i = Len(q)
      /\ prv[q[i]] = NULL <=> i = 1
      /\ Wild \notin {prv[q[i]], nxt[q[i]]}
  BY <1>3, Queued, PointerAssumption
<1>5. /\ UnlinkForward(q[i]) /\ UnlinkBackward(q[i])
      /\ op' = Idle /\ status' = status
      /\ \E k \in 1 .. Len(q) : q[k] = q[i] /\ q' = RemovedAt(q, k)
  BY <1>1, <1>4 DEF Unlink
<1>6. q' = RemovedAt(q, i)
  BY <1>5, Queued
<1>7. /\ head' = (IF i = 1 THEN nxt[q[i]] ELSE head)
      /\ i > 1 => nxt'[q[i - 1]] = nxt[q[i]]
      /\ \A g \in Fault : i = 1 \/ g # q[i - 1] => nxt'[g] = nxt[g]
  <2>1. CASE i = 1
    BY <1>4, <1>5, <2>1 DEF UnlinkForward
  <2>2. CASE i # 1
    <3>1. prv[q[i]] = q[i - 1] /\ q[i - 1] \in Fault /\ i - 1 \in 1 .. Len(q)
      BY <1>3, <2>2, Queued
    <3>2. head' = head /\ nxt' = [nxt EXCEPT ![q[i - 1]] = nxt[q[i]]]
      BY <1>4, <1>5, <2>2, <3>1 DEF UnlinkForward
    <3> QED BY <1>2, <2>2, <3>1, <3>2
  <2> QED BY <2>1, <2>2
<1>8. /\ tail' = (IF i = Len(q) THEN prv[q[i]] ELSE tail)
      /\ i < Len(q) => prv'[q[i + 1]] = prv[q[i]]
      /\ \A g \in Fault : i = Len(q) \/ g # q[i + 1] => prv'[g] = prv[g]
  <2>1. CASE i = Len(q)
    BY <1>4, <1>5, <2>1 DEF UnlinkBackward
  <2>2. CASE i # Len(q)
    <3>1. nxt[q[i]] = q[i + 1] /\ q[i + 1] \in Fault /\ i + 1 \in 1 .. Len(q)
      BY <1>3, <2>2, Queued
    <3>2. tail' = tail /\ prv' = [prv EXCEPT ![q[i + 1]] = prv[q[i]]]
      BY <1>4, <1>5, <2>2, <3>1 DEF UnlinkBackward
    <3> QED BY <1>2, <2>2, <3>1, <3>2
  <2> QED BY <2>1, <2>2
<1>9. Linked(q', head', tail', nxt', prv')
  <2>1. ASSUME NEW j \in 1 .. Len(q), j # i - 1 PROVE nxt'[q[j]] = nxt[q[j]]
    <3>1. q[j] \in Fault /\ (i = 1 \/ q[j] # q[i - 1])
      BY <1>3, <2>1, Queued
    <3> QED BY <1>7, <3>1
  <2>2. ASSUME NEW j \in 1 .. Len(q), j # i + 1 PROVE prv'[q[j]] = prv[q[j]]
    <3>1. q[j] \in Fault /\ (i = Len(q) \/ q[j] # q[i + 1])
      BY <1>3, <2>2, Queued
    <3> QED BY <1>8, <3>1
  <2>3. Cut(q, i, head, tail, nxt, prv, head', tail', nxt', prv')
    BY <1>7, <1>8, <2>1, <2>2 DEF Cut
  <2>4. Linked(q, head, tail, nxt, prv)
    BY ListLinked DEF IInv
  <2>5. Linked(RemovedAt(q, i), head', tail', nxt', prv')
    BY <2>3, <2>4, Queued, LinkedOut
  <2> QED BY <1>6, <2>5
<1>10. ASSUME NEW g \in Fault \ created PROVE nxt'[g] = nxt[g] /\ prv'[g] = prv[g]
  BY <1>3, <1>7, <1>8, Queued
<1> QED BY <1>1, <1>5, <1>6, <1>9, <1>10 DEF Removed, ListOK, Linked

LEMMA RemovedInv ==
  ASSUME IInv, op.what = "remove", NEW i \in 1 .. Len(q), Removed(i),
         OpType', ListOK', op' = Idle, UNCHANGED <<timing, created, phase, status>>,
         \A g \in Fault \ created : nxt'[g] = nxt[g] /\ prv'[g] = prv[g]
  PROVE  IInv'
<1>1. phase' # "load"
  BY DEF IInv, Removing
<1>2. Range(q)' \subseteq created'
  BY Queued, RemovedAtSet DEF Removed, IInv
<1>3. op'.what = "idle"
  BY DEF Idle
<1> QED BY <1>1, <1>2, <1>3 DEF IInv, LoadedAscending, NoAbort, Unlinked, Inserting, Removing

-----------------------------------------------------------------------------
(* The inductive invariant.                                                *)

LEMMA InitInv == ASSUME FreshLinks = {NULL}, Init PROVE IInv
<1>1. OpType
  BY InitType
<1>2. ListOK /\ LoadedAscending /\ Range(q) \subseteq created
  BY DEF Init, ListOK, LoadedAscending, Range
<1> QED BY <1>1, <1>2 DEF Init, IInv, NoAbort, Unlinked, Inserting, Removing, Idle

\* An operation begins.
LEMMA BeginInsertInv == ASSUME IInv, NEW f \in Fault, insert(f) PROVE IInv'
<1>0. OpType'
  BY NextType DEF IInv, Next
<1>1. /\ phase = "load" /\ phase' = phase /\ status' = status /\ timing' = timing
      /\ op = Idle /\ f \notin created /\ created' = created \cup {f}
  BY DEF insert
<1>2. CASE empty
  <2>1. /\ q = <<>> /\ head' = f /\ tail' = f /\ q' = <<f>> /\ op' = op
        /\ nxt' = [nxt EXCEPT ![f] = NULL] /\ prv' = [prv EXCEPT ![f] = NULL]
    BY <1>2, Queued DEF insert
  <2>2. nxt \in [Fault -> Pointer] /\ prv \in [Fault -> Pointer]
    BY DEF IInv, OpType, TypeOK
  <2>3. ListOK' /\ LoadedAscending'
    BY <2>1, <2>2 DEF ListOK, LoadedAscending
  <2>4. Range(q)' = {f}
    BY <2>1 DEF Range
  <2>5. Unlinked'
    BY <1>1, <2>1, <2>2 DEF IInv, Unlinked
  <2> QED BY <1>0, <1>1, <2>1, <2>3, <2>4, <2>5
          DEF IInv, NoAbort, Inserting, Removing, Idle
<1>3. CASE ~empty
  <2>1. op' = [what |-> "insert", f |-> f, p |-> head] /\ UNCHANGED <<links, q>>
    BY <1>3 DEF insert
  <2>2. q # <<>> /\ 1 \in 1 .. Len(q) /\ 1 \in 1 .. Len(q) + 1 /\ 1 # Len(q) + 1
    BY <1>3, Queued
  <2>3. head = q[1]
    BY <2>2 DEF IInv, ListOK
  <2>4. f \notin Range(q) /\ nxt[f] = NULL /\ prv[f] = NULL
    BY <1>1 DEF IInv, Unlinked
  <2>5. CursorAt(1)' /\ \A j \in 1 .. 1 - 1 : Earlier(q[j], op.f)'
    BY <2>1, <2>2, <2>3 DEF CursorAt
  <2>6. Inserting'
    BY <1>1, <2>1, <2>2, <2>4, <2>5, Zenon DEF Inserting, links
  <2> QED BY <1>0, <1>1, <2>1, <2>6
          DEF IInv, links, ListOK, LoadedAscending, NoAbort, Unlinked, Removing
<1> QED BY <1>2, <1>3

LEMMA BeginRemoveInv ==
  ASSUME IInv, NEW f \in Range(q), phase # "load", BeginRemove(f), phase' = phase
  PROVE  IInv'
<1>1. PICK j \in 1 .. Len(q) : f = q[j]
  BY Queued
<1>2. f \in Fault /\ q # <<>> /\ ~empty /\ head = q[1] /\ 1 \in 1 .. j
  BY <1>1, Queued DEF IInv, ListOK
<1>3. op' = [what |-> "remove", f |-> f, p |-> head]
      /\ UNCHANGED <<links, timing, created, status, q>>
  BY <1>2 DEF BeginRemove
<1>4. OpType'
  BY <1>2, <1>3 DEF IInv, OpType, TypeOK, links
<1>5. Removing'
  BY <1>1, <1>2, <1>3 DEF Removing
<1> QED BY <1>3, <1>4, <1>5
        DEF IInv, links, ListOK, LoadedAscending, NoAbort, Unlinked, Inserting
\* A step of a walk: the cursor goes on to the next position.
LEMMA InsertWalkInv == ASSUME IInv, InsertWalk PROVE IInv'
<1>1. op.what = "insert" /\ op.p # NULL /\ (op.p # Wild => Earlier(op.p, op.f))
  BY DEF InsertWalk
<1>2. PICK i \in 1 .. Len(q) + 1 : CursorAt(i) /\ \A j \in 1 .. i - 1 : Earlier(q[j], op.f)
  BY <1>1 DEF IInv, Inserting
<1>3. i \in 1 .. Len(q) /\ op.p = q[i] /\ op.p # Wild /\ i + 1 \in 1 .. Len(q) + 1
  BY <1>1, <1>2, Queued DEF CursorAt
<1>4. /\ op' = [op EXCEPT !.p = nxt[op.p]]
      /\ UNCHANGED <<links, status, q, timing, created, phase>>
  BY <1>3 DEF InsertWalk, Advance
<1>5. /\ op'.what = "insert" /\ op'.f = op.f
      /\ op'.p = (IF i + 1 = Len(q) + 1 THEN NULL ELSE q[i + 1])
  <2>1. nxt[q[i]] = (IF i = Len(q) THEN NULL ELSE q[i + 1])
    BY <1>3 DEF IInv, ListOK
  <2>2. op \in [what : {"idle", "insert", "remove"}, f : Fault \cup {NULL}, p : Pointer]
    BY DEF IInv, OpType, TypeOK
  <2> QED BY <1>1, <1>3, <1>4, <2>1, <2>2, Queued
<1>6. CursorAt(i + 1)'
  BY <1>4, <1>5 DEF CursorAt
<1>7. \A j \in 1 .. (i + 1) - 1 : Earlier(q[j], op.f)
  BY <1>1, <1>2, <1>3
<1>8. Inserting'
  <2>1. \A j \in 1 .. (i + 1) - 1 : Earlier(q[j], op.f)'
    BY <1>4, <1>5, <1>7 DEF Earlier
  <2>2. /\ phase' = "load" /\ q' # <<>> /\ op'.f \in created' \ Range(q')
        /\ nxt'[op'.f] = NULL /\ prv'[op'.f] = NULL
    BY <1>1, <1>4, <1>5 DEF IInv, Inserting, links
  <2>3. i + 1 \in 1 .. Len(q') + 1
    BY <1>3, <1>4
  <2> QED BY <1>6, <2>1, <2>2, <2>3 DEF Inserting
<1>9. OpType'
  BY NextType DEF IInv, Next, Work
<1> QED BY <1>4, <1>5, <1>8, <1>9
        DEF IInv, links, ListOK, LoadedAscending, NoAbort, Unlinked, Removing

LEMMA RemoveWalkInv == ASSUME IInv, RemoveWalk PROVE IInv'
<1>1. op.what = "remove" /\ op.p # op.f
  BY DEF RemoveWalk
<1>2. PICK j \in 1 .. Len(q) : op.f = q[j] /\ \E i \in 1 .. j : op.p = q[i]
  BY <1>1 DEF IInv, Removing
<1>3. PICK i \in 1 .. j : op.p = q[i]
  BY <1>2
<1>4. i \in 1 .. Len(q) /\ i # Len(q) /\ i + 1 \in 1 .. j /\ op.p # NULL /\ op.p # Wild
  BY <1>1, <1>2, <1>3, Queued
<1>5. /\ op' = [op EXCEPT !.p = nxt[op.p]]
      /\ UNCHANGED <<links, status, q, timing, created, phase>>
  BY <1>4 DEF RemoveWalk, Advance
<1>6. op'.what = "remove" /\ op'.f = op.f /\ op'.p = q[i + 1]
  <2>1. nxt[q[i]] = q[i + 1]
    BY <1>4 DEF IInv, ListOK
  <2>2. op \in [what : {"idle", "insert", "remove"}, f : Fault \cup {NULL}, p : Pointer]
    BY DEF IInv, OpType, TypeOK
  <2> QED BY <1>1, <1>3, <1>5, <2>1, <2>2
<1>7. Removing'
  <2>1. phase' # "load"
    BY <1>1, <1>5 DEF IInv, Removing
  <2> QED BY <1>2, <1>4, <1>5, <1>6, <2>1 DEF Removing
<1>8. OpType'
  BY NextType DEF IInv, Next, Work
<1> QED BY <1>5, <1>6, <1>7, <1>8
        DEF IInv, links, ListOK, LoadedAscending, NoAbort, Unlinked, Inserting

\* The three ways insert ends are one: the fault has entered at some position.
LEMMA InsertEnds ==
  ASSUME IInv, InsertAtTail \/ InsertAtHead \/ InsertBetween
  PROVE  /\ ListOK' /\ \E i \in 1 .. Len(q) + 1 : Entered(i)
         /\ op.what = "insert" /\ op' = Idle /\ UNCHANGED <<timing, created, phase, status>>
         /\ \A g \in Fault \ created : nxt'[g] = nxt[g] /\ prv'[g] = prv[g]
<1>1. ListOK' /\ \E i \in 1 .. Len(q) + 1 : Entered(i)
  BY TailEntered, HeadEntered, BetweenEntered
<1>2. op.what = "insert" /\ op' = Idle /\ UNCHANGED <<timing, created, phase, status>>
  BY BetweenEntered DEF InsertAtTail, InsertAtHead, InsertBetween
<1>3. ASSUME NEW g \in Fault \ created PROVE nxt'[g] = nxt[g] /\ prv'[g] = prv[g]
  <2>1. /\ op.f \in Fault /\ op.f \in created /\ q # <<>>
        /\ nxt \in [Fault -> Pointer] /\ prv \in [Fault -> Pointer]
    BY <1>2 DEF IInv, Inserting, OpType, TypeOK
  <2>2. head \in created /\ tail \in created
    BY <2>1, Queued DEF IInv, ListOK
  <2>3. CASE InsertAtTail
    BY <2>1, <2>2, <2>3 DEF InsertAtTail
  <2>4. CASE InsertAtHead
    BY <2>1, <2>2, <2>4 DEF InsertAtHead
  <2>5. CASE InsertBetween
    <3>1. op.p \in Fault /\ op.p # head
      BY <2>5 DEF InsertBetween
    <3>2. PICK i \in 1 .. Len(q) : op.p = q[i]
      BY <1>2, <3>1, PointerAssumption, Queued DEF IInv, Inserting, CursorAt
    <3>3. op.p \in created /\ prv[op.p] \in created \cup {NULL} /\ NULL \notin Fault
      <4>1. prv[q[i]] = (IF i = 1 THEN NULL ELSE q[i - 1])
        BY <3>2 DEF IInv, ListOK
      <4>2. i = 1 \/ i - 1 \in 1 .. Len(q)
        BY Queued
      <4> QED BY <3>2, <4>1, <4>2, PointerAssumption, Queued
    <3> QED BY <2>1, <2>5, <3>3 DEF InsertBetween
  <2> QED BY <2>3, <2>4, <2>5
<1> QED BY <1>1, <1>2, <1>3

\* A step between two operations that leaves the list alone and does not load.
LEMMA ListKeptInv ==
  ASSUME IInv, OpType', op = Idle, phase' # "load", UNCHANGED <<links, created, op, status, q>>
  PROVE  IInv'
<1>1. ListOK'
  BY Zenon DEF IInv, ListOK, links
<1>2. NoAbort' /\ LoadedAscending'
  BY Zenon DEF IInv, NoAbort, LoadedAscending
<1>3. (op.what = "idle" => op = Idle)' /\ (Range(q) \subseteq created)'
  BY Zenon DEF IInv
<1>4. Unlinked'
  BY Zenon DEF IInv, Unlinked, links
<1>5. Inserting' /\ Removing'
  BY DEF Inserting, Removing, Idle
<1> QED BY <1>1, <1>2, <1>3, <1>4, <1>5, Zenon DEF IInv

LEMMA NextInv == IInv /\ [Next]_vars => IInv'
<1> SUFFICES ASSUME IInv, [Next]_vars PROVE IInv'
  OBVIOUS
<1>0. OpType'
  BY NextType DEF IInv
<1>1. ASSUME NEW f \in Fault, insert(f) PROVE IInv'
  BY <1>1, BeginInsertInv
<1>2. ASSUME NEW f \in Fault, remove(f) PROVE IInv'
  BY <1>2, BeginRemoveInv DEF remove
<1>3. ASSUME NEW f \in Fault, NEW t \in Timing, increaseTiming(f, t) PROVE IInv'
  <2>1. op = Idle /\ phase' # "load" /\ UNCHANGED <<links, created, op, status, q>>
    BY <1>3 DEF increaseTiming
  <2> QED BY <1>0, <2>1, ListKeptInv
<1>4. ASSUME Loaded \/ Reset PROVE IInv'
  <2>1. op = Idle /\ phase' # "load" /\ UNCHANGED <<links, created, op, status, q>>
    BY <1>4 DEF Loaded, Reset
  <2> QED BY <1>0, <2>1, ListKeptInv
<1>5. CASE InsertWalk
  BY <1>5, InsertWalkInv
<1>6. CASE InsertAtTail \/ InsertAtHead \/ InsertBetween
  BY <1>0, <1>6, InsertEnds, EnteredInv
<1>7. CASE RemoveWalk
  BY <1>7, RemoveWalkInv
<1>8. CASE Unlink
  <2>1. op.what = "remove" /\ UNCHANGED <<timing, created, phase>>
    BY <1>8 DEF Unlink
  <2> QED BY <1>0, <1>8, <2>1, UnlinkRemoves, RemovedInv
<1>9. CASE DrainHead
  <2>1. head \in Range(q) /\ phase # "load" /\ BeginRemove(head) /\ phase' = phase
    BY <1>9, Queued DEF DrainHead, IInv, ListOK
  <2> QED BY <2>1, BeginRemoveInv
<1>10. CASE DrainDone
  <2>1. q = <<>> /\ q' = <<>>
    BY <1>10, Queued DEF DrainDone
  <2>2. ListOK' /\ LoadedAscending'
    BY <1>10, <2>1 DEF DrainDone, ListOK, LoadedAscending
  <2> QED BY <1>0, <1>10, <2>2, Zenon DEF DrainDone, IInv, NoAbort, Unlinked, Inserting, Removing, Idle
<1>11. CASE UNCHANGED vars
  BY <1>11 DEF vars, links, IInv, OpType, TypeOK, ListOK, LoadedAscending, NoAbort, Unlinked,
               Inserting, Removing, CursorAt, Earlier
<1> QED BY <1>1, <1>2, <1>3, <1>4, <1>5, <1>6, <1>7, <1>8, <1>9, <1>10, <1>11 DEF Next, Work
-----------------------------------------------------------------------------
(* The results.                                                            *)

\* When new faults hold NULL in their links, head, tail, nxt and prv always
\* spell out the list that the inserts and removes so far should have built,
\* in both directions and with no fault twice, whatever the walks pass over.
THEOREM LinksSpellList == ASSUME FreshLinks = {NULL} PROVE Spec => []ListOK
<1>1. Init => IInv
  BY InitInv
<1>2. IInv => ListOK
  BY DEF IInv
<1> QED BY <1>1, <1>2, NextInv, PTL DEF Spec

\* remove finds every fault it is called for, also in the drain loop of
\* Fi_System::reset: its assert(0) is not reached, and no walk follows a wild
\* pointer.
THEOREM NeverAborts == ASSUME FreshLinks = {NULL} PROVE Spec => []NoAbort
<1>1. Init => IInv
  BY InitInv
<1>2. IInv => NoAbort
  BY DEF IInv
<1> QED BY <1>1, <1>2, NextInv, PTL DEF Spec

\* As long as the fault file is being read, also again after a reset, the list
\* is in ascending order of time.
THEOREM LoadedInOrder == ASSUME FreshLinks = {NULL} PROVE Spec => []LoadedAscending
<1>1. Init => IInv
  BY InitInv
<1>2. IInv => LoadedAscending
  BY DEF IInv
<1> QED BY <1>1, <1>2, NextInv, PTL DEF Spec

\* The instance of FaultList has its own copies of the operators on lists.
LEMMA SameOperators ==
  /\ \A s : List!Range(s) = Range(s)
  /\ \A s, i, e : List!InsertedAt(s, i, e) = InsertedAt(s, i, e)
  /\ \A s, i : List!RemovedAt(s, i) = RemovedAt(s, i)
BY Zenon DEF List!Range, Range, List!InsertedAt, InsertedAt, List!RemovedAt, RemovedAt

\* A step of the pointer structure is a step of the abstract list or changes
\* neither the list nor a time.
LEMMA StepRefines == IInv /\ [Next]_vars => [List!Next]_(List!lvars)
<1> SUFFICES ASSUME IInv, [Next]_vars PROVE List!Next \/ UNCHANGED <<q, timing>>
  BY DEF List!lvars
<1>1. ASSUME NEW f \in Fault, insert(f) PROVE List!Next \/ UNCHANGED <<q, timing>>
  <2>1. CASE empty
    <3>1. q = <<>> /\ q' = <<f>> /\ timing' = timing
      BY <1>1, <2>1, Queued DEF insert
    <3>2. InsertedAt(q, 1, f) = <<f>>
      <4>1. /\ SubSeq(q, 1, 1 - 1) = <<>> /\ SubSeq(q, 1, Len(q)) = <<>>
            /\ <<>> \o <<f>> = <<f>> /\ <<f>> \o <<>> = <<f>>
        BY <3>1
      <4> QED BY <4>1, Zenon DEF InsertedAt
    <3>3. f \notin Range(q) /\ 1 \in 1 .. Len(q) + 1 /\ List!EntersAt(1, timing[f])
      BY <3>1 DEF Range, List!EntersAt
    <3>4. List!insert(f)
      BY <3>1, <3>2, <3>3, SameOperators DEF List!insert
    <3> QED BY <3>4, Zenon DEF List!Next
  <2>2. CASE ~empty
    BY <1>1, <2>2 DEF insert
  <2> QED BY <2>1, <2>2
<1>2. ASSUME NEW f \in Fault, NEW t \in Timing, increaseTiming(f, t) PROVE List!Next
  <2>1. List!increaseTiming(f, t)
    BY <1>2, SameOperators DEF increaseTiming, List!increaseTiming
  <2> QED BY <2>1, Zenon DEF List!Next
<1>3. CASE InsertAtTail \/ InsertAtHead \/ InsertBetween
  <2>1. PICK i \in 1 .. Len(q) + 1 : Entered(i)
    BY <1>3, InsertEnds, Zenon
  <2>2. op.f \in Fault /\ op.f \notin Range(q) /\ timing' = timing
    BY <1>3, InsertEnds, Zenon DEF IInv, OpType, TypeOK, Inserting
  <2>3. List!EntersAt(i, timing[op.f])
    BY <2>1, <2>2, EnteredPlace, Zenon DEF List!EntersAt
  <2>4. List!insert(op.f)
    BY <2>1, <2>2, <2>3, SameOperators, Zenon DEF Entered, List!insert
  <2> QED BY <2>2, <2>4, Zenon DEF List!Next
<1>4. CASE Unlink
  <2>1. PICK i \in 1 .. Len(q) : Removed(i)
    BY <1>4, UnlinkRemoves
  <2>2. op.f \in Fault /\ timing' = timing
    BY <1>4, <2>1, Queued DEF Unlink, Removed
  <2>3. List!remove(op.f)
    BY <2>1, <2>2, SameOperators DEF Removed, List!remove
  <2> QED BY <2>2, <2>3, Zenon DEF List!Next
<1>5. ASSUME InsertWalk \/ RemoveWalk \/ DrainHead \/ DrainDone \/ Loaded \/ Reset
             \/ \E f \in Fault : remove(f)
      PROVE  UNCHANGED <<q, timing>>
  BY <1>5 DEF InsertWalk, RemoveWalk, Advance, DrainHead, DrainDone, Loaded, Reset, remove,
              BeginRemove
<1>6. CASE UNCHANGED vars
  BY <1>6 DEF vars
<1> QED BY <1>1, <1>2, <1>3, <1>4, <1>5, <1>6 DEF Next, Work

\* insert and remove of faultq.cc, walks and pointer surgery included,
\* implement the list that FaultList describes: a fault enters before the first
\* one that is not earlier, and exactly the named fault leaves.
THEOREM QueueImplementsList == ASSUME FreshLinks = {NULL} PROVE Spec => ImplementsList
<1>1. Init => IInv
  BY InitInv
<1>2. Init => List!Init
  BY DEF Init, List!Init
<1> QED BY <1>1, <1>2, NextInv, StepRefines, PTL DEF Spec, ImplementsList, List!Spec
=============================================================================
