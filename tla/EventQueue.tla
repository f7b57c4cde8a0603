----------------------------- MODULE EventQueue -----------------------------
(***************************************************************************)
(* The event queue as src/sim/eventq.cc has it, a linked list of linked    *)
(* lists.  nextBin leads from the top event of a bin to the top event of   *)
(* the next one, a bin being the events of one tick and one priority;      *)
(* nextInBin leads down the stack of a bin.  Below the top of a bin        *)
(* nextBin may be stale.  The links of an event that is not in the list    *)
(* are not read before insertBefore sets them; they are NULL here.         *)
(*                                                                         *)
(* Every step of Simulate that touches the queue does so on the links,     *)
(* too; "pending" only records what they should amount to.                 *)
(***************************************************************************)
EXTENDS Simulate

VARIABLE list  \* head, nextBin and nextInBin; panic once an event was not found

qvars == <<vars, list>>

NULL == NoEvent

List == [head : Event \cup {NULL}, nextBin : [Event -> Event \cup {NULL}],
         nextInBin : [Event -> Event \cup {NULL}], panic : BOOLEAN]

QueueTypeOK == SimTypeOK /\ list \in List

QueueInit ==
  /\ SimInit
  /\ list = [head |-> NULL, nextBin |-> [e \in Event |-> NULL],
             nextInBin |-> [e \in Event |-> NULL], panic |-> FALSE]

\* The operators <, <= and == on events with the ticks w.
Less(w, e, f) == Before(w[e], Priority[e], w[f], Priority[f])
Same(w, e, f) == w[e] = w[f] /\ Priority[e] = Priority[f]

\* The top event of the last bin that is before e, when the bin of the head is.
Previous(l, w, e) ==
  LET walk[p \in Event] ==
        LET c == l.nextBin[p] IN IF c # NULL /\ Less(w, c, e) THEN walk[c] ELSE p
  IN walk[l.head]

\* Mutant: the link of the new top event to the next bin is forgotten.
insertBeforeNoBin(l, w, e, curr) ==
  IF curr = NULL \/ Less(w, e, curr)
    THEN [l EXCEPT !.nextBin[e] = curr, !.nextInBin[e] = NULL]
    ELSE [l EXCEPT !.nextBin[e] = NULL, !.nextInBin[e] = curr]

insertBefore(l, w, e, curr) ==
  IF curr = NULL \/ Less(w, e, curr)
    THEN [l EXCEPT !.nextBin[e] = curr, !.nextInBin[e] = NULL]
    ELSE [l EXCEPT !.nextBin[e] = l.nextBin[curr], !.nextInBin[e] = curr]

insert(l, w, e) ==
  IF l.head = NULL \/ Less(w, e, l.head) \/ Same(w, e, l.head)
    THEN [insertBefore(l, w, e, l.head) EXCEPT !.head = e]
    ELSE LET p == Previous(l, w, e)
         IN [insertBefore(l, w, e, l.nextBin[p]) EXCEPT !.nextBin[p] = e]

\* The event above e in the bin of top, or NULL if e is not in it.
Above(l, e, top) ==
  LET walk[c \in Event] ==
        LET n == l.nextInBin[c] IN IF n = e THEN c ELSE IF n = NULL THEN NULL ELSE walk[n]
  IN walk[top]

\* The links of an event that leaves the list.
Forget(l, e) == [l EXCEPT !.nextBin[e] = NULL, !.nextInBin[e] = NULL]

\* The bin of top without e, and what is its top then.
removeItem(l, e, top) ==
  LET next == l.nextInBin[top]
      above == Above(l, e, top)
  IN IF e = top
       THEN IF next = NULL
              THEN [list |-> l, top |-> l.nextBin[top]]
              ELSE [list |-> [l EXCEPT !.nextBin[next] = l.nextBin[top]], top |-> next]
       ELSE IF above = NULL
              THEN [list |-> [l EXCEPT !.panic = TRUE], top |-> top]
              ELSE [list |-> [l EXCEPT !.nextInBin[above] = l.nextInBin[e]], top |-> top]

\* With the tick it was scheduled at, before reschedule changes it.
remove(l, w, e) ==
  IF l.head = NULL
    THEN [l EXCEPT !.panic = TRUE]
    ELSE IF Same(w, l.head, e)
      THEN LET r == removeItem(l, e, l.head) IN Forget([r.list EXCEPT !.head = r.top], e)
      ELSE LET p == Previous(l, w, e)
               curr == l.nextBin[p]
           IN IF curr = NULL \/ ~Same(w, curr, e)
                THEN [l EXCEPT !.panic = TRUE]
                ELSE LET r == removeItem(l, e, curr)
                     IN Forget([r.list EXCEPT !.nextBin[p] = r.top], e)

\* Mutant: the link to the next bin is not handed down.
popStale(l) ==
  LET next == l.nextInBin[l.head]
  IN IF next = NULL
       THEN Forget([l EXCEPT !.head = l.nextBin[l.head]], l.head)
       ELSE Forget([l EXCEPT !.head = next], l.head)

\* serviceOne: the head leaves.
pop(l) ==
  LET next == l.nextInBin[l.head]
  IN IF next = NULL
       THEN Forget([l EXCEPT !.head = l.nextBin[l.head]], l.head)
       ELSE Forget([l EXCEPT !.nextBin[next] = l.nextBin[l.head], !.head = next], l.head)

-----------------------------------------------------------------------------

\* The events in the order in which the two links lead to them.
Listed ==
  LET down[e \in Event] ==
        <<e>> \o (IF list.nextInBin[e] = NULL THEN <<>> ELSE down[list.nextInBin[e]])
      bins[e \in Event] ==
        down[e] \o (IF list.nextBin[e] = NULL THEN <<>> ELSE bins[list.nextBin[e]])
  IN IF list.head = NULL THEN <<>> ELSE bins[list.head]

\* The event that the step has scheduled, if it has one, enters the list.
Inserts ==
  LET added == scheduled' \ scheduled
  IN list' = IF added = {} THEN list ELSE insert(list, when', CHOOSE e \in added : TRUE)

QueueCall ==
  \/ \E d \in Device, t \in Tick :
       \/ Schedule(d, t) /\ Inserts
       \/ /\ Reschedule(d, t)
          /\ list' = insert(IF d \in scheduled THEN remove(list, when, d) ELSE list, when', d)
  \/ \E d \in Device :
       \/ Deschedule(d) /\ list' = remove(list, when, d)
       \/ Squash(d) /\ UNCHANGED list
  \/ \E t \in Tick : Recur(t) /\ Inserts
  \/ \E t \in Tick, c \in {"exit", "periodic"} : Exit(t, c) /\ Inserts

QueueLoop ==
  \/ Service /\ list' = pop(list)
  \/ ProcessExit /\ Inserts
  \/ CheckStat /\ Inserts
  \/ CheckExit /\ Inserts
  \/ /\ \/ EndProcess \/ Raise \/ ProcessStat \/ Return
        \/ CheckAsync \/ ClearStat \/ CheckIo \/ EndService \/ CheckException
     /\ UNCHANGED list

QueueNext ==
  \/ QueueCall
  \/ QueueLoop
  \/ Handler /\ UNCHANGED list
  \/ \E n \in Cycles : simulate(n) /\ Inserts

QueueSpec == QueueInit /\ [][QueueNext]_qvars

\* The loop runs on; the script, the objects and the signals do what they want.
QueueFairSpec == QueueSpec /\ WF_qvars(QueueLoop)

-----------------------------------------------------------------------------
(* Properties.                                                             *)

Promise == INSTANCE EventOrder WITH pending <- Listed

\* The two-level list serves the events in the order that EventOrder promises,
\* however they are scheduled, moved, taken out and squashed: the stale links are
\* never followed.
ImplementsOrder == Promise!OrderSpec

\* EventQueue::debugVerify: going through the list time does not go backwards, the
\* priority is not inverted within a tick and no node is seen twice.
debugVerify ==
  LET s == Listed
      from(i) == IF i = 1 THEN [t |-> 0, p |-> 0]
                          ELSE [t |-> when[s[i - 1]], p |-> Priority[s[i - 1]]]
  IN /\ \A i \in 1 .. Len(s) : ~Before(when[s[i]], Priority[s[i]], from(i).t, from(i).p)
     /\ IsInjective(s)

\* The check sees every event that has the flag Scheduled, remove never panics, and
\* the queue passes its own check at any time but one: debugVerify starts from tick 0
\* and priority 0 (eventq.cc:339-340), so that it takes an event of tick 0 with a
\* negative priority, such as CPU_Switch_Pri, for one that is out of order.
Verifies ==
  /\ Range(Listed) = scheduled /\ ~list.panic
  /\ debugVerify <=> ~\E e \in scheduled : when[e] = 0 /\ Priority[e] < 0

\* simulate() returns, whatever the objects schedule, unless they go on for ever
\* scheduling events for the current tick: the limit event has its turn at the end of
\* a tick (eventq.hh:210), and the loop has no other way to end.
SimulateReturns == []<><<SameTick>>_qvars \/ (pc # "python" ~> pc = "python")
=============================================================================
