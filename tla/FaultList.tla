------------------------------ MODULE FaultList ------------------------------
(***************************************************************************)
(* What InjectedFaultQueue promises its users (src/fi/faultq.hh:483-490):  *)
(* a list of faults into which a fault is entered before the first one     *)
(* that is not earlier, and from which a given fault is removed.  Giving a *)
(* queued fault a later time does not move it.                             *)
(***************************************************************************)
EXTENDS Lists

CONSTANTS
  Fault,   \* fault objects
  Timing   \* the values of the _timing field, natural numbers

VARIABLES
  q,       \* the queued faults, first to last
  timing   \* fault -> its _timing field

lvars == <<q, timing>>

Init ==
  /\ q = <<>>
  /\ timing \in [Fault -> Timing]

\* Position i is where a fault of time t belongs.
EntersAt(i, t) ==
  /\ \A j \in 1 .. i - 1 : timing[q[j]] < t
  /\ i <= Len(q) => timing[q[i]] >= t

insert(f) ==
  /\ f \notin Range(q)
  /\ \E i \in 1 .. Len(q) + 1 : EntersAt(i, timing[f]) /\ q' = InsertedAt(q, i, f)
  /\ UNCHANGED timing

remove(f) ==
  /\ \E i \in 1 .. Len(q) : q[i] = f /\ q' = RemovedAt(q, i)
  /\ UNCHANGED timing

increaseTiming(f, t) ==
  /\ f \in Range(q)
  /\ timing' = [timing EXCEPT ![f] = t]
  /\ UNCHANGED q

Next ==
  \E f \in Fault :
    \/ insert(f)
    \/ remove(f)
    \/ \E t \in Timing : increaseTiming(f, t)

Spec == Init /\ [][Next]_lvars
=============================================================================
