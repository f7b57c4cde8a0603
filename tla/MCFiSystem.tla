----------------------------- MODULE MCFiSystem -----------------------------
(* Instances of FiSystem for TLC: two cores, two or three PCBs, one latency. *)
EXTENDS FiSystem, TLC

CONSTANTS c1, c2, p1, p2, p3, a1

MCLatency == {1}
MCSymmetry == Permutations({c1, c2}) \cup Permutations({p1, p2})
=============================================================================
