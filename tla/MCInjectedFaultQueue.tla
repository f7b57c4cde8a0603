------------------------ MODULE MCInjectedFaultQueue ------------------------
(* Instances of InjectedFaultQueue for TLC. *)
EXTENDS InjectedFaultQueue

CONSTANT MaxTiming
MCTiming == 0 .. MaxTiming
=============================================================================
