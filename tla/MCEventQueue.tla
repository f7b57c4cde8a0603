---------------------------- MODULE MCEventQueue ----------------------------
(* Instances of EventQueue for TLC: device events of the default priority and  *)
(* of CPU_Switch_Pri, exit and statistics events of the priority they have.    *)
EXTENDS EventQueue

CONSTANTS d1, d2, d3, x1, x2, x3, s1, s2

MCEvent == Device \cup ExitEvent \cup StatEvent
MCTemporary == ExitEvent \cup StatEvent
MCPriority ==
  [e \in MCEvent |-> CASE e = d3 -> -31
                       [] e \in Device \ {d3} -> 0
                       [] e \in StatEvent -> 90
                       [] e \in ExitEvent -> 100]
=============================================================================
