------------------------------- MODULE MCO3CPU -------------------------------
(* Instances of O3CPU for TLC. *)
EXTENDS O3CPU

CONSTANTS p1, p2, c1, fM, fF, fD, fX, fT

MCLatency == {CpuTicks}
MCFault == {fM, fF, fD, fX, fT}

MCDescription(type, kind, time, thread, where, n) ==
  [type |-> type, what |-> "Flip", kind |-> kind, timing |-> time, thread |-> thread,
   where |-> where, occ |-> n]

MCDesc ==
  [f \in MCFault |->
     CASE f = fM -> MCDescription("Register", "Inst", 1, 1, All, 2)
       [] f = fF -> MCDescription("GeneralFetch", "Inst", 2, All, All, 1)
       [] f = fD -> MCDescription("RegisterDecoding", "Inst", 1, 1, c1, 2)
       [] f = fX -> MCDescription("Execution", "Inst", 1, 1, All, 2)
       [] f = fT -> MCDescription("PC", "Tick", 1, All, All, 2)]

MCFiles == {<<fM, fF, fD, fX, fT>>}
=============================================================================
