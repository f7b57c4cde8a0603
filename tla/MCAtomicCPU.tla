----------------------------- MODULE MCAtomicCPU -----------------------------
(* Instances of AtomicCPU for TLC. *)
EXTENDS AtomicCPU

CONSTANTS p1, p2, c1, c2, fM, fF, fD, fN, fX, fT, fA

MCLatency == 1 .. MaxLatency
MCFault == {fM, fF, fD, fN, fX, fT, fA}

MCDescription(type, kind, time, thread, where, n) ==
  [type |-> type, what |-> "Flip", kind |-> kind, timing |-> time, thread |-> thread,
   where |-> where, occ |-> n]

MCDesc ==
  [f \in MCFault |->
     CASE f = fM -> MCDescription("Register", "Inst", 1, 1, All, 2)
       [] f = fF -> MCDescription("GeneralFetch", "Inst", 1, All, All, 1)
       [] f = fD -> MCDescription("RegisterDecoding", "Inst", 1, 1, c1, 2)
       [] f = fN -> MCDescription("RegisterDecoding", "Inst", 1, All, All, 1)
       [] f = fX -> MCDescription("Execution", "Inst", 1, 1, All, 0)
       [] f = fT -> MCDescription("Register", "Tick", 1, All, All, 1)
       [] f = fA -> MCDescription("Memory", "Addr", 0, 1, All, 1)]

MCFiles == {<<fM, fF, fD, fN, fX, fA, fT>>}
MCTickFiles == {<<fT>>}
=============================================================================
