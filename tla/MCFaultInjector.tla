--------------------------- MODULE MCFaultInjector ---------------------------
(* Instances of FaultInjector for TLC: one or two faults per queue, named and *)
(* unnamed threads and cores, all three kinds of timing.                      *)
EXTENDS FaultInjector, TLC

CONSTANTS p1, p2, c1, c2, fM, fF, fG, fD, fX, fY, fA, fO, fP

MCLatency == {1}
MCFault == {fM, fF, fG, fD, fX, fY, fA, fO, fP}

MCDescription(type, kind, time, thread, where, n) ==
  [type |-> type, what |-> IF type = "OpCode" THEN "Immd" ELSE "Flip", kind |-> kind,
   timing |-> time, thread |-> thread, where |-> where, occ |-> n]

MCDesc ==
  [f \in MCFault |->
     CASE f = fM -> MCDescription("Register", "Inst", 1, 1, All, 2)
       [] f = fF -> MCDescription("GeneralFetch", "Inst", 1, All, c1, 1)
       [] f = fG -> MCDescription("OpCode", "Inst", 1, 1, All, 0)
       [] f = fD -> MCDescription("RegisterDecoding", "Inst", 1, 1, c1, 2)
       [] f = fX -> MCDescription("Execution", "Tick", 1, All, All, 2)
       [] f = fY -> MCDescription("Execution", "Inst", 1, All, All, 2)
       [] f = fA -> MCDescription("Memory", "Addr", 0, 1, All, 1)
       [] f = fO -> [MCDescription("OpCode", "Inst", 1, 1, All, 1) EXCEPT !.what = "Flip"]
       [] f = fP -> MCDescription("PC", "Addr", 0, 1, All, 2)]

MCSymmetry == Permutations({p1, p2})
MCFiles == {<<fM, fG, fF>>, <<fY, fX, fD>>, <<fA, fO>>}
MCAddrFiles == {<<fP>>}
=============================================================================
