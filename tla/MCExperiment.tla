---------------------------- MODULE MCExperiment ----------------------------
(***************************************************************************)
(* Experiment for TLC: words of 4 bits, instructions of 2 bits with an     *)
(* opcode of 1 bit, bytes of 1 bit.                                        *)
(***************************************************************************)
EXTENDS Experiment, SequencesExt

\* Every type of change; the bits of 9 differ in the high and the low half, and 3 is 1
\* when it is cast to a byte.
MCWhatOf ==
  [w \in WhatWord |->
    CASE w = "Immd:9" -> [type |-> "Immd", bits |-> {0, 3}, n |-> 9]
      [] w = "Mask:9" -> [type |-> "Mask", bits |-> {0, 3}, n |-> 9]
      [] w = "Flip:1" -> [type |-> "Flip", bits |-> {0}, n |-> 1]
      [] w = "Flip:3" -> [type |-> "Flip", bits |-> {0, 1}, n |-> 3]
      [] w = "All1" -> [type |-> "All", bits |-> {0}, n |-> 1]]

MCIntOf == [w \in IntWord |-> IF w = "0" THEN 0 ELSE IF w = "1" THEN 1 ELSE 2]

\* Source register 0, which every instruction has, and destination register 1, which
\* none has.
MCRegDecOf ==
  [w \in RegDecWord |-> IF w = "Src:0:7" THEN [side |-> "src", reg |-> 0, to |-> 7]
                                         ELSE [side |-> "dst", reg |-> 1, to |-> 7]]

\* Two instructions that a flipped bit 0 turns into one another.
MCProgram == [a \in Address |-> IF a = "a1" THEN {0} ELSE {}]

MCdecodeInst ==
  [w \in MachInst |-> [src |-> <<IF 0 \in w THEN 1 ELSE 2>>, dst |-> <<IF 1 \in w THEN 1 ELSE 2>>]]

\* An object of a class: when, what, thread, where, occurrence, then the class' fields.
Obj(class, what, occ) ==
  [class |-> class,
   fields |-> <<"Inst:1", what, "all", "cpu0", occ>> \o
     CASE class = "RegisterInjectedFault" -> <<"1", "int", "2">>
       [] class = "MemoryInjectedFault" -> <<"1", "2", "0">>
       [] class = "RegisterDecodingInjectedFault" ->
            <<"1", IF occ = "1" THEN "Src:0:7" ELSE "Dst:1:7">>
       [] class = "InjectedFault" -> <<>>
       [] OTHER -> <<"1">>]

Text(objects) == FlattenSeq([i \in 1 .. Len(objects) |-> <<objects[i].class>> \o objects[i].fields])

\* The file of these objects without its last n words.
Written(objects, n, blank) ==
  [objects |-> objects, words |-> SubSeq(Text(objects), 1, Len(Text(objects)) - n),
   whole |-> n = 0, blank |-> blank, exists |-> TRUE]

End == [class |-> "end", fields |-> <<>>]

\* Whole files with and without white space at the end, files that end with a word that
\* is no class, a file cut short, a word that is no int, a missing file.
MCFiles ==
  { Written(<<Obj("RegisterInjectedFault", "Mask:9", "1"),
              Obj("GeneralFetchInjectedFault", "Flip:1", "2")>>, 0, FALSE),
    Written(<<Obj("RegisterDecodingInjectedFault", "Flip:1", "1"),
              Obj("RegisterDecodingInjectedFault", "Flip:1", "2"), End>>, 0, TRUE),
    Written(<<Obj("OpCodeInjectedFault", "Immd:9", "1"),
              Obj("CPUInjectedFault", "Flip:1", "0")>>, 0, FALSE),
    Written(<<Obj("MemoryInjectedFault", "Flip:3", "1"),
              Obj("OpCodeInjectedFault", "All1", "1"), End>>, 0, TRUE),
    Written(<<Obj("InjectedFault", "Flip:1", "1"),
              Obj("PCInjectedFault", "All1", "1")>>, 0, TRUE),
    Written(<<Obj("GeneralFetchInjectedFault", "Mask:9", "1"),
              Obj("PCInjectedFault", "Flip:1", "1")>>, 2, FALSE),
    Written(<<Obj("IEWStageInjectedFault", "Immd:9", "many"),
              Obj("PCInjectedFault", "Flip:1", "1")>>, 0, FALSE),
    NoFile }
=============================================================================
