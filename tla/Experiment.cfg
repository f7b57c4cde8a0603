SPECIFICATION ExpSpec
CONSTANTS
  Wide = 4
  InstBits = 2
  OpBits = 1
  ByteBits = 1
  IntWord = {"0", "1", "2"}
  WhenWord = {"Inst:1"}
  WhatWord = {"Immd:9", "Mask:9", "Flip:1", "Flip:3", "All1"}
  RegDecWord = {"Src:0:7", "Dst:1:7"}
  Files <- MCFiles
  IntOf <- MCIntOf
  WhatOf <- MCWhatOf
  RegDecOf <- MCRegDecOf
  Address = {"a1", "a2"}
  Program <- MCProgram
  decodeInst <- MCdecodeInst
  MaxReads = 3
  MaxInits = 2
  MaxInsts = 2
  MaxHits = 1
INVARIANTS
  ExpTypeOK
  ReadsWritten
  AbortExact
  Provenance
  Isolated
  CorruptsAsNamed
PROPERTY
  ReadEnds
CHECK_DEADLOCK FALSE
