CONSTANTS
  p1 = p1
  p2 = p2
  c1 = c1
  c2 = c2
  fM = fM
  fF = fF
  fD = fD
  fN = fN
  fX = fX
  fT = fT
  fA = fA
  Core = {c1, c2}
  Pcb = {p1, p2}
  NoPcb = NoPcb
  All = All
  ThreadId = {1}
  NoAddr = 63
  Addr = {63}
  MaxEvents = 9
  MaxLatency = 1
  Latency <- MCLatency
  Tracing = FALSE
  Liberty = {}
  Fault <- MCFault
  Desc <- MCDesc
  Files <- MCFiles
  CpuTicks = 1
  IntMod = 16
  WordMod = 64
SPECIFICATION CpuFairSpec
INVARIANTS
  NotOvertaken
  StageCountsExact
  StagesInStep
PROPERTIES
  ImplementsInjector
  TickEnds
CHECK_DEADLOCK FALSE
