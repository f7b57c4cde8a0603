CONSTANTS
  p1 = p1
  p2 = p2
  c1 = c1
  fM = fM
  fF = fF
  fD = fD
  fX = fX
  fT = fT
  Core = {c1}
  Pcb = {p1, p2}
  NoPcb = NoPcb
  All = All
  ThreadId = {1}
  NoAddr = 63
  Addr = {63}
  MaxEvents = 7
  Latency <- MCLatency
  Tracing = FALSE
  Liberty = {}
  Fault <- MCFault
  Desc <- MCDesc
  Files <- MCFiles
  CpuTicks = 1
  FetchWidth = 2
  Window = 2
  IntMod = 16
  WordMod = 64
SPECIFICATION O3Spec
INVARIANTS
  O3NotOvertaken
  MainTickNotOvertaken
  FetchCountsExact
PROPERTIES
  FetchEnds
  O3ImplementsInjector
CHECK_DEADLOCK FALSE
