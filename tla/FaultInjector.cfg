CONSTANTS
  p1 = p1
  p2 = p2
  c1 = c1
  c2 = c2
  fM = fM
  fF = fF
  fG = fG
  fD = fD
  fX = fX
  fY = fY
  fA = fA
  fO = fO
  fP = fP
  Core = {c1}
  Pcb = {p1, p2}
  All = All
  ThreadId = {1, 2}
  NoAddr = 63
  Addr = {63}
  MaxEvents = 3
  Latency <- MCLatency
  Tracing = FALSE
  Liberty = {}
  Fault <- MCFault
  Desc <- MCDesc
  Files <- MCFiles
  CpuTicks = 1
  IntMod = 16
  WordMod = 64
SPECIFICATION InjSpec
INVARIANTS
  OncePerHook
  OccurrenceBudget
  OwnStageNotOvertaken
PROPERTIES
  ImplementsThreadTable
SYMMETRY MCSymmetry
