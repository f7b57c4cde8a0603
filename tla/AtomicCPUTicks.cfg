CONSTANTS
  p1 = p1
  p2 = p2
  c1 = c1
  c2 = c2
  fM = fM
  fF = fF
  fD = fD
  fN = fN
  fX = fX
  fT = fT
  fA = fA
  Core = {c1, c2}
  Pcb = {p1, p2}
  NoPcb = NoPcb
  All = All
  ThreadId = {1}
  NoAddr = 63
  Addr = {63}
  MaxEvents = 10
  MaxLatency = 1
  Latency <- MCLatency
  Tracing = FALSE
  Liberty = {}
  Fault <- MCFault
  Desc <- MCDesc
  Files <- MCTickFiles
  CpuTicks = 1
  IntMod = 16
  WordMod = 64
SPECIFICATION CpuSpec
INVARIANT TickNotOvertaken
CHECK_DEADLOCK FALSE
