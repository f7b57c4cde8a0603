CONSTANTS
  c1 = c1
  c2 = c2
  p1 = p1
  p2 = p2
  p3 = p3
  Core = {c1, c2}
  Pcb = {p1, p2}
  All = All
  ThreadId = {1}
  NoAddr = NoAddr
  a1 = a1
  Addr = {NoAddr, a1}
  MaxEvents = 3
  Latency <- MCLatency
  Tracing = TRUE
  Liberty = {}
SPECIFICATION Spec
INVARIANTS
  NoWildAccess
  SlotsDistinct
  CountsOwnEvents
SYMMETRY MCSymmetry
