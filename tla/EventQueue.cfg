CONSTANTS
  d1 = d1
  d2 = d2
  d3 = d3
  x1 = x1
  x2 = x2
  x3 = x3
  s1 = s1
  s2 = s2
  Device = {d1, d2, d3}
  PythonEvent = {d1}
  Clocked = {d2}
  ExitEvent = {x1, x2, x3}
  StatEvent = {s1, s2}
  NoEvent = NoEvent
  Event <- MCEvent
  Temporary <- MCTemporary
  Priority <- MCPriority
  MaxTick = 2
  Cycles = {2}
  Period = 1
  MaxCalls = 4
SPECIFICATION QueueFairSpec
INVARIANTS
  QueueTypeOK
  Verifies
  LimitWaits
  OwnLimit
  ExitsLast
  RequestsKept
  InterruptPrompt
PROPERTIES
  ImplementsOrder
  SimulateReturns
CHECK_DEADLOCK FALSE
