CONSTANTS
  Fault = {f1, f2, f3, f4}
  MaxTiming = 1
  Timing <- MCTiming
  NULL = NULL
  Wild = Wild
  FreshLinks = {NULL, Wild}
SPECIFICATION Spec
INVARIANT ListOK
