CONSTANTS
  Fault = {f1, f2, f3, f4}
  MaxTiming = 1
  Timing <- MCTiming
  NULL = NULL
  Wild = Wild
  FreshLinks = {NULL}
SPECIFICATION FairSpec
INVARIANTS
  TypeOK
  ListOK
  NoAbort
  LoadedAscending
PROPERTIES
  ImplementsList
  OperationsEnd
  DrainEnds
