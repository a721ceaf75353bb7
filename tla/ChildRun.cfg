SPECIFICATION FairSpec
CONSTANTS
  PipeCapacity = 2
  MaxChunks = 4
  Grandchild = TRUE
INVARIANTS
  TypeOK
  OkIsComplete
  NoChildLeft
  ChildNeverStuck
PROPERTIES
  RunReturns
CHECK_DEADLOCK FALSE
