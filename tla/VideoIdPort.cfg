SPECIFICATION Spec
CONSTANTS
  MaxPieces = 3
INVARIANTS
  PortIsFaithful
CHECK_DEADLOCK FALSE
