SPECIFICATION Spec
CONSTANTS
  Saver = {s1, s2}
  UniqueIndex = FALSE
INVARIANTS
  UniqueRecord
CHECK_DEADLOCK FALSE
