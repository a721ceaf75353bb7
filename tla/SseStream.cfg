SPECIFICATION FairSpec
CONSTANTS
  Stream = {s1, s2}
  Token = {k1, k2}
  NoStream = NoStream
  NoToken = NoToken
  Panics = TRUE
INVARIANTS
  TypeOK
  EofAfterOutcome
PROPERTIES
  StepsInOrder
  StreamEndsUnlessPanic
  SendersGo
CHECK_DEADLOCK FALSE
