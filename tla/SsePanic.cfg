SPECIFICATION FairSpec
CONSTANTS
  Stream = {s1}
  Token = {k1}
  NoStream = NoStream
  NoToken = NoToken
  Panics = TRUE
PROPERTIES
  StreamEnds
CHECK_DEADLOCK FALSE
