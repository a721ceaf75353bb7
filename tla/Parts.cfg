SPECIFICATION Spec
CONSTANTS
  FirstYear = 1970
  LastYear = 2410
  Points = 200
  Precision = 22
  MaxSamples = 1500
  MaxPieces = 4
  MaxOutput = 6
  MaxChunk = 2
  TailMax = 3
  Saver = {s1, s2, s3, s4}
  UniqueIndex = TRUE
INVARIANTS
  WritesTheDate
  ReadsItBack
  BucketsCover
  CorsOnEveryAnswer
  NoWorkUnchecked
  AgreesWithNode
  ProgressIsCurrent
  TailIsEnd
  SongsTyped
  NeverRefused
PROPERTIES
  AtomicSave
CHECK_DEADLOCK FALSE
