SPECIFICATION Spec
CONSTANTS
  Req = {r1, r2, r3}
  Json = {}
  Video = {v1}
  NoAudio = {}
  TooLong = {}
  MaxConcurrency = 1
  MaxDirs = 2
  ProcLimit = 4
  Faults = {"redis", "mongo", "s3", "proc", "reset"}
  NoDoc = NoDoc
SYMMETRY Symmetry
INVARIANTS
  JobsBounded
  DirsAccounted
PROPERTIES
  BackfillHarmless
  RedisHarmless
