SPECIFICATION Spec
CONSTANTS
  Req = {r1, r2}
  Json = {r1, r2}
  Video = {v1}
  NoAudio = {}
  TooLong = {}
  MaxConcurrency = 1
  MaxDirs = 2
  ProcLimit = 2
  Faults = {"cancel"}
  NoDoc = NoDoc
SYMMETRY Symmetry
INVARIANTS
  JobsBounded
