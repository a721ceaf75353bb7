SPECIFICATION Spec
CONSTANTS
  Req = {r1}
  Json = {}
  Video = {v1}
  NoAudio = {}
  TooLong = {}
  MaxConcurrency = 1
  MaxDirs = 2
  ProcLimit = 2
  Faults = {"reset"}
  NoDoc = NoDoc
SYMMETRY Symmetry
INVARIANTS
  CreatedAtIsDate
