SPECIFICATION Spec
CONSTANTS
  Req = {r1, r2}
  Json = {}
  Video = {v1}
  NoAudio = {}
  TooLong = {}
  MaxConcurrency = 1
  MaxDirs = 2
  ProcLimit = 2
  Faults = {}
  NoDoc = NoDoc
SYMMETRY Symmetry
PROPERTIES
  NoSecondDownload
