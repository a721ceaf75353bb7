SPECIFICATION Spec
CONSTANTS
  Req = {r1, r2}
  Json = {r1, r2}
  Video = {v1, v2}
  NoAudio = {}
  TooLong = {v2}
  MaxConcurrency = 1
  MaxDirs = 2
  ProcLimit = 1
  Faults = {"redis", "mongo", "s3", "proc", "disk", "leftover", "cancel", "panic", "crash"}
  NoDoc = NoDoc
SYMMETRY Symmetry
INVARIANTS
  TypeOK
  PermitsBalance
  QueueHasHead
  AudioBeforeRecord
  CacheNotAhead
  AnswersAreDurable
  CreatedAtIsDate
PROPERTIES
  RecordsOnlyGrow
  RefusedNeverUploaded
  ImplementsSongStore
