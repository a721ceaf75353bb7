SPECIFICATION FairEventSpec
CONSTANTS
  Req = {r1, r2}
  Json = {}
  Video = {v1, v2}
  NoAudio = {v2}
  TooLong = {}
  MaxConcurrency = 1
  MaxDirs = 3
  ProcLimit = 3
  Faults = {}
  NoDoc = NoDoc
INVARIANTS
  AnsweredWithWaveform
  CacheCaughtUp
PROPERTIES
  EveryRequestAnswered
  RequestCompletesRecord
  AnnouncesSteps
