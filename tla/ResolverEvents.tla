--------------------------- MODULE ResolverEvents ---------------------------
(***************************************************************************)
(* Resolver with a history variable: the step that each request announced  *)
(* last (emit of rust/src/services.rs).  With it the requests implement    *)
(* ResolveSteps.                                                           *)
(***************************************************************************)
EXTENDS Resolver

VARIABLE step

\* Faulty variant of Emitted: "check" is announced for an MP3 found, only.
EmittedOnHit(r, late) ==
  CASE pc[r] = "idle" /\ pc'[r] = "cache_get"              -> "start"
    [] pc[r] = "s3_has" /\ pc'[r] = "yt_info"              -> "check"
    [] pc[r] = "acquire" /\ pc'[r] \in {"yt_dlp", "rmrf"}  -> "downloading"
    [] pc[r] = "yt_dlp" /\ pc'[r] = "ffmpeg"               -> "encoding"
    [] pc[r] = "ffmpeg" /\ pc'[r] = "s3_put"               -> "uploading"
    [] pc[r] = "wf_acquire" /\ pc'[r] = "wf_s3_get"        -> "backfilling"
    [] OTHER                                               -> step[r]

\* The step r is in after a step of the resolver.  When a download ends in an
\* error it may be that of spawning ffmpeg, late, with the encode announced.
Emitted(r, late) ==
  CASE pc[r] = "idle" /\ pc'[r] = "cache_get"                -> "start"
    [] pc[r] = "mongo_get" /\ pc'[r] = "s3_has"              -> "check"
    [] pc[r] = "acquire" /\ pc'[r] \in {"yt_dlp", "rmrf"}    -> "downloading"
    [] pc[r] = "yt_dlp" /\ pc'[r] = "ffmpeg"                 -> "encoding"
    [] /\ pc[r] = "yt_dlp" /\ pc'[r] = "rmrf" /\ late
       /\ vid[r] \notin NoAudio \cup TooLong                 -> "encoding"
    [] pc[r] = "ffmpeg" /\ pc'[r] = "s3_put"                 -> "uploading"
    [] pc[r] = "wf_acquire" /\ pc'[r] = "wf_s3_get"          -> "backfilling"
    [] OTHER                                                 -> step[r]

EventInit == Init /\ step = [r \in Req |-> "start"]

EventNext == Next /\ \E late \in BOOLEAN : step' = [r \in Req |-> Emitted(r, late)]

EventSpec == EventInit /\ [][EventNext]_<<vars, step>>

FairEventSpec == EventSpec /\ Fairness

-----------------------------------------------------------------------------
Outcome(r) ==
  IF pc[r] # "idle" \/ status[r] = 0 THEN "none"
  ELSE IF status[r] = 200 THEN "done" ELSE "error"

Call(r) == INSTANCE ResolveSteps
             WITH running <- pc[r] # "idle", step <- step[r], outcome <- Outcome(r)

\* Every request announces its steps in the documented order (docs/API.md:97)
\* and ends as ResolveSteps says: "done" of a fresh song only after its upload,
\* never an "error" of a backfill.
AnnouncesSteps ==
  /\ \A r \in Req : Call(r)!Init
  /\ [][\A r \in Req : [Call(r)!Next]_(Call(r)!vars)]_<<vars, step>>
=============================================================================
