------------------------------ MODULE Resolver ------------------------------
(***************************************************************************)
(* resolver::resolve (rust/src/resolver.rs) and the services it drives     *)
(* (rust/src/services.rs), for several requests in flight at once.         *)
(*                                                                         *)
(* A request slot r runs resolve() once per arrival.  pc[r] is the await   *)
(* point it is suspended at: between two await points the code runs        *)
(* without giving way, so one action is one awaited call, its result and   *)
(* every assignment up to the next await.  A failing call may have taken   *)
(* its effect or not, and the caller cannot tell.                          *)
(*                                                                         *)
(* Redis, Mongo and S3 are functions and sets over videos: a document is   *)
(* known by whether it has a waveform and by what its createdAt is.  The   *)
(* S3 key is a function of the video id, so S3 is the set of videos whose  *)
(* MP3 it holds.                                                           *)
(***************************************************************************)
EXTENDS Integers, FiniteSets

CONSTANTS
  Req,             \* request slots: each serves one request after another
  Json,            \* the slots answered in JSON mode, dropped when the client goes
  Video,           \* video ids
  NoAudio,         \* videos yt-dlp reports without duration or audio stream
  TooLong,         \* videos above MAX_DURATION_S
  MaxConcurrency,  \* MAX_CONCURRENCY, the permits of Services::sem
  MaxDirs,         \* work directories the disk has room for
  ProcLimit,       \* child processes the container may have (pids_limit)
  Faults,          \* what may go wrong in this instance
  NoDoc            \* no document

FaultKinds == {"redis", "mongo", "s3", "proc", "disk", "leftover",
               "cancel", "panic", "crash", "reset"}

ASSUME ReqAssumption == IsFiniteSet(Req) /\ Json \subseteq Req
ASSUME VideoAssumption == NoAudio \subseteq Video /\ TooLong \subseteq Video
ASSUME LimitAssumption == /\ MaxConcurrency \in Nat
                          /\ MaxDirs \in Nat
                          /\ ProcLimit \in Nat
ASSUME FaultAssumption == Faults \subseteq FaultKinds

\* createdAt of a document: the ISO string of to_song, the Date that Mongo
\* stores (and the extended JSON it is read back as), or null.
Doc == [wave: BOOLEAN, createdAt: {"iso", "date", "null"}]

ASSUME NoDocAssumption == NoDoc \notin Doc

Stage == {"idle", "cache_get", "mongo_get", "cache_fill", "s3_has", "yt_info",
          "save_found", "cache_found", "mkdtemp", "acquire", "yt_dlp", "ffmpeg",
          "s3_put", "save", "cache_set", "rmrf",
          "with_waveform", "wf_acquire", "wf_s3_get", "wf_ffmpeg", "wf_save",
          "wf_cache", "wf_rmrf"}

\* Where the code holds a permit, waits for one, runs a child process, owns a
\* work directory.
Holding   == {"yt_dlp", "ffmpeg", "s3_put",
              "wf_s3_get", "wf_ffmpeg", "wf_save", "wf_cache"}
Queueing  == {"acquire", "wf_acquire"}
JobStages == {"yt_dlp", "ffmpeg", "wf_ffmpeg"}
Spawned   == JobStages \cup {"yt_info"}
Owning    == Holding \cup Queueing \cup {"save", "cache_set", "rmrf", "wf_rmrf"}

Status == {0, 200, 413, 415, 500, 502}

VARIABLES
  pc, vid, doc, status,    \* per request: await point, video, document, result
  redis, redisUp,          \* Redis documents; the one connection is alive
  mongo, s3,               \* Mongo documents; videos whose MP3 is on S3
  avail, ahead,            \* free permits; who queues before a waiting request
  dirs,                    \* work directories on disk
  orphans                  \* processes that no request waits for, by kind

reqVars   == <<pc, vid, doc, status>>
storeVars == <<redis, redisUp, mongo, s3>>
semVars   == <<avail, ahead>>
hostVars  == <<dirs, orphans>>
vars      == <<reqVars, storeVars, semVars, hostVars>>

At(stages) == {r \in Req : pc[r] \in stages}

TypeOK ==
  /\ pc \in [Req -> Stage]
  /\ vid \in [Req -> Video]
  /\ doc \in [Req -> Doc \cup {NoDoc}]
  /\ status \in [Req -> Status]
  /\ redis \in [Video -> Doc \cup {NoDoc}]
  /\ redisUp \in BOOLEAN
  /\ mongo \in [Video -> Doc \cup {NoDoc}]
  /\ s3 \in SUBSET Video
  /\ avail \in 0 .. MaxConcurrency
  /\ ahead \in [Req -> SUBSET Req]
  /\ dirs \in 0 .. MaxDirs
  /\ orphans \in [{"job", "info"} -> Nat]

-----------------------------------------------------------------------------
(* Control of one request *)

\* r goes on at stage p with document d in hand and c as its result so far.
Move(r, p, d, c) ==
  /\ pc' = [pc EXCEPT ![r] = p]
  /\ doc' = [doc EXCEPT ![r] = d]
  /\ status' = [status EXCEPT ![r] = c]
  /\ UNCHANGED vid

Goto(r, p) == Move(r, p, doc[r], 0)

\* resolve() returns; the document of an error is gone.
Answer(r, c) == Move(r, "idle", IF c = 200 THEN doc[r] ELSE NoDoc, c)

\* The fresh path returns through rmrf, whatever the result.
CleanUp(r, c) == Move(r, "rmrf", IF c = 200 THEN doc[r] ELSE NoDoc, c)

\* with_waveform gives up: the song goes back without a waveform.
GiveUp(r) == Move(r, "wf_rmrf", [doc[r] EXCEPT !.wave = FALSE], 0)

-----------------------------------------------------------------------------
(* The stores *)

May(fault) == fault \in Faults

\* Faulty variant of Saved: the whole document replaced.
SavedReplacing(old, d) ==
  [wave |-> d.wave, createdAt |-> IF d.createdAt = "iso" THEN "date" ELSE "null"]

\* Faulty variant of Saved: createdAt inserted as it comes, an ISO string.
SavedUnparsed(old, d) ==
  [wave      |-> d.wave \/ (old # NoDoc /\ old.wave),
   createdAt |-> IF old # NoDoc THEN old.createdAt ELSE d.createdAt]

\* mongo_save: an upsert.  createdAt is written on insert only, as a Date when
\* it parses as an ISO string and as null otherwise; $set never removes a field,
\* so a waveform stays when the saved song has none.
Saved(old, d) ==
  [wave      |-> d.wave \/ (old # NoDoc /\ old.wave),
   createdAt |-> IF old # NoDoc THEN old.createdAt
                 ELSE IF d.createdAt = "iso" THEN "date" ELSE "null"]

MongoSave(v, d) == mongo' = [mongo EXCEPT ![v] = Saved(mongo[v], d)]

MongoSaveFails(v, d) == May("mongo") /\ (MongoSave(v, d) \/ UNCHANGED mongo)

\* cache_set: the result of SETEX is ignored.
CacheSet(v, d) ==
  \/ redisUp /\ redis' = [redis EXCEPT ![v] = d]
  \/ (~redisUp \/ May("redis")) /\ UNCHANGED redis

-----------------------------------------------------------------------------
(* Permits, work directories, child processes *)

\* Faulty variant of Granted: any waiter may take a free permit.
GrantedBarging(r) ==
  /\ avail > 0
  /\ avail' = avail - 1
  /\ ahead' = [q \in Req |-> ahead[q] \ {r}]

\* acquire_permit: tokio's semaphore serves its waiters in arrival order.
Enqueue(r) == ahead' = [ahead EXCEPT ![r] = At(Queueing)]

Granted(r) ==
  /\ avail > 0
  /\ ahead[r] = {}
  /\ avail' = avail - 1
  /\ ahead' = [q \in Req |-> ahead[q] \ {r}]

Release == avail' = avail + 1 /\ UNCHANGED ahead

Mkdir == dirs < MaxDirs /\ dirs' = dirs + 1

MkdirFails == (May("disk") \/ dirs = MaxDirs) /\ UNCHANGED dirs

\* rmrf: the result of remove_dir_all is ignored.
Rmrf == \/ dirs' = dirs - 1
        \/ May("disk") /\ UNCHANGED dirs

\* A child of r's has been waited for before r spawns the next one.  A child and
\* what it has spawned itself count as one.
CanSpawn(r) ==
  Cardinality(At(Spawned) \ {r}) + orphans["job"] + orphans["info"] < ProcLimit

SpawnFails(r) == May("proc") \/ ~CanSpawn(r)

\* yt_dlp kills the child alone, at its timeout, and waits for it alone: what
\* the child has spawned runs on (as in Timeout of ChildRun, with Grandchild).
LeavesBehind(k) == May("leftover") /\ orphans' = [orphans EXCEPT ![k] = @ + 1]

-----------------------------------------------------------------------------
(* resolve(): the lookup in Redis, Mongo and S3 *)

Arrive(r, v) ==
  /\ pc[r] = "idle"
  /\ pc' = [pc EXCEPT ![r] = "cache_get"]
  /\ vid' = [vid EXCEPT ![r] = v]
  /\ doc' = [doc EXCEPT ![r] = NoDoc]
  /\ status' = [status EXCEPT ![r] = 0]
  /\ UNCHANGED <<storeVars, semVars, hostVars>>

\* Faulty variant of CacheGet: an error of Redis fails the request.
CacheGetStrict(r) ==
  /\ pc[r] = "cache_get"
  /\ \/ /\ redisUp /\ redis[vid[r]] # NoDoc
        /\ Move(r, "with_waveform", redis[vid[r]], 0)
     \/ redisUp /\ redis[vid[r]] = NoDoc /\ Goto(r, "mongo_get")
     \/ (~redisUp \/ May("redis")) /\ Answer(r, 500)
  /\ UNCHANGED <<storeVars, semVars, hostVars>>

CacheGet(r) ==
  /\ pc[r] = "cache_get"
  /\ \/ /\ redisUp /\ redis[vid[r]] # NoDoc
        /\ Move(r, "with_waveform", redis[vid[r]], 0)
     \/ /\ ~redisUp \/ redis[vid[r]] = NoDoc \/ May("redis")
        /\ Goto(r, "mongo_get")
  /\ UNCHANGED <<storeVars, semVars, hostVars>>

\* Faulty variant of MongoGet: without a record S3 is not asked.
MongoGetToFresh(r) ==
  /\ pc[r] = "mongo_get"
  /\ \/ mongo[vid[r]] # NoDoc /\ Move(r, "cache_fill", mongo[vid[r]], 0)
     \/ mongo[vid[r]] = NoDoc /\ Goto(r, "mkdtemp")
     \/ May("mongo") /\ Answer(r, 500)
  /\ UNCHANGED <<storeVars, semVars, hostVars>>

MongoGet(r) ==
  /\ pc[r] = "mongo_get"
  /\ \/ mongo[vid[r]] # NoDoc /\ Move(r, "cache_fill", mongo[vid[r]], 0)
     \/ mongo[vid[r]] = NoDoc /\ Goto(r, "s3_has")
     \/ May("mongo") /\ Answer(r, 500)
  /\ UNCHANGED <<storeVars, semVars, hostVars>>

CacheFill(r) ==
  /\ pc[r] = "cache_fill"
  /\ CacheSet(vid[r], doc[r])
  /\ Goto(r, "with_waveform")
  /\ UNCHANGED <<redisUp, mongo, s3, semVars, hostVars>>

\* s3_has takes every error for "not there".
S3Has(r) ==
  /\ pc[r] = "s3_has"
  /\ \/ vid[r] \in s3 /\ CanSpawn(r) /\ Goto(r, "yt_info")
     \/ vid[r] \in s3 /\ SpawnFails(r) /\ Answer(r, 502)
     \/ (vid[r] \notin s3 \/ May("s3")) /\ Goto(r, "mkdtemp")
  /\ UNCHANGED <<storeVars, semVars, hostVars>>

-----------------------------------------------------------------------------
(* resolve(): an MP3 without a record *)

YtInfo(r) ==
  /\ pc[r] = "yt_info"
  /\ \/ /\ Move(r, "save_found", [wave |-> FALSE, createdAt |-> "iso"], 0)
        /\ UNCHANGED orphans
     \/ May("proc") /\ Answer(r, 502) /\ UNCHANGED orphans
     \/ LeavesBehind("info") /\ Answer(r, 502)
  /\ UNCHANGED <<storeVars, semVars, dirs>>

\* Faulty variant of SaveFound: an error of mongo_save is ignored.
SaveFoundUnchecked(r) ==
  /\ pc[r] = "save_found"
  /\ MongoSave(vid[r], doc[r]) \/ MongoSaveFails(vid[r], doc[r])
  /\ Goto(r, "cache_found")
  /\ UNCHANGED <<redis, redisUp, s3, semVars, hostVars>>

SaveFound(r) ==
  /\ pc[r] = "save_found"
  /\ \/ MongoSave(vid[r], doc[r]) /\ Goto(r, "cache_found")
     \/ MongoSaveFails(vid[r], doc[r]) /\ Answer(r, 500)
  /\ UNCHANGED <<redis, redisUp, s3, semVars, hostVars>>

\* Faulty variant of CacheFound: the song is returned without a backfill.
CacheFoundReturning(r) ==
  /\ pc[r] = "cache_found"
  /\ CacheSet(vid[r], doc[r])
  /\ Answer(r, 200)
  /\ UNCHANGED <<redisUp, mongo, s3, semVars, hostVars>>

CacheFound(r) ==
  /\ pc[r] = "cache_found"
  /\ CacheSet(vid[r], doc[r])
  /\ Goto(r, "with_waveform")
  /\ UNCHANGED <<redisUp, mongo, s3, semVars, hostVars>>

-----------------------------------------------------------------------------
(* resolve(): download, encode, upload, record *)

Mkdtemp(r) ==
  /\ pc[r] = "mkdtemp"
  /\ \/ Mkdir /\ Enqueue(r) /\ Goto(r, "acquire")
     \/ MkdirFails /\ Answer(r, 500) /\ UNCHANGED ahead
  /\ UNCHANGED <<storeVars, avail, orphans>>

\* The permit arrives and yt-dlp is spawned with no await in between.
Acquire(r) ==
  /\ pc[r] = "acquire"
  /\ \/ CanSpawn(r) /\ Granted(r) /\ Goto(r, "yt_dlp")
     \/ /\ SpawnFails(r) /\ avail > 0 /\ ahead[r] = {}
        /\ ahead' = [q \in Req |-> ahead[q] \ {r}]
        /\ CleanUp(r, 502) /\ UNCHANGED avail
  /\ UNCHANGED <<storeVars, hostVars>>

\* Faulty variant of YtDlp: the duration is not compared with MAX_DURATION_S.
YtDlpUnbounded(r) ==
  /\ pc[r] = "yt_dlp"
  /\ \/ vid[r] \notin NoAudio /\ CanSpawn(r) /\ Goto(r, "ffmpeg") /\ UNCHANGED semVars
     \/ vid[r] \notin NoAudio /\ SpawnFails(r) /\ CleanUp(r, 502) /\ Release
     \/ vid[r] \in NoAudio /\ CleanUp(r, 415) /\ Release
     \/ May("proc") /\ CleanUp(r, 502) /\ Release
  /\ UNCHANGED <<storeVars, hostVars>>

\* download_encode, the download: an unplayable or overlong video is refused
\* once yt-dlp has fetched it.
YtDlp(r) ==
  /\ pc[r] = "yt_dlp"
  /\ \/ /\ \/ /\ vid[r] \notin NoAudio \cup TooLong
              /\ CanSpawn(r) /\ Goto(r, "ffmpeg") /\ UNCHANGED semVars
           \/ /\ vid[r] \notin NoAudio \cup TooLong
              /\ SpawnFails(r) /\ CleanUp(r, 502) /\ Release
           \/ vid[r] \in NoAudio /\ CleanUp(r, 415) /\ Release
           \/ vid[r] \in TooLong \ NoAudio /\ CleanUp(r, 413) /\ Release
           \/ May("proc") /\ CleanUp(r, 502) /\ Release
        /\ UNCHANGED orphans
     \/ LeavesBehind("job") /\ CleanUp(r, 502) /\ Release
  /\ UNCHANGED <<storeVars, dirs>>

\* Faulty variant of Ffmpeg: the permit is given back before the upload too.
FfmpegReleasing(r) ==
  /\ pc[r] = "ffmpeg"
  /\ \/ Goto(r, "s3_put")
     \/ May("proc") /\ CleanUp(r, 502)
  /\ Release
  /\ UNCHANGED <<storeVars, hostVars>>

\* download_encode, the encode: one ffmpeg run makes the MP3 and the waveform.
Ffmpeg(r) ==
  /\ pc[r] = "ffmpeg"
  /\ \/ Goto(r, "s3_put") /\ UNCHANGED semVars
     \/ May("proc") /\ CleanUp(r, 502) /\ Release
  /\ UNCHANGED <<storeVars, hostVars>>

\* Faulty variant of S3Put: the song is recorded whether or not it was uploaded.
S3PutUnchecked(r) ==
  /\ pc[r] = "s3_put"
  /\ s3' \in (IF May("s3") THEN {s3, s3 \cup {vid[r]}} ELSE {s3 \cup {vid[r]}})
  /\ Move(r, "save", [wave |-> TRUE, createdAt |-> "iso"], 0)
  /\ Release
  /\ UNCHANGED <<redis, redisUp, mongo, hostVars>>

S3Put(r) ==
  /\ pc[r] = "s3_put"
  /\ \/ /\ s3' = s3 \cup {vid[r]}
        /\ Move(r, "save", [wave |-> TRUE, createdAt |-> "iso"], 0)
     \/ /\ May("s3") /\ CleanUp(r, 502)
        /\ s3' \in {s3, s3 \cup {vid[r]}}
     \/ May("disk") /\ CleanUp(r, 500) /\ UNCHANGED s3
  /\ Release
  /\ UNCHANGED <<redis, redisUp, mongo, hostVars>>

\* Faulty variant of Save: an error returns at once, past the rmrf.
SaveReturning(r) ==
  /\ pc[r] = "save"
  /\ \/ MongoSave(vid[r], doc[r]) /\ Goto(r, "cache_set")
     \/ MongoSaveFails(vid[r], doc[r]) /\ Answer(r, 500)
  /\ UNCHANGED <<redis, redisUp, s3, semVars, hostVars>>

Save(r) ==
  /\ pc[r] = "save"
  /\ \/ MongoSave(vid[r], doc[r]) /\ Goto(r, "cache_set")
     \/ MongoSaveFails(vid[r], doc[r]) /\ CleanUp(r, 500)
  /\ UNCHANGED <<redis, redisUp, s3, semVars, hostVars>>

CacheSong(r) ==
  /\ pc[r] = "cache_set"
  /\ CacheSet(vid[r], doc[r])
  /\ CleanUp(r, 200)
  /\ UNCHANGED <<redisUp, mongo, s3, semVars, hostVars>>

RemoveDir(r) ==
  /\ pc[r] = "rmrf"
  /\ Rmrf
  /\ Answer(r, status[r])
  /\ UNCHANGED <<storeVars, semVars, orphans>>

-----------------------------------------------------------------------------
(* with_waveform(): the backfill of an old record *)

\* Faulty variant of WithWaveform: no work directory, no song.
WithWaveformStrict(r) ==
  /\ pc[r] = "with_waveform"
  /\ \/ doc[r].wave /\ Answer(r, 200) /\ UNCHANGED <<dirs, ahead>>
     \/ ~doc[r].wave /\ Mkdir /\ Enqueue(r) /\ Goto(r, "wf_acquire")
     \/ ~doc[r].wave /\ MkdirFails /\ Answer(r, 500) /\ UNCHANGED ahead
  /\ UNCHANGED <<storeVars, avail, orphans>>

WithWaveform(r) ==
  /\ pc[r] = "with_waveform"
  /\ \/ doc[r].wave /\ Answer(r, 200) /\ UNCHANGED <<dirs, ahead>>
     \/ ~doc[r].wave /\ Mkdir /\ Enqueue(r) /\ Goto(r, "wf_acquire")
     \/ ~doc[r].wave /\ MkdirFails /\ Answer(r, 200) /\ UNCHANGED ahead
  /\ UNCHANGED <<storeVars, avail, orphans>>

\* Faulty variant of WfAcquire: the backfill takes no permit.
WfAcquireFree(r) ==
  /\ pc[r] = "wf_acquire"
  /\ ahead' = [q \in Req |-> ahead[q] \ {r}]
  /\ Goto(r, "wf_s3_get")
  /\ UNCHANGED <<storeVars, avail, hostVars>>

WfAcquire(r) ==
  /\ pc[r] = "wf_acquire"
  /\ Granted(r)
  /\ Goto(r, "wf_s3_get")
  /\ UNCHANGED <<storeVars, hostVars>>

\* Faulty variant of WfS3Get: the permit is lost with the error.
WfS3GetLeaking(r) ==
  /\ pc[r] = "wf_s3_get"
  /\ \/ vid[r] \in s3 /\ CanSpawn(r) /\ Goto(r, "wf_ffmpeg")
     \/ /\ vid[r] \notin s3 \/ May("s3") \/ May("disk") \/ SpawnFails(r)
        /\ GiveUp(r)
  /\ UNCHANGED <<storeVars, semVars, hostVars>>

\* s3_get, the write of in.mp3 and the spawn of ffmpeg.
WfS3Get(r) ==
  /\ pc[r] = "wf_s3_get"
  /\ \/ vid[r] \in s3 /\ CanSpawn(r) /\ Goto(r, "wf_ffmpeg") /\ UNCHANGED semVars
     \/ /\ vid[r] \notin s3 \/ May("s3") \/ May("disk") \/ SpawnFails(r)
        /\ GiveUp(r) /\ Release
  /\ UNCHANGED <<storeVars, hostVars>>

WfFfmpeg(r) ==
  /\ pc[r] = "wf_ffmpeg"
  /\ \/ Move(r, "wf_save", [doc[r] EXCEPT !.wave = TRUE], 0) /\ UNCHANGED semVars
     \/ May("proc") /\ GiveUp(r) /\ Release
  /\ UNCHANGED <<storeVars, hostVars>>

\* Faulty variant of WfSave: a song that was not saved keeps its waveform.
WfSaveKeeping(r) ==
  /\ pc[r] = "wf_save"
  /\ \/ MongoSave(vid[r], doc[r]) /\ Goto(r, "wf_cache") /\ UNCHANGED semVars
     \/ MongoSaveFails(vid[r], doc[r]) /\ Goto(r, "wf_rmrf") /\ Release
  /\ UNCHANGED <<redis, redisUp, s3, hostVars>>

\* Faulty variant of WfSave: the waveform reaches the cache alone.
WfSaveSkipped(r) ==
  /\ pc[r] = "wf_save"
  /\ Goto(r, "wf_cache")
  /\ UNCHANGED <<storeVars, semVars, hostVars>>

WfSave(r) ==
  /\ pc[r] = "wf_save"
  /\ \/ MongoSave(vid[r], doc[r]) /\ Goto(r, "wf_cache") /\ UNCHANGED semVars
     \/ MongoSaveFails(vid[r], doc[r]) /\ GiveUp(r) /\ Release
  /\ UNCHANGED <<redis, redisUp, s3, hostVars>>

\* Faulty variant of WfCache: the cached song is left as it was.
WfCacheSkipped(r) ==
  /\ pc[r] = "wf_cache"
  /\ Release
  /\ Goto(r, "wf_rmrf")
  /\ UNCHANGED <<storeVars, hostVars>>

WfCache(r) ==
  /\ pc[r] = "wf_cache"
  /\ CacheSet(vid[r], doc[r])
  /\ Release
  /\ Goto(r, "wf_rmrf")
  /\ UNCHANGED <<redisUp, mongo, s3, hostVars>>

WfRemoveDir(r) ==
  /\ pc[r] = "wf_rmrf"
  /\ Rmrf
  /\ Answer(r, 200)
  /\ UNCHANGED <<storeVars, semVars, orphans>>

-----------------------------------------------------------------------------
(* What happens to a request or to the process from outside *)

\* Faulty variant of Abandon: the request keeps its place in the queue.
AbandonQueued(r) ==
  /\ Move(r, "idle", NoDoc, 0)
  /\ avail' = avail + (IF pc[r] \in Holding THEN 1 ELSE 0)
  /\ orphans' = [k \in {"job", "info"} |->
                   orphans[k] + (IF \/ k = "job" /\ pc[r] \in JobStages
                                    \/ k = "info" /\ pc[r] = "yt_info"
                                 THEN 1 ELSE 0)]
  /\ dirs' = dirs - (IF pc[r] \in {"rmrf", "wf_rmrf"} THEN 1 ELSE 0)
  /\ UNCHANGED <<storeVars, ahead>>

\* The future of r is dropped where it is suspended: its permit or its place in
\* the queue is given back, its child runs on (no kill_on_drop), its work
\* directory stays unless the removal is already under way.
Abandon(r) ==
  /\ Move(r, "idle", NoDoc, 0)
  /\ avail' = avail + (IF pc[r] \in Holding THEN 1 ELSE 0)
  /\ ahead' = [q \in Req |-> IF q = r THEN {} ELSE ahead[q] \ {r}]
  /\ orphans' = [k \in {"job", "info"} |->
                   orphans[k] + (IF \/ k = "job" /\ pc[r] \in JobStages
                                    \/ k = "info" /\ pc[r] = "yt_info"
                                 THEN 1 ELSE 0)]
  /\ dirs' = dirs - (IF pc[r] \in {"rmrf", "wf_rmrf"} THEN 1 ELSE 0)
  /\ UNCHANGED storeVars

\* The client of a JSON request closes its connection: axum drops the handler.
Cancel(r) == May("cancel") /\ r \in Json /\ pc[r] # "idle" /\ Abandon(r)

\* run_ffmpeg cuts stderr_tail inside a character and panics.
Panic(r) == May("panic") /\ pc[r] \in {"ffmpeg", "wf_ffmpeg"} /\ Abandon(r)

OrphanExits(k) ==
  /\ orphans[k] > 0
  /\ orphans' = [orphans EXCEPT ![k] = @ - 1]
  /\ UNCHANGED <<reqVars, storeVars, semVars, dirs>>

\* REDIS_TTL_S, or the LRU policy of the Redis container.
RedisExpire(v) ==
  /\ redis[v] # NoDoc
  /\ redis' = [redis EXCEPT ![v] = NoDoc]
  /\ UNCHANGED <<reqVars, redisUp, mongo, s3, semVars, hostVars>>

\* The one multiplexed connection is lost; nothing opens another.
RedisBreaks ==
  /\ May("redis") /\ redisUp
  /\ redisUp' = FALSE
  /\ UNCHANGED <<reqVars, redis, mongo, s3, semVars, hostVars>>

\* The database is set up anew under a running service (resolver.rs:130).
MongoReset ==
  /\ May("reset")
  /\ mongo' = [v \in Video |-> NoDoc]
  /\ UNCHANGED <<reqVars, redis, redisUp, s3, semVars, hostVars>>

\* The service process dies and is started again: Services::new makes a new
\* semaphore and a new Redis connection; stores and work directories stay.
Crash ==
  /\ May("crash")
  /\ pc' = [r \in Req |-> "idle"]
  /\ doc' = [r \in Req |-> NoDoc]
  /\ status' = [r \in Req |-> 0]
  /\ redisUp' = TRUE
  /\ avail' = MaxConcurrency
  /\ ahead' = [r \in Req |-> {}]
  /\ orphans' = [k \in {"job", "info"} |-> 0]
  /\ UNCHANGED <<vid, redis, mongo, s3, dirs>>

-----------------------------------------------------------------------------
Lookup(r) == CacheGet(r) \/ MongoGet(r) \/ CacheFill(r) \/ S3Has(r)

Found(r) == YtInfo(r) \/ SaveFound(r) \/ CacheFound(r)

Fresh(r) == \/ Mkdtemp(r) \/ Acquire(r) \/ YtDlp(r) \/ Ffmpeg(r)
            \/ S3Put(r) \/ Save(r) \/ CacheSong(r) \/ RemoveDir(r)

Backfill(r) == \/ WithWaveform(r) \/ WfAcquire(r) \/ WfS3Get(r) \/ WfFfmpeg(r)
               \/ WfSave(r) \/ WfCache(r) \/ WfRemoveDir(r)

\* What the program itself does for request r.
Step(r) == Lookup(r) \/ Found(r) \/ Fresh(r) \/ Backfill(r)

Environment ==
  \/ \E r \in Req : (\E v \in Video : Arrive(r, v)) \/ Cancel(r) \/ Panic(r)
  \/ \E k \in {"job", "info"} : OrphanExits(k)
  \/ \E v \in Video : RedisExpire(v)
  \/ RedisBreaks \/ MongoReset \/ Crash

Next == (\E r \in Req : Step(r)) \/ Environment

\* The service starts on an empty Redis, over any S3 bucket and over the
\* records an earlier deployment left in Mongo, each of a video it uploaded.
Init ==
  /\ pc = [r \in Req |-> "idle"]
  /\ vid \in [Req -> Video]
  /\ doc = [r \in Req |-> NoDoc]
  /\ status = [r \in Req |-> 0]
  /\ redis = [v \in Video |-> NoDoc]
  /\ redisUp = TRUE
  /\ s3 \in SUBSET Video
  /\ mongo \in [Video -> [wave: BOOLEAN, createdAt: {"date"}] \cup {NoDoc}]
  /\ \A v \in Video : mongo[v] # NoDoc => v \in s3
  /\ avail = MaxConcurrency
  /\ ahead = [r \in Req |-> {}]
  /\ dirs = 0
  /\ orphans = [k \in {"job", "info"} |-> 0]

Spec == Init /\ [][Next]_vars

\* Every awaited call returns or is cut by its timeout, so the task of a
\* request that can go on does go on.
Fairness == \A r \in Req : WF_vars(Step(r))

-----------------------------------------------------------------------------
(* Safety *)

Backfilling == {"with_waveform", "wf_acquire", "wf_s3_get", "wf_ffmpeg",
                "wf_save", "wf_cache", "wf_rmrf"}

Answered(r) == pc[r] = "idle" /\ status[r] = 200

\* A song d of video v is durable: Mongo holds a record of v at least as rich.
Durable(v, d) == mongo[v] # NoDoc /\ (d.wave => mongo[v].wave)

\* Nothing ever names an MP3 that is not there: a record in Mongo or in Redis, a
\* song in a request's hand and a song answered all have their audio on S3,
\* although upload and records are separate calls that fail, are cut by a
\* crash and are interleaved with those of other requests.
AudioBeforeRecord ==
  /\ \A v \in Video : mongo[v] # NoDoc \/ redis[v] # NoDoc => v \in s3
  /\ \A r \in Req : doc[r] # NoDoc => vid[r] \in s3

\* The cache never shows what Mongo does not hold: no request, however it is
\* delayed, caches a song or a waveform whose save failed or is still to come.
CacheNotAhead ==
  \A v \in Video : redis[v] # NoDoc => Durable(v, redis[v])

\* A client told "here is the song", or "here is its waveform", has been told
\* what Mongo holds; a failed backfill must not answer the waveform it lost.
AnswersAreDurable ==
  \A r \in Req : Answered(r) => Durable(vid[r], doc[r])

\* createdAt is stored as a Date (services.rs:161), by whichever path the
\* record came to be and however often it was saved since.
CreatedAtIsDate ==
  \A v \in Video : mongo[v] # NoDoc => mongo[v].createdAt = "date"

\* No permit is lost or given back twice, on any path out of the two permit
\* scopes: results, errors, dropped handlers, panics.
PermitsBalance == avail + Cardinality(At(Holding)) = MaxConcurrency

\* The semaphore never stalls: whoever queues, one of them is at the head, and
\* nobody queues behind a request that has gone.
QueueHasHead ==
  /\ \A r \in Req : ahead[r] \subseteq At(Queueing)
  /\ At(Queueing) # {} => \E r \in At(Queueing) : ahead[r] = {}

\* Downloads and encodes at once, counting those that outlive their request or
\* the yt-dlp that began them.
Jobs == Cardinality(At(JobStages)) + orphans["job"]

\* "at most MAX_CONCURRENCY download/encode jobs at once" (docs/API.md:140).
JobsBounded == Jobs <= MaxConcurrency

\* Work directories on disk are exactly those of requests under way: every
\* return of resolve and with_waveform has removed its own, once.
DirsAccounted == dirs = Cardinality(At(Owning))

\* When nothing fails, every song answered carries its waveform, also that of
\* an old record and of an MP3 found without a record.
AnsweredWithWaveform == \A r \in Req : Answered(r) => doc[r].wave

\* When nothing fails, a cached song has caught up with Mongo as soon as no
\* request works on its video: the stale document that a slower request puts
\* over a backfilled one does not outlive that request.
CacheCaughtUp ==
  \A v \in Video :
    /\ redis[v] # NoDoc
    /\ \A r \in Req : vid[r] = v => pc[r] = "idle"
    => redis[v].wave = mongo[v].wave

-----------------------------------------------------------------------------
(* Action properties *)

\* A record is never lost, never loses its waveform and never changes its
\* createdAt, whatever upserts race and whichever of them is the poorer.
RecordsOnlyGrow ==
  [][\A v \in Video :
       mongo[v] # NoDoc => /\ mongo'[v] # NoDoc
                           /\ mongo[v].wave => mongo'[v].wave
                           /\ mongo'[v].createdAt = mongo[v].createdAt]_vars

\* A backfill never fails the request it is part of (resolver.rs:69).
BackfillHarmless ==
  [][\A r \in Req : pc[r] \in Backfilling /\ pc'[r] = "idle"
                      => status'[r] = 200 /\ doc'[r] # NoDoc]_vars

\* "a dead Redis does not fail a request" (docs/API.md:141): whatever Redis
\* answers, or whether it answers, a request never ends in an error at a step
\* that calls it.
Caching == {"cache_get", "cache_fill", "cache_found", "cache_set", "wf_cache"}

RedisHarmless ==
  [][\A r \in Req : pc[r] \in Caching => status'[r] \in {0, 200}]_vars

\* No video that the service refuses is uploaded.
RefusedNeverUploaded == [][(s3' \ s3) \cap (NoAudio \cup TooLong) = {}]_vars

\* "what is already on S3 is returned at once, not downloaded again"
\* (README.md:5).
NoSecondDownload ==
  [][\A r \in Req : pc[r] # "yt_dlp" /\ pc'[r] = "yt_dlp" => vid[r] \notin s3]_vars

-----------------------------------------------------------------------------
(* Liveness *)

\* Every request is answered, in its turn at the semaphore.
EveryRequestAnswered == \A r \in Req : pc[r] # "idle" ~> pc[r] = "idle"

\* A request for a playable video ends with a complete record of it, whether it
\* was unknown, on S3 only, or recorded before waveforms were.
RequestCompletesRecord ==
  \A r \in Req, v \in Video \ (NoAudio \cup TooLong) :
    pc[r] = "cache_get" /\ vid[r] = v ~> mongo[v] # NoDoc /\ mongo[v].wave
=============================================================================
