--------------------------- MODULE ResolverProofs ---------------------------
(***************************************************************************)
(* Theorems of Resolver, for every set of slots and videos, every limit    *)
(* and every choice of faults: its types and permits, the control graph of *)
(* a request, and what it does to S3, Mongo and Redis: no record without   *)
(* audio, no cached or answered song without a record, no record that gets *)
(* poorer; and that Resolver implements SongStore.                         *)
(***************************************************************************)
EXTENDS ResolverStore, FiniteSetTheorems, TLAPS

-----------------------------------------------------------------------------
(* Counting requests by stage *)

In(x, S) == IF x \in S THEN 1 ELSE 0

-----------------------------------------------------------------------------
(* The type invariant *)

\* Where a song is in hand.
WithSong == {"save_found", "cache_found", "cache_fill", "save", "cache_set"}
              \cup Backfilling

SongInHand == \A r \in Req : pc[r] \in WithSong \/ status[r] = 200 => doc[r] # NoDoc

\* No request removes a directory it does not own: there are at least as many
\* as there are owners.  (There are more when a request was dropped.)
DirsCover == Cardinality(At(Owning)) <= dirs

TypeInv == TypeOK /\ SongInHand /\ PermitsBalance /\ DirsCover

\* What a step does to the request that takes it, to the permits and to the
\* directories.
Moves(r) ==
  /\ pc' = [pc EXCEPT ![r] = pc'[r]] /\ pc'[r] \in Stage
  /\ doc' = [doc EXCEPT ![r] = doc'[r]] /\ doc'[r] \in Doc \cup {NoDoc}
  /\ status' = [status EXCEPT ![r] = status'[r]] /\ status'[r] \in Status
  /\ pc'[r] \in WithSong \/ status'[r] = 200 => doc'[r] # NoDoc
  /\ avail' = avail + In(pc[r], Holding) - In(pc'[r], Holding) /\ avail' >= 0
  /\ dirs' \in Int /\ dirs' <= MaxDirs
  /\ dirs + In(pc'[r], Owning) - In(pc[r], Owning) <= dirs'

\* A new song is a document.
LEMMA NewSong ==
  ASSUME NEW b \in BOOLEAN
  PROVE  [wave |-> b, createdAt |-> "iso"] \in Doc \ {NoDoc}
BY NoDocAssumption DEF Doc

\* So is a song whose waveform is set or cleared.
LEMMA SongWithWave ==
  ASSUME NEW d \in Doc, NEW b \in BOOLEAN
  PROVE  [d EXCEPT !.wave = b] \in Doc \ {NoDoc}
BY NoDocAssumption DEF Doc

\* What one step of a request does to its stage, its song and the semaphore.
LEMMA StepMoves ==
  ASSUME TypeOK, SongInHand, NEW r \in Req, Step(r)
  PROVE  Moves(r)
<1> USE NoDocAssumption, LimitAssumption DEF TypeOK, SongInHand, Moves, WithSong, Backfilling,
        Stage, Status, Holding, Owning, Queueing, In,
        reqVars, storeVars, semVars, hostVars
<1>1. CASE CacheGet(r)
  BY <1>1 DEF CacheGet, Goto, Move
<1>2. CASE MongoGet(r)
  BY <1>2 DEF MongoGet, Goto, Move, Answer
<1>3. CASE CacheFill(r)
  BY <1>3 DEF CacheFill, Goto, Move
<1>4. CASE S3Has(r)
  BY <1>4 DEF S3Has, Goto, Move, Answer
<1>5. CASE YtInfo(r)
  <2> DEFINE song == [wave |-> FALSE, createdAt |-> "iso"]
  <2>1. song \in Doc \ {NoDoc}
    BY NewSong
  <2>2. Move(r, "save_found", song, 0) \/ Answer(r, 502)
    BY <1>5 DEF YtInfo
  <2> HIDE DEF song
  <2> QED BY <1>5, <2>1, <2>2 DEF YtInfo, Move, Answer
<1>6. CASE SaveFound(r)
  BY <1>6 DEF SaveFound, Goto, Move, Answer
<1>7. CASE CacheFound(r)
  BY <1>7 DEF CacheFound, Goto, Move
<1>8. CASE Mkdtemp(r)
  BY <1>8 DEF Mkdtemp, Goto, Move, Answer, Mkdir, MkdirFails
<1>9. CASE Acquire(r)
  BY <1>9 DEF Acquire, Goto, Move, CleanUp, Granted
<1>10. CASE YtDlp(r)
  BY <1>10 DEF YtDlp, Goto, Move, CleanUp, Release
<1>11. CASE Ffmpeg(r)
  BY <1>11 DEF Ffmpeg, Goto, Move, CleanUp, Release
<1>12. CASE S3Put(r)
  <2> DEFINE song == [wave |-> TRUE, createdAt |-> "iso"]
  <2>1. song \in Doc \ {NoDoc}
    BY NewSong
  <2>2. Move(r, "save", song, 0) \/ CleanUp(r, 502) \/ CleanUp(r, 500)
    BY <1>12 DEF S3Put
  <2>3. pc[r] = "s3_put" /\ Release /\ dirs' = dirs
    BY <1>12 DEF S3Put
  <2> HIDE DEF song
  <2> QED BY <2>1, <2>2, <2>3 DEF Move, CleanUp, Release
<1>13. CASE Save(r)
  BY <1>13 DEF Save, Goto, Move, CleanUp
<1>14. CASE CacheSong(r)
  BY <1>14 DEF CacheSong, Move, CleanUp
<1>15. CASE RemoveDir(r)
  BY <1>15 DEF RemoveDir, Move, Answer, Rmrf
<1>16. CASE WithWaveform(r)
  BY <1>16 DEF WithWaveform, Goto, Move, Answer, Mkdir, MkdirFails
<1>17. CASE WfAcquire(r)
  BY <1>17 DEF WfAcquire, Goto, Move, Granted
<1>18. CASE WfS3Get(r)
  <2> DEFINE song == [doc[r] EXCEPT !.wave = FALSE]
  <2>1. song \in Doc \ {NoDoc}
    <3>1. doc[r] \in Doc
      BY <1>18 DEF WfS3Get
    <3> QED BY <3>1, SongWithWave
  <2>2. \/ Goto(r, "wf_ffmpeg") /\ UNCHANGED semVars
        \/ Move(r, "wf_rmrf", song, 0) /\ Release
    BY <1>18 DEF WfS3Get, GiveUp
  <2>3. pc[r] = "wf_s3_get" /\ dirs' = dirs
    BY <1>18 DEF WfS3Get
  <2> HIDE DEF song
  <2> QED BY <2>1, <2>2, <2>3 DEF Goto, Move, Release
<1>19. CASE WfFfmpeg(r)
  <2> DEFINE full == [doc[r] EXCEPT !.wave = TRUE]
             bare == [doc[r] EXCEPT !.wave = FALSE]
  <2>1. full \in Doc \ {NoDoc} /\ bare \in Doc \ {NoDoc}
    <3>1. doc[r] \in Doc
      BY <1>19 DEF WfFfmpeg
    <3> QED BY <3>1, SongWithWave
  <2>2. \/ Move(r, "wf_save", full, 0) /\ UNCHANGED semVars
        \/ Move(r, "wf_rmrf", bare, 0) /\ Release
    BY <1>19 DEF WfFfmpeg, GiveUp
  <2>3. pc[r] = "wf_ffmpeg" /\ dirs' = dirs
    BY <1>19 DEF WfFfmpeg
  <2> HIDE DEF full, bare
  <2> QED BY <2>1, <2>2, <2>3 DEF Move, Release
<1>20. CASE WfSave(r)
  <2> DEFINE song == [doc[r] EXCEPT !.wave = FALSE]
  <2>1. song \in Doc \ {NoDoc}
    <3>1. doc[r] \in Doc
      BY <1>20 DEF WfSave
    <3> QED BY <3>1, SongWithWave
  <2>2. \/ Goto(r, "wf_cache") /\ UNCHANGED semVars
        \/ Move(r, "wf_rmrf", song, 0) /\ Release
    BY <1>20 DEF WfSave, GiveUp
  <2>3. pc[r] = "wf_save" /\ dirs' = dirs
    BY <1>20 DEF WfSave
  <2> HIDE DEF song
  <2> QED BY <2>1, <2>2, <2>3 DEF Goto, Move, Release
<1>21. CASE WfCache(r)
  BY <1>21 DEF WfCache, Goto, Move, Release
<1>22. CASE WfRemoveDir(r)
  BY <1>22 DEF WfRemoveDir, Move, Answer, Rmrf
<1> QED
  BY <1>1, <1>2, <1>3, <1>4, <1>5, <1>6, <1>7, <1>8, <1>9, <1>10, <1>11, <1>12, <1>13, <1>14, <1>15, <1>16, <1>17, <1>18, <1>19, <1>20, <1>21, <1>22
  DEF Step, Lookup, Found, Fresh, Backfill

\* An arrival and a dropped request move in the same way.
LEMMA OutsideMoves ==
  ASSUME TypeOK, SongInHand, NEW r \in Req,
         (\E v \in Video : Arrive(r, v)) \/ Abandon(r)
  PROVE  Moves(r)
<1> USE NoDocAssumption, LimitAssumption
    DEF TypeOK, SongInHand, Moves, WithSong, Backfilling, Stage, Status,
        Holding, Owning, Queueing, In, reqVars, storeVars, semVars, hostVars
<1>1. CASE \E v \in Video : Arrive(r, v)
  BY <1>1 DEF Arrive
<1>2. CASE Abandon(r)
  BY <1>2 DEF Abandon, Move
<1> QED BY <1>1, <1>2

\* A request that moves changes the count of a set of stages by what it joins
\* and what it leaves.
LEMMA CountAfter ==
  ASSUME TypeOK, NEW r \in Req, Moves(r), NEW S
  PROVE  /\ Cardinality(At(S)) \in Nat
         /\ Cardinality(At(S))' \in Nat
         /\ Cardinality(At(S))' = Cardinality(At(S)) + In(pc'[r], S) - In(pc[r], S)
<1> DEFINE A == At(S)
           B == At(S)'
           p == pc'[r]
<1>1. pc \in [Req -> Stage] /\ pc' = [pc EXCEPT ![r] = p]
  BY DEF TypeOK, Moves
<1>2. A = {q \in Req : pc[q] \in S} /\ B = {q \in Req : pc'[q] \in S}
  BY DEF At
<1>3. IsFiniteSet(A) /\ IsFiniteSet(B)
  BY <1>2, ReqAssumption, FS_Subset
<1>4. Cardinality(A) \in Nat /\ Cardinality(B) \in Nat
  BY <1>3, FS_CardinalityType
<1> HIDE DEF A, B, p
<1>5. CASE p \in S /\ pc[r] \notin S
  <2>1. B = A \cup {r} /\ r \notin A
    BY <1>1, <1>2, <1>5
  <2> QED BY <1>3, <1>4, <1>5, <2>1, FS_AddElement DEF A, B, p, In
<1>6. CASE p \notin S /\ pc[r] \in S
  <2>1. B = A \ {r} /\ r \in A
    BY <1>1, <1>2, <1>6
  <2> QED BY <1>3, <1>4, <1>6, <2>1, FS_RemoveElement DEF A, B, p, In
<1>7. CASE (p \in S) <=> (pc[r] \in S)
  <2>1. B = A
    BY <1>1, <1>2, <1>7
  <2> QED BY <1>4, <1>7, <2>1 DEF A, B, p, In
<1> QED BY <1>5, <1>6, <1>7

\* A move keeps the request typed, the permits balanced and the directories
\* covered.
LEMMA MovesKeep ==
  ASSUME TypeInv, NEW r \in Req, Moves(r)
  PROVE  /\ pc' \in [Req -> Stage]
         /\ doc' \in [Req -> Doc \cup {NoDoc}]
         /\ status' \in [Req -> Status]
         /\ avail' \in 0 .. MaxConcurrency
         /\ dirs' \in 0 .. MaxDirs
         /\ SongInHand' /\ PermitsBalance' /\ DirsCover'
<1> DEFINE p == pc'[r]
<1>1. pc \in [Req -> Stage] /\ pc' = [pc EXCEPT ![r] = p] /\ p \in Stage
  BY DEF TypeInv, TypeOK, Moves
<1> HIDE DEF p
<1>2. \A S : /\ Cardinality(At(S)) \in Nat
             /\ Cardinality(At(S))' \in Nat
             /\ Cardinality(At(S))' = Cardinality(At(S)) + In(p, S) - In(pc[r], S)
  <2> TAKE S
  <2> USE DEF p
  <2> QED BY CountAfter DEF TypeInv
<1>3. /\ pc' \in [Req -> Stage]
      /\ doc' \in [Req -> Doc \cup {NoDoc}]
      /\ status' \in [Req -> Status]
      /\ SongInHand'
  BY DEF TypeInv, TypeOK, Moves, SongInHand
<1>4. PermitsBalance' /\ avail' \in 0 .. MaxConcurrency
  <2>1. avail' = avail + In(pc[r], Holding) - In(p, Holding)
    BY DEF Moves, p
  <2>2. avail \in Int /\ avail + Cardinality(At(Holding)) = MaxConcurrency
    BY LimitAssumption DEF TypeInv, TypeOK, PermitsBalance
  <2>3. In(pc[r], Holding) \in {0, 1} /\ In(p, Holding) \in {0, 1}
    BY DEF In
  <2>4. avail' + Cardinality(At(Holding))' = MaxConcurrency
    BY <1>2, <2>1, <2>2, <2>3
  <2>5. avail' >= 0
    BY DEF Moves
  <2> QED BY <1>2, <2>1, <2>2, <2>3, <2>4, <2>5, LimitAssumption DEF PermitsBalance
<1>5. DirsCover' /\ dirs' \in 0 .. MaxDirs
  <2>1. /\ dirs' \in Int /\ dirs' <= MaxDirs
        /\ dirs + In(p, Owning) - In(pc[r], Owning) <= dirs'
    BY DEF Moves, p
  <2>2. dirs \in Int /\ Cardinality(At(Owning)) <= dirs
    BY LimitAssumption DEF TypeInv, TypeOK, DirsCover
  <2>3. In(pc[r], Owning) \in {0, 1} /\ In(p, Owning) \in {0, 1}
    BY DEF In
  <2>4. Cardinality(At(Owning))' <= dirs'
    BY <1>2, <2>1, <2>2, <2>3
  <2> QED BY <1>2, <2>1, <2>4, LimitAssumption DEF DirsCover
<1> QED BY <1>3, <1>4, <1>5

\* An upsert leaves a document, whatever was there.
LEMMA SavedIsSong ==
  ASSUME NEW old \in Doc \cup {NoDoc}, NEW d \in Doc
  PROVE  Saved(old, d) \in Doc
<1>1. CASE old = NoDoc
  BY <1>1 DEF Saved, Doc
<1>2. CASE old # NoDoc
  BY <1>2 DEF Saved, Doc
<1> QED BY <1>1, <1>2

\* The variables that Moves does not speak of.
OthersOK ==
  /\ vid \in [Req -> Video]
  /\ redis \in [Video -> Doc \cup {NoDoc}]
  /\ redisUp \in BOOLEAN
  /\ mongo \in [Video -> Doc \cup {NoDoc}]
  /\ s3 \in SUBSET Video
  /\ ahead \in [Req -> SUBSET Req]
  /\ orphans \in [{"job", "info"} -> Nat]

\* A step keeps the types of the stores and of the host.
LEMMA StepOthers ==
  ASSUME TypeOK, SongInHand, NEW r \in Req, Step(r)
  PROVE  OthersOK'
<1>0. pc[r] \in WithSong => Saved(mongo[vid[r]], doc[r]) \in Doc /\ doc[r] \in Doc
  BY SavedIsSong DEF TypeOK, SongInHand
<1> USE <1>0 DEF TypeOK, OthersOK, At, WithSong, Backfilling,
        reqVars, storeVars, semVars, hostVars
<1>1. CASE CacheGet(r)
  BY <1>1 DEF CacheGet, Goto, Move
<1>2. CASE MongoGet(r)
  BY <1>2 DEF MongoGet, Goto, Move, Answer
<1>3. CASE CacheFill(r)
  BY <1>3 DEF CacheFill, CacheSet, Goto, Move
<1>4. CASE S3Has(r)
  BY <1>4 DEF S3Has, Goto, Move, Answer
<1>5. CASE YtInfo(r)
  BY <1>5 DEF YtInfo, Move, Answer, LeavesBehind
<1>6. CASE SaveFound(r)
  BY <1>6 DEF SaveFound, MongoSave, MongoSaveFails, Goto, Move, Answer
<1>7. CASE CacheFound(r)
  BY <1>7 DEF CacheFound, CacheSet, Goto, Move
<1>8. CASE Mkdtemp(r)
  BY <1>8 DEF Mkdtemp, Goto, Move, Answer, Enqueue
<1>9. CASE Acquire(r)
  BY <1>9 DEF Acquire, Goto, Move, CleanUp, Granted
<1>10. CASE YtDlp(r)
  BY <1>10 DEF YtDlp, Goto, Move, CleanUp, Release, LeavesBehind
<1>11. CASE Ffmpeg(r)
  BY <1>11 DEF Ffmpeg, Goto, Move, CleanUp, Release
<1>12. CASE S3Put(r)
  BY <1>12 DEF S3Put, Move, CleanUp, Release
<1>13. CASE Save(r)
  BY <1>13 DEF Save, MongoSave, MongoSaveFails, Goto, Move, CleanUp
<1>14. CASE CacheSong(r)
  BY <1>14 DEF CacheSong, CacheSet, Move, CleanUp
<1>15. CASE RemoveDir(r)
  BY <1>15 DEF RemoveDir, Move, Answer
<1>16. CASE WithWaveform(r)
  BY <1>16 DEF WithWaveform, Goto, Move, Answer, Enqueue
<1>17. CASE WfAcquire(r)
  BY <1>17 DEF WfAcquire, Goto, Move, Granted
<1>18. CASE WfS3Get(r)
  BY <1>18 DEF WfS3Get, Goto, Move, GiveUp, Release
<1>19. CASE WfFfmpeg(r)
  BY <1>19 DEF WfFfmpeg, Move, GiveUp, Release
<1>20. CASE WfSave(r)
  BY <1>20 DEF WfSave, MongoSave, MongoSaveFails, Goto, Move, GiveUp, Release
<1>21. CASE WfCache(r)
  BY <1>21 DEF WfCache, CacheSet, Goto, Move, Release
<1>22. CASE WfRemoveDir(r)
  BY <1>22 DEF WfRemoveDir, Move, Answer
<1> QED
  BY <1>1, <1>2, <1>3, <1>4, <1>5, <1>6, <1>7, <1>8, <1>9, <1>10, <1>11, <1>12, <1>13, <1>14, <1>15, <1>16, <1>17, <1>18, <1>19, <1>20, <1>21, <1>22
  DEF Step, Lookup, Found, Fresh, Backfill

\* So do arrivals and the ends of dropped requests.
LEMMA OutsideOthers ==
  ASSUME TypeOK, NEW r \in Req, (\E v \in Video : Arrive(r, v)) \/ Abandon(r)
  PROVE  OthersOK'
<1> USE DEF TypeOK, OthersOK, reqVars, storeVars, semVars, hostVars
<1>1. CASE \E v \in Video : Arrive(r, v)
  BY <1>1 DEF Arrive
<1>2. CASE Abandon(r)
  BY <1>2 DEF Abandon, Move
<1> QED BY <1>1, <1>2

\* The type invariant of Resolver, with what it takes to keep it: whoever needs a
\* song has one, the permits balance, no directory is removed twice.
THEOREM TypeInvariant == Spec => []TypeInv
<1>1. Init => TypeInv
  <2> SUFFICES ASSUME Init PROVE TypeInv
    OBVIOUS
  <2>1. TypeOK /\ SongInHand
    BY LimitAssumption
    DEF Init, TypeOK, SongInHand, WithSong, Backfilling, Stage, Status, Doc
  <2>2. At(Holding) = {} /\ At(Owning) = {}
    BY DEF Init, At, Holding, Owning, Queueing
  <2>3. PermitsBalance /\ DirsCover
    BY <2>2, FS_EmptySet, LimitAssumption DEF Init, PermitsBalance, DirsCover
  <2> QED BY <2>1, <2>3 DEF TypeInv
<1>2. TypeInv /\ [Next]_vars => TypeInv'
  <2> SUFFICES ASSUME TypeInv, [Next]_vars PROVE TypeInv'
    OBVIOUS
  <2> USE DEF TypeInv
  <2>1. ASSUME NEW r \in Req, Step(r) PROVE TypeInv'
    BY <2>1, StepMoves, StepOthers, MovesKeep DEF TypeOK, OthersOK
  <2>2. ASSUME NEW r \in Req,
               (\E v \in Video : Arrive(r, v)) \/ Cancel(r) \/ Panic(r)
        PROVE  TypeInv'
    BY <2>2, OutsideMoves, OutsideOthers, MovesKeep
    DEF TypeOK, OthersOK, Cancel, Panic
  <2>3. ASSUME UNCHANGED <<reqVars, semVars, dirs>>, OthersOK' PROVE TypeInv'
    BY <2>3
    DEF TypeOK, OthersOK, SongInHand, PermitsBalance, DirsCover, At, reqVars, semVars
  <2>4. ASSUME NEW k \in {"job", "info"}, OrphanExits(k) PROVE TypeInv'
    BY <2>3, <2>4 DEF OrphanExits, TypeOK, OthersOK, reqVars, storeVars, semVars
  <2>5. ASSUME NEW v \in Video, RedisExpire(v) PROVE TypeInv'
    BY <2>3, <2>5
    DEF RedisExpire, TypeOK, OthersOK, reqVars, semVars, hostVars
  <2>6. CASE RedisBreaks \/ MongoReset
    BY <2>3, <2>6
    DEF RedisBreaks, MongoReset, TypeOK, OthersOK, reqVars, semVars, hostVars
  <2>7. CASE Crash
    <3>1. TypeOK' /\ SongInHand'
      BY <2>7, LimitAssumption
      DEF Crash, TypeOK, SongInHand, WithSong, Backfilling, Stage, Status
    <3>2. At(Holding)' = {} /\ At(Owning)' = {}
      BY <2>7 DEF Crash, At, Holding, Owning, Queueing
    <3>3. PermitsBalance' /\ DirsCover'
      BY <2>7, <3>1, <3>2, FS_EmptySet, LimitAssumption
      DEF Crash, PermitsBalance, DirsCover, TypeOK
    <3> QED BY <3>1, <3>3
  <2>8. CASE UNCHANGED vars
    BY <2>3, <2>8 DEF TypeOK, OthersOK, vars, reqVars, storeVars, semVars, hostVars
  <2> QED
    BY <2>1, <2>2, <2>4, <2>5, <2>6, <2>7, <2>8 DEF Next, Environment
<1> QED BY <1>1, <1>2, PTL DEF Spec

\* Every variable keeps its type: no limit is overrun, no count goes below zero.
THEOREM TypeCorrect == Spec => []TypeOK
<1>1. TypeInv => TypeOK
  BY DEF TypeInv
<1> QED BY <1>1, TypeInvariant, PTL

\* acquire_permit and the two permit scopes never lose or duplicate a permit,
\* whatever fails, is dropped or panics.
THEOREM PermitsAreBalanced == Spec => []PermitsBalance
<1>1. TypeInv => PermitsBalance
  BY DEF TypeInv
<1> QED BY <1>1, TypeInvariant, PTL
-----------------------------------------------------------------------------
(* The control graph of a request *)

\* From stage p to stage q with c as the result so far; c0 is the result before.
Edge(p, q, c0, c) ==
  \/ p = "cache_get" /\ q \in {"with_waveform", "mongo_get"}
  \/ p = "mongo_get" /\ q \in {"cache_fill", "s3_has"}
  \/ p = "s3_has" /\ q \in {"yt_info", "mkdtemp"}
  \/ p = "yt_info" /\ q = "save_found"
  \/ p = "save_found" /\ q = "cache_found"
  \/ p = "mkdtemp" /\ q = "acquire"
  \/ p \in {"mongo_get", "s3_has", "yt_info", "save_found", "mkdtemp"}
       /\ q = "idle" /\ c \notin {0, 200}
  \/ p = "acquire" /\ q = "yt_dlp"
  \/ p = "yt_dlp" /\ q = "ffmpeg"
  \/ p = "ffmpeg" /\ q = "s3_put"
  \/ p = "s3_put" /\ q = "save"
  \/ p = "save" /\ q = "cache_set"
  \/ p \in {"acquire", "yt_dlp", "ffmpeg", "s3_put", "save"}
       /\ q = "rmrf" /\ c \notin {0, 200}
  \/ p = "cache_set" /\ q = "rmrf" /\ c = 200
  \/ p = "rmrf" /\ q = "idle" /\ c = c0
  \/ p \in {"cache_fill", "cache_found"} /\ q = "with_waveform"
  \/ p = "with_waveform" /\ q = "wf_acquire"
  \/ p = "wf_acquire" /\ q = "wf_s3_get"
  \/ p = "wf_s3_get" /\ q \in {"wf_ffmpeg", "wf_rmrf"}
  \/ p = "wf_ffmpeg" /\ q \in {"wf_save", "wf_rmrf"}
  \/ p = "wf_save" /\ q \in {"wf_cache", "wf_rmrf"}
  \/ p = "wf_cache" /\ q = "wf_rmrf"
  \/ p \in {"with_waveform", "wf_rmrf"} /\ q = "idle" /\ c = 200

\* A result is set on the way out only.
Flow(p, q, c0, c) == Edge(p, q, c0, c) /\ (c # 0 => q \in {"idle", "rmrf"})

\* Every action keeps to the control graph.
LEMMA StepFlows ==
  ASSUME TypeOK, NEW r \in Req, Step(r)
  PROVE  Flow(pc[r], pc'[r], status[r], status'[r])
<1> USE DEF TypeOK, Flow, Edge, Move, Goto, Answer, CleanUp, GiveUp
<1>1. CASE CacheGet(r)
  BY <1>1 DEF CacheGet
<1>2. CASE MongoGet(r)
  BY <1>2 DEF MongoGet
<1>3. CASE CacheFill(r)
  BY <1>3 DEF CacheFill
<1>4. CASE S3Has(r)
  BY <1>4 DEF S3Has
<1>5. CASE YtInfo(r)
  BY <1>5 DEF YtInfo
<1>6. CASE SaveFound(r)
  BY <1>6 DEF SaveFound
<1>7. CASE CacheFound(r)
  BY <1>7 DEF CacheFound
<1>8. CASE Mkdtemp(r)
  BY <1>8 DEF Mkdtemp
<1>9. CASE Acquire(r)
  BY <1>9 DEF Acquire
<1>10. CASE YtDlp(r)
  BY <1>10 DEF YtDlp
<1>11. CASE Ffmpeg(r)
  BY <1>11 DEF Ffmpeg
<1>12. CASE S3Put(r)
  BY <1>12 DEF S3Put
<1>13. CASE Save(r)
  BY <1>13 DEF Save
<1>14. CASE CacheSong(r)
  BY <1>14 DEF CacheSong
<1>15. CASE RemoveDir(r)
  BY <1>15 DEF RemoveDir
<1>16. CASE WithWaveform(r)
  BY <1>16 DEF WithWaveform
<1>17. CASE WfAcquire(r)
  BY <1>17 DEF WfAcquire
<1>18. CASE WfS3Get(r)
  BY <1>18 DEF WfS3Get
<1>19. CASE WfFfmpeg(r)
  BY <1>19 DEF WfFfmpeg
<1>20. CASE WfSave(r)
  BY <1>20 DEF WfSave
<1>21. CASE WfCache(r)
  BY <1>21 DEF WfCache
<1>22. CASE WfRemoveDir(r)
  BY <1>22 DEF WfRemoveDir
<1> QED
  BY <1>1, <1>2, <1>3, <1>4, <1>5, <1>6, <1>7, <1>8, <1>9, <1>10, <1>11, <1>12, <1>13, <1>14, <1>15, <1>16, <1>17, <1>18, <1>19, <1>20, <1>21, <1>22
  DEF Step, Lookup, Found, Fresh, Backfill

\* The stage of a request says which of its steps is next.
LEMMA StepAt ==
  ASSUME NEW r \in Req, Step(r)
  PROVE  /\ pc[r] = "cache_fill" => CacheFill(r)
         /\ pc[r] = "yt_info" => YtInfo(r)
         /\ pc[r] = "save_found" => SaveFound(r)
         /\ pc[r] = "cache_found" => CacheFound(r)
         /\ pc[r] = "yt_dlp" => YtDlp(r)
         /\ pc[r] = "s3_put" => S3Put(r)
         /\ pc[r] = "save" => Save(r)
         /\ pc[r] = "cache_set" => CacheSong(r)
         /\ pc[r] = "with_waveform" => WithWaveform(r)
         /\ pc[r] = "wf_acquire" => WfAcquire(r)
         /\ pc[r] = "wf_s3_get" => WfS3Get(r)
         /\ pc[r] = "wf_ffmpeg" => WfFfmpeg(r)
         /\ pc[r] = "wf_save" => WfSave(r)
         /\ pc[r] = "wf_cache" => WfCache(r)
BY DEF Step, Lookup, Found, Fresh, Backfill, CacheGet, MongoGet, CacheFill, S3Has,
       YtInfo, SaveFound, CacheFound, Mkdtemp, Acquire, YtDlp, Ffmpeg, S3Put, Save,
       CacheSong, RemoveDir, WithWaveform, WfAcquire, WfS3Get, WfFfmpeg, WfSave,
       WfCache, WfRemoveDir

-----------------------------------------------------------------------------
(* Audio before record *)

\* AudioBeforeRecord, and what s3_has saw, which stays true while yt-dlp runs.
AudioInv ==
  /\ AudioBeforeRecord
  /\ \A r \in Req : pc[r] \in {"yt_info", "save_found"} => vid[r] \in s3

\* Whoever names an MP3 has found it or put it there.
LEMMA AudioStep ==
  ASSUME TypeOK, SongInHand, AudioInv, NEW r \in Req, Step(r)
  PROVE  AudioInv'
<1> USE DEF TypeOK, SongInHand, AudioInv, AudioBeforeRecord, WithSong, Backfilling,
        reqVars, storeVars, semVars, hostVars
<1>1. CASE CacheGet(r)
  BY <1>1 DEF CacheGet, Goto, Move
<1>2. CASE MongoGet(r)
  BY <1>2 DEF MongoGet, Goto, Move, Answer
<1>3. CASE CacheFill(r)
  BY <1>3 DEF CacheFill, CacheSet, Goto, Move
<1>4. CASE S3Has(r)
  BY <1>4 DEF S3Has, Goto, Move, Answer
<1>5. CASE YtInfo(r)
  BY <1>5 DEF YtInfo, Move, Answer
<1>6. CASE SaveFound(r)
  BY <1>6 DEF SaveFound, MongoSave, MongoSaveFails, Goto, Move, Answer
<1>7. CASE CacheFound(r)
  BY <1>7 DEF CacheFound, CacheSet, Goto, Move
<1>8. CASE Mkdtemp(r)
  BY <1>8 DEF Mkdtemp, Goto, Move, Answer
<1>9. CASE Acquire(r)
  BY <1>9 DEF Acquire, Goto, Move, CleanUp
<1>10. CASE YtDlp(r)
  BY <1>10 DEF YtDlp, Goto, Move, CleanUp
<1>11. CASE Ffmpeg(r)
  BY <1>11 DEF Ffmpeg, Goto, Move, CleanUp
<1>12. CASE S3Put(r)
  BY <1>12 DEF S3Put, Move, CleanUp
<1>13. CASE Save(r)
  BY <1>13 DEF Save, MongoSave, MongoSaveFails, Goto, Move, CleanUp
<1>14. CASE CacheSong(r)
  BY <1>14 DEF CacheSong, CacheSet, Move, CleanUp
<1>15. CASE RemoveDir(r)
  BY <1>15 DEF RemoveDir, Move, Answer
<1>16. CASE WithWaveform(r)
  BY <1>16 DEF WithWaveform, Goto, Move, Answer
<1>17. CASE WfAcquire(r)
  BY <1>17 DEF WfAcquire, Goto, Move
<1>18. CASE WfS3Get(r)
  BY <1>18 DEF WfS3Get, Goto, Move, GiveUp
<1>19. CASE WfFfmpeg(r)
  BY <1>19 DEF WfFfmpeg, Move, GiveUp
<1>20. CASE WfSave(r)
  BY <1>20 DEF WfSave, MongoSave, MongoSaveFails, Goto, Move, GiveUp
<1>21. CASE WfCache(r)
  BY <1>21 DEF WfCache, CacheSet, Goto, Move
<1>22. CASE WfRemoveDir(r)
  BY <1>22 DEF WfRemoveDir, Move, Answer
<1> QED
  BY <1>1, <1>2, <1>3, <1>4, <1>5, <1>6, <1>7, <1>8, <1>9, <1>10, <1>11, <1>12, <1>13, <1>14, <1>15, <1>16, <1>17, <1>18, <1>19, <1>20, <1>21, <1>22
  DEF Step, Lookup, Found, Fresh, Backfill

\* The MP3 is there at each stage that follows the lookup or the upload.
LEMMA AudioInvariant == Spec => []AudioInv
<1>1. Init => AudioInv
  BY DEF Init, AudioInv, AudioBeforeRecord
<1>2. TypeInv /\ AudioInv /\ [Next]_vars => AudioInv'
  <2> SUFFICES ASSUME TypeInv, AudioInv, [Next]_vars PROVE AudioInv'
    OBVIOUS
  <2> USE DEF AudioInv, AudioBeforeRecord, reqVars, storeVars, semVars, hostVars
  <2>1. ASSUME NEW r \in Req, Step(r) PROVE AudioInv'
    BY <2>1, AudioStep DEF TypeInv
  <2>2. ASSUME NEW r \in Req, NEW v \in Video, Arrive(r, v) PROVE AudioInv'
    BY <2>2 DEF Arrive, TypeInv, TypeOK
  <2>3. ASSUME NEW r \in Req, Abandon(r) PROVE AudioInv'
    BY <2>3 DEF Abandon, Move, TypeInv, TypeOK
  <2>4. ASSUME NEW k \in {"job", "info"}, OrphanExits(k) PROVE AudioInv'
    BY <2>4 DEF OrphanExits
  <2>5. ASSUME NEW v \in Video, RedisExpire(v) PROVE AudioInv'
    BY <2>5 DEF RedisExpire, TypeInv, TypeOK
  <2>6. CASE RedisBreaks \/ MongoReset
    BY <2>6 DEF RedisBreaks, MongoReset
  <2>7. CASE Crash
    BY <2>7 DEF Crash
  <2>8. CASE UNCHANGED vars
    BY <2>8 DEF vars
  <2> QED
    BY <2>1, <2>2, <2>3, <2>4, <2>5, <2>6, <2>7, <2>8
    DEF Next, Environment, Cancel, Panic
<1> QED BY <1>1, <1>2, TypeInvariant, PTL DEF Spec

\* Upload and record are separate calls that fail, are cut by a crash and race
\* with those of other requests; still no record, no cached song and no song in
\* hand names an MP3 that S3 does not hold.  The invariant needs no assumption
\* on the faults: not even an emptied database breaks it.
THEOREM AudioComesFirst == Spec => []AudioBeforeRecord
<1>1. AudioInv => AudioBeforeRecord
  BY DEF AudioInv
<1> QED BY <1>1, AudioInvariant, PTL

-----------------------------------------------------------------------------
(* Durable songs *)

\* Where the song in hand is one that Mongo has already.
Recorded == {"cache_fill", "cache_found", "cache_set"} \cup (Backfilling \ {"wf_save"})

\* CacheNotAhead and AnswersAreDurable, and why they hold: a song is cached or
\* answered only from where it has been read from Mongo or saved there, and a
\* backfill under way still has the record it began with.
DurableInv ==
  /\ CacheNotAhead
  /\ \A r \in Req : pc[r] \in Recorded \/ status[r] = 200 => Durable(vid[r], doc[r])
  /\ \A r \in Req : pc[r] = "wf_save" => mongo[vid[r]] # NoDoc

\* A save makes the saved song durable, and none less durable.
LEMMA SaveEnriches ==
  ASSUME TypeOK, NEW v \in Video, NEW d \in Doc, MongoSave(v, d)
  PROVE  /\ Durable(v, d)'
         /\ \A w \in Video : mongo[w] # NoDoc => mongo'[w] # NoDoc
         /\ \A w \in Video : mongo[w] # NoDoc /\ mongo[w].wave => mongo'[w].wave
<1>1. mongo' = [mongo EXCEPT ![v] = Saved(mongo[v], d)] /\ Saved(mongo[v], d) \in Doc
  BY SavedIsSong DEF MongoSave, TypeOK
<1>2. Saved(mongo[v], d) # NoDoc
  BY <1>1, NoDocAssumption
<1>3. d.wave => Saved(mongo[v], d).wave
  BY DEF Saved
<1>4. mongo[v] # NoDoc /\ mongo[v].wave => Saved(mongo[v], d).wave
  BY DEF Saved
<1> QED BY <1>1, <1>2, <1>3, <1>4 DEF TypeOK, Durable

\* What a step caches or answers is in Mongo by then.
LEMMA DurableStep ==
  ASSUME TypeOK, SongInHand, DurableInv, NEW r \in Req, Step(r)
  PROVE  DurableInv'
<1> USE DEF TypeOK, SongInHand, DurableInv, CacheNotAhead, Durable, Saved, Recorded,
        WithSong, Backfilling, Doc, reqVars, storeVars, semVars, hostVars
<1>1. CASE CacheGet(r)
  BY <1>1 DEF CacheGet, Goto, Move
<1>2. CASE MongoGet(r)
  BY <1>2 DEF MongoGet, Goto, Move, Answer
<1>3. CASE CacheFill(r)
  BY <1>3 DEF CacheFill, CacheSet, Goto, Move
<1>4. CASE S3Has(r)
  BY <1>4 DEF S3Has, Goto, Move, Answer
<1>5. CASE YtInfo(r)
  BY <1>5 DEF YtInfo, Move, Answer
<1>6. CASE SaveFound(r)
  <2>1. doc[r] \in Doc /\ vid[r] \in Video /\ redis' = redis /\ vid' = vid
    BY <1>6 DEF SaveFound, Goto, Move, Answer
  <2>2. CASE MongoSave(vid[r], doc[r])
    <3>1. /\ mongo'[vid[r]] # NoDoc
          /\ doc[r].wave => mongo'[vid[r]].wave
          /\ \A w \in Video : mongo[w] # NoDoc => mongo'[w] # NoDoc
          /\ \A w \in Video : mongo[w] # NoDoc /\ mongo[w].wave => mongo'[w].wave
      BY <2>1, <2>2, SaveEnriches
    <3>2. CacheNotAhead'
      BY <2>1, <3>1
    <3>3. ASSUME NEW q \in Req, q # r
          PROVE  /\ pc'[q] \in Recorded \/ status'[q] = 200 => Durable(vid[q], doc[q])'
                 /\ pc'[q] = "wf_save" => mongo'[vid[q]] # NoDoc
      BY <1>6, <2>1, <3>1, <3>3 DEF SaveFound, Goto, Move, Answer
    <3>4. /\ pc'[r] \in Recorded \/ status'[r] = 200 => Durable(vid[r], doc[r])'
          /\ pc'[r] # "wf_save"
      BY <1>6, <2>1, <3>1 DEF SaveFound, Goto, Move, Answer
    <3> QED BY <2>1, <3>2, <3>3, <3>4
  <2>3. CASE UNCHANGED mongo /\ Answer(r, 500)
    BY <1>6, <2>1, <2>3, NoDocAssumption DEF SaveFound, Move, Answer
  <2> QED BY <1>6, <2>2, <2>3 DEF SaveFound, MongoSaveFails
<1>7. CASE CacheFound(r)
  BY <1>7 DEF CacheFound, CacheSet, Goto, Move
<1>8. CASE Mkdtemp(r)
  BY <1>8 DEF Mkdtemp, Goto, Move, Answer
<1>9. CASE Acquire(r)
  BY <1>9 DEF Acquire, Goto, Move, CleanUp
<1>10. CASE YtDlp(r)
  BY <1>10 DEF YtDlp, Goto, Move, CleanUp
<1>11. CASE Ffmpeg(r)
  BY <1>11 DEF Ffmpeg, Goto, Move, CleanUp
<1>12. CASE S3Put(r)
  BY <1>12 DEF S3Put, Move, CleanUp
<1>13. CASE Save(r)
  <2>1. doc[r] \in Doc /\ vid[r] \in Video /\ redis' = redis /\ vid' = vid
    BY <1>13 DEF Save, Goto, Move, CleanUp
  <2>2. CASE MongoSave(vid[r], doc[r])
    <3>1. /\ mongo'[vid[r]] # NoDoc
          /\ doc[r].wave => mongo'[vid[r]].wave
          /\ \A w \in Video : mongo[w] # NoDoc => mongo'[w] # NoDoc
          /\ \A w \in Video : mongo[w] # NoDoc /\ mongo[w].wave => mongo'[w].wave
      BY <2>1, <2>2, SaveEnriches
    <3>2. CacheNotAhead'
      BY <2>1, <3>1
    <3>3. ASSUME NEW q \in Req, q # r
          PROVE  /\ pc'[q] \in Recorded \/ status'[q] = 200 => Durable(vid[q], doc[q])'
                 /\ pc'[q] = "wf_save" => mongo'[vid[q]] # NoDoc
      BY <1>13, <2>1, <3>1, <3>3 DEF Save, Goto, Move, CleanUp
    <3>4. /\ pc'[r] \in Recorded \/ status'[r] = 200 => Durable(vid[r], doc[r])'
          /\ pc'[r] # "wf_save"
      BY <1>13, <2>1, <3>1 DEF Save, Goto, Move, CleanUp
    <3> QED BY <2>1, <3>2, <3>3, <3>4
  <2>3. CASE UNCHANGED mongo /\ CleanUp(r, 500)
    BY <1>13, <2>1, <2>3, NoDocAssumption DEF Save, Move, CleanUp
  <2> QED BY <1>13, <2>2, <2>3 DEF Save, MongoSaveFails
<1>14. CASE CacheSong(r)
  BY <1>14 DEF CacheSong, CacheSet, Move, CleanUp
<1>15. CASE RemoveDir(r)
  BY <1>15 DEF RemoveDir, Move, Answer
<1>16. CASE WithWaveform(r)
  BY <1>16 DEF WithWaveform, Goto, Move, Answer
<1>17. CASE WfAcquire(r)
  BY <1>17 DEF WfAcquire, Goto, Move
<1>18. CASE WfS3Get(r)
  BY <1>18 DEF WfS3Get, Goto, Move, GiveUp
<1>19. CASE WfFfmpeg(r)
  BY <1>19 DEF WfFfmpeg, Move, GiveUp
<1>20. CASE WfSave(r)
  <2>1. doc[r] \in Doc /\ vid[r] \in Video /\ redis' = redis /\ vid' = vid
    BY <1>20 DEF WfSave, Goto, Move, GiveUp
  <2>2. CASE MongoSave(vid[r], doc[r])
    <3>1. /\ mongo'[vid[r]] # NoDoc
          /\ doc[r].wave => mongo'[vid[r]].wave
          /\ \A w \in Video : mongo[w] # NoDoc => mongo'[w] # NoDoc
          /\ \A w \in Video : mongo[w] # NoDoc /\ mongo[w].wave => mongo'[w].wave
      BY <2>1, <2>2, SaveEnriches
    <3>2. CacheNotAhead'
      BY <2>1, <3>1
    <3>3. ASSUME NEW q \in Req, q # r
          PROVE  /\ pc'[q] \in Recorded \/ status'[q] = 200 => Durable(vid[q], doc[q])'
                 /\ pc'[q] = "wf_save" => mongo'[vid[q]] # NoDoc
      BY <1>20, <2>1, <3>1, <3>3 DEF WfSave, Goto, Move, GiveUp
    <3>4. /\ pc'[r] \in Recorded \/ status'[r] = 200 => Durable(vid[r], doc[r])'
          /\ pc'[r] # "wf_save"
      BY <1>20, <2>1, <3>1 DEF WfSave, Goto, Move, GiveUp
    <3> QED BY <2>1, <3>2, <3>3, <3>4
  <2>3. CASE UNCHANGED mongo /\ GiveUp(r)
    BY <1>20, <2>1, <2>3, NoDocAssumption DEF WfSave, Move, GiveUp
  <2> QED BY <1>20, <2>2, <2>3 DEF WfSave, MongoSaveFails
<1>21. CASE WfCache(r)
  BY <1>21 DEF WfCache, CacheSet, Goto, Move
<1>22. CASE WfRemoveDir(r)
  BY <1>22 DEF WfRemoveDir, Move, Answer
<1> QED
  BY <1>1, <1>2, <1>3, <1>4, <1>5, <1>6, <1>7, <1>8, <1>9, <1>10, <1>11, <1>12, <1>13, <1>14, <1>15, <1>16, <1>17, <1>18, <1>19, <1>20, <1>21, <1>22
  DEF Step, Lookup, Found, Fresh, Backfill

\* Without resets Mongo holds what each stage says of the song in hand.
LEMMA DurableInvariant ==
  ASSUME "reset" \notin Faults
  PROVE  Spec => []DurableInv
<1>1. Init => DurableInv
  BY DEF Init, DurableInv, CacheNotAhead, Recorded, Backfilling
<1>2. TypeInv /\ DurableInv /\ [Next]_vars => DurableInv'
  <2> SUFFICES ASSUME TypeInv, DurableInv, [Next]_vars PROVE DurableInv'
    OBVIOUS
  <2> USE DEF DurableInv, CacheNotAhead, Durable, Recorded, Backfilling,
          reqVars, storeVars, semVars, hostVars
  <2>1. ASSUME NEW r \in Req, Step(r) PROVE DurableInv'
    BY <2>1, DurableStep DEF TypeInv
  <2>2. ASSUME NEW r \in Req, NEW v \in Video, Arrive(r, v) PROVE DurableInv'
    BY <2>2 DEF Arrive, TypeInv, TypeOK
  <2>3. ASSUME NEW r \in Req, Abandon(r) PROVE DurableInv'
    BY <2>3 DEF Abandon, Move, TypeInv, TypeOK
  <2>4. ASSUME NEW k \in {"job", "info"}, OrphanExits(k) PROVE DurableInv'
    BY <2>4 DEF OrphanExits
  <2>5. ASSUME NEW v \in Video, RedisExpire(v) PROVE DurableInv'
    BY <2>5 DEF RedisExpire, TypeInv, TypeOK
  <2>6. CASE RedisBreaks
    BY <2>6 DEF RedisBreaks
  <2>7. CASE Crash
    BY <2>7 DEF Crash
  <2>8. CASE UNCHANGED vars
    BY <2>8 DEF vars
  <2> QED
    BY <2>1, <2>2, <2>3, <2>4, <2>5, <2>6, <2>7, <2>8
    DEF Next, Environment, Cancel, Panic, MongoReset, May
<1> QED BY <1>1, <1>2, TypeInvariant, PTL DEF Spec

\* As long as the database is not emptied under the service, the cache shows
\* nothing that Mongo lacks, however saves fail and requests overtake one
\* another.
THEOREM CacheIsNeverAhead ==
  ASSUME "reset" \notin Faults
  PROVE  Spec => []CacheNotAhead
<1>1. DurableInv => CacheNotAhead
  BY DEF DurableInv
<1> QED BY <1>1, DurableInvariant, PTL

\* Nor does an answer tell anything that Mongo lacks: a save that fails is an
\* error, on the fresh path and on the path of an MP3 without a record.
THEOREM AnswersAreKept ==
  ASSUME "reset" \notin Faults
  PROVE  Spec => []AnswersAreDurable
<1>1. DurableInv => AnswersAreDurable
  BY DEF DurableInv, AnswersAreDurable, Answered
<1> QED BY <1>1, DurableInvariant, PTL

-----------------------------------------------------------------------------
(* Resolver implements SongStore *)

Saving == {"save_found", "save", "wf_save"}
Filling == {"cache_fill", "cache_found", "cache_set", "wf_cache"}

\* What a step of request r shows of itself: nothing, an upload, a save, a song
\* cached, an answer.
Shows(r) ==
  /\ vid' = vid /\ pc[r] # "idle"
  /\ \/ UNCHANGED <<s3, mongo, redis>> /\ ~Answered(r)'
     \/ s3' = s3 \cup {vid[r]} /\ pc[r] = "s3_put"
          /\ UNCHANGED <<mongo, redis>> /\ ~Answered(r)'
     \/ MongoSave(vid[r], doc[r]) /\ pc[r] \in Saving
          /\ UNCHANGED <<s3, redis>> /\ ~Answered(r)'
     \/ redis' = [redis EXCEPT ![vid[r]] = doc[r]] /\ pc[r] \in Filling
          /\ UNCHANGED <<s3, mongo>> /\ ~Answered(r)'
     \/ UNCHANGED <<s3, mongo, redis>> /\ Answered(r)' /\ doc'[r] = doc[r]
          /\ (pc[r] \in Recorded \/ status[r] = 200)

\* Every step shows the abstract store one of these five things.
LEMMA StepShows ==
  ASSUME TypeOK, SongInHand, NEW r \in Req, Step(r)
  PROVE  Shows(r)
<1> USE DEF Shows, TypeOK, SongInHand, Answered, Recorded, Saving, Filling, WithSong, Backfilling,
        reqVars, storeVars, semVars, hostVars
<1>1. CASE CacheGet(r)
  BY <1>1 DEF CacheGet, Goto, Move
<1>2. CASE MongoGet(r)
  BY <1>2 DEF MongoGet, Goto, Move, Answer
<1>3. CASE CacheFill(r)
  BY <1>3 DEF CacheFill, CacheSet, Goto, Move
<1>4. CASE S3Has(r)
  BY <1>4 DEF S3Has, Goto, Move, Answer
<1>5. CASE YtInfo(r)
  BY <1>5 DEF YtInfo, Move, Answer
<1>6. CASE SaveFound(r)
  BY <1>6 DEF SaveFound, MongoSave, MongoSaveFails, Goto, Move, Answer
<1>7. CASE CacheFound(r)
  BY <1>7 DEF CacheFound, CacheSet, Goto, Move
<1>8. CASE Mkdtemp(r)
  BY <1>8 DEF Mkdtemp, Goto, Move, Answer
<1>9. CASE Acquire(r)
  BY <1>9 DEF Acquire, Goto, Move, CleanUp
<1>10. CASE YtDlp(r)
  BY <1>10 DEF YtDlp, Goto, Move, CleanUp
<1>11. CASE Ffmpeg(r)
  BY <1>11 DEF Ffmpeg, Goto, Move, CleanUp
<1>12. CASE S3Put(r)
  BY <1>12 DEF S3Put, Move, CleanUp
<1>13. CASE Save(r)
  BY <1>13 DEF Save, MongoSave, MongoSaveFails, Goto, Move, CleanUp
<1>14. CASE CacheSong(r)
  BY <1>14 DEF CacheSong, CacheSet, Move, CleanUp
<1>15. CASE RemoveDir(r)
  BY <1>15 DEF RemoveDir, Move, Answer
<1>16. CASE WithWaveform(r)
  BY <1>16 DEF WithWaveform, Goto, Move, Answer
<1>17. CASE WfAcquire(r)
  BY <1>17 DEF WfAcquire, Goto, Move
<1>18. CASE WfS3Get(r)
  BY <1>18 DEF WfS3Get, Goto, Move, GiveUp
<1>19. CASE WfFfmpeg(r)
  BY <1>19 DEF WfFfmpeg, Move, GiveUp
<1>20. CASE WfSave(r)
  BY <1>20 DEF WfSave, MongoSave, MongoSaveFails, Goto, Move, GiveUp
<1>21. CASE WfCache(r)
  BY <1>21 DEF WfCache, CacheSet, Goto, Move
<1>22. CASE WfRemoveDir(r)
  BY <1>22 DEF WfRemoveDir, Move, Answer
<1> QED
  BY <1>1, <1>2, <1>3, <1>4, <1>5, <1>6, <1>7, <1>8, <1>9, <1>10, <1>11, <1>12, <1>13, <1>14, <1>15, <1>16, <1>17, <1>18, <1>19, <1>20, <1>21, <1>22
  DEF Step, Lookup, Found, Fresh, Backfill

\* Richness tells no record, one without a waveform and one with it.
LEMMA RichnessOrder ==
  /\ Richness(NoDoc) = 0
  /\ \A d \in Doc : Richness(d) \in {1, 2}
  /\ \A d \in Doc, e \in Doc : Richness(d) <= Richness(e) <=> (d.wave => e.wave)
<1>1. \A d \in Doc : d.wave \in BOOLEAN /\ d # NoDoc
  BY NoDocAssumption DEF Doc
<1> QED BY <1>1 DEF Richness

\* An upsert leaves the richer of the record and the song.
LEMMA SavedRichness ==
  ASSUME NEW old \in Doc \cup {NoDoc}, NEW d \in Doc
  PROVE  Richness(Saved(old, d))
           = IF Richness(d) > Richness(old) THEN Richness(d) ELSE Richness(old)
<1>1. Saved(old, d) \in Doc /\ d.wave \in BOOLEAN
  BY SavedIsSong DEF Doc
<1>2. Saved(old, d).wave = (d.wave \/ (old # NoDoc /\ old.wave))
  BY DEF Saved
<1>3. old # NoDoc => old.wave \in BOOLEAN
  BY DEF Doc
<1> QED BY <1>1, <1>2, <1>3, NoDocAssumption DEF Richness

\* The answers after r has moved.
LEMMA AnswersAfter ==
  ASSUME TypeOK, NEW r \in Req, Moves(r), vid' = vid
  PROVE  AnswerTo' = [AnswerTo EXCEPT ![r] =
           IF Answered(r)' THEN <<vid[r], Richness(doc'[r])>> ELSE <<>>]
<1>1. \A q \in Req : q # r => /\ Answered(q)' = Answered(q)
                              /\ doc'[q] = doc[q]
  BY DEF TypeOK, Moves, Answered
<1> QED BY <1>1 DEF AnswerTo

\* What a step shows is a step of the abstract store.
LEMMA StepRefines ==
  ASSUME TypeInv, AudioInv, DurableInv, NEW r \in Req, Step(r)
  PROVE  Store!Next \/ UNCHANGED Store!vars
<1> DEFINE v == vid[r]
<1>1. Shows(r) /\ Moves(r)
  BY StepShows, StepMoves DEF TypeInv
<1>2. v \in Video /\ vid' = vid /\ AnswerTo[r] = <<>>
  BY <1>1 DEF TypeInv, TypeOK, Shows, AnswerTo, Answered
<1>3. AnswerTo' = [AnswerTo EXCEPT ![r] =
           IF Answered(r)' THEN <<v, Richness(doc'[r])>> ELSE <<>>]
  BY <1>1, <1>2, AnswersAfter DEF TypeInv
<1>4. ~Answered(r)' => AnswerTo' = AnswerTo
  BY <1>2, <1>3 DEF AnswerTo
<1>5. CASE UNCHANGED <<s3, mongo, redis>> /\ ~Answered(r)'
  BY <1>4, <1>5 DEF Store!vars, RecordOf, CacheOf
<1>6. CASE s3' = s3 \cup {v} /\ pc[r] = "s3_put" /\ UNCHANGED <<mongo, redis>> /\ ~Answered(r)'
  <2>1. Store!Upload(v)
    BY <1>4, <1>6 DEF Store!Upload, RecordOf, CacheOf
  <2> QED BY <1>2, <2>1 DEF Store!Next
<1>7. CASE /\ MongoSave(v, doc[r]) /\ pc[r] \in Saving
           /\ UNCHANGED <<s3, redis>> /\ ~Answered(r)'
  <2> DEFINE k == Richness(doc[r])
  <2>1. doc[r] \in Doc /\ v \in s3 /\ k \in {1, 2}
    BY <1>2, <1>7, RichnessOrder
    DEF TypeInv, TypeOK, SongInHand, Saving, WithSong, Backfilling, AudioInv, AudioBeforeRecord
  <2>2. mongo' = [mongo EXCEPT ![v] = Saved(mongo[v], doc[r])]
    BY <1>7 DEF MongoSave
  <2>3. Richness(Saved(mongo[v], doc[r]))
          = IF k > RecordOf[v] THEN k ELSE RecordOf[v]
    BY <1>2, <2>1, SavedRichness DEF TypeInv, TypeOK, RecordOf
  <2>4. RecordOf' = [RecordOf EXCEPT ![v] = IF k > @ THEN k ELSE @]
    BY <1>2, <2>2, <2>3 DEF TypeInv, TypeOK, RecordOf
  <2>5. Store!Record(v, k)
    BY <1>4, <1>7, <2>1, <2>4 DEF Store!Record, CacheOf
  <2> QED BY <1>2, <2>1, <2>5 DEF Store!Next, Store!Bare, Store!Waved
<1>8. CASE /\ redis' = [redis EXCEPT ![v] = doc[r]] /\ pc[r] \in Filling
           /\ UNCHANGED <<s3, mongo>> /\ ~Answered(r)'
  <2> DEFINE k == Richness(doc[r])
  <2>1. doc[r] \in Doc /\ mongo[v] \in Doc /\ (doc[r].wave => mongo[v].wave)
    BY <1>2, <1>8
    DEF TypeInv, TypeOK, SongInHand, WithSong, Backfilling, DurableInv, Durable,
        Recorded, Filling
  <2>2. k \in {1, 2} /\ k <= RecordOf[v]
    BY <1>2, <2>1, RichnessOrder DEF RecordOf
  <2>3. CacheOf' = [CacheOf EXCEPT ![v] = k]
    BY <1>2, <1>8 DEF TypeInv, TypeOK, CacheOf
  <2>4. Store!Cache(v, k)
    BY <1>4, <1>8, <2>2, <2>3 DEF Store!Cache, RecordOf
  <2> QED
    BY <1>2, <2>2, <2>4 DEF Store!Next, Store!Level, Store!None, Store!Bare, Store!Waved
<1>9. CASE /\ UNCHANGED <<s3, mongo, redis>> /\ Answered(r)' /\ doc'[r] = doc[r]
           /\ (pc[r] \in Recorded \/ status[r] = 200)
  <2> DEFINE k == Richness(doc[r])
  <2>1. doc[r] \in Doc /\ mongo[v] \in Doc /\ (doc[r].wave => mongo[v].wave)
    BY <1>2, <1>9
    DEF TypeInv, TypeOK, SongInHand, WithSong, DurableInv, Durable, Recorded
  <2>2. k \in {1, 2} /\ k <= RecordOf[v]
    BY <1>2, <2>1, RichnessOrder DEF RecordOf
  <2>3. Store!Answer(r, v, k)
    BY <1>3, <1>9, <2>2 DEF Store!Answer, RecordOf, CacheOf
  <2> QED BY <1>2, <2>2, <2>3 DEF Store!Next, Store!Bare, Store!Waved
<1> QED BY <1>1, <1>5, <1>6, <1>7, <1>8, <1>9 DEF Shows

\* The service is a store of songs: whatever fails, crashes or is abandoned, its
\* S3, Mongo, Redis and answers behave as SongStore does.  The database must not
\* be emptied under the service: a record would be lost.
THEOREM ResolverImplementsSongStore ==
  ASSUME "reset" \notin Faults
  PROVE  Spec => ImplementsSongStore
<1> USE DEF RecordOf, CacheOf, AnswerTo
<1>1. Init => Store!Init
  <2> SUFFICES ASSUME Init PROVE Store!Init
    OBVIOUS
  <2>1. RecordOf \in [Video -> {0, 1, 2}]
    BY DEF Richness
  <2>2. \A v \in Video : RecordOf[v] # 0 => v \in s3
    BY DEF Init, Richness
  <2>3. CacheOf = [v \in Video |-> 0]
    BY DEF Init, Richness
  <2>4. AnswerTo = [r \in Req |-> <<>>]
    BY DEF Init, Answered
  <2> QED
    BY <2>1, <2>2, <2>3, <2>4
    DEF Init, Store!Init, Store!Level, Store!None, Store!Waved, Store!NoAnswer
<1>2. TypeInv /\ AudioInv /\ DurableInv /\ [Next]_vars => [Store!Next]_(Store!vars)
  <2> SUFFICES ASSUME TypeInv, AudioInv, DurableInv, [Next]_vars
               PROVE  Store!Next \/ UNCHANGED Store!vars
    OBVIOUS
  <2>1. ASSUME NEW r \in Req, Step(r) PROVE Store!Next \/ UNCHANGED Store!vars
    BY <2>1, StepRefines
  <2>2. ASSUME NEW r \in Req, NEW v \in Video, Arrive(r, v)
        PROVE  Store!Next \/ UNCHANGED Store!vars
    <3>1. AnswerTo' = [AnswerTo EXCEPT ![r] = <<>>]
      BY <2>2 DEF Arrive, Answered, TypeInv, TypeOK
    <3>2. Store!Ask(r)
      BY <2>2, <3>1 DEF Store!Ask, Store!NoAnswer, Arrive, storeVars
    <3> QED BY <3>2 DEF Store!Next
  <2>3. ASSUME NEW r \in Req, pc[r] # "idle", Abandon(r)
        PROVE  Store!Next \/ UNCHANGED Store!vars
    <3>1. \A q \in Req : Answered(q)' = Answered(q) /\ (q # r => doc'[q] = doc[q])
      BY <2>3 DEF Abandon, Move, Answered, TypeInv, TypeOK
    <3>2. AnswerTo' = AnswerTo
      BY <2>3, <3>1 DEF Abandon, Move, Answered
    <3> QED BY <2>3, <3>2 DEF Abandon, Store!vars, storeVars
  <2>4. ASSUME NEW v \in Video, RedisExpire(v)
        PROVE  Store!Next \/ UNCHANGED Store!vars
    <3>1. CacheOf' = [CacheOf EXCEPT ![v] = 0] /\ AnswerTo' = AnswerTo
      BY <2>4 DEF RedisExpire, Richness, Answered, reqVars, TypeInv, TypeOK
    <3>2. 0 <= RecordOf[v]
      BY DEF Richness
    <3>3. Store!Cache(v, 0)
      BY <2>4, <3>1, <3>2 DEF Store!Cache, RedisExpire
    <3> QED BY <3>3 DEF Store!Next, Store!Level, Store!None, Store!Waved
  <2>5. CASE Crash
    <3>1. AnswerTo' = [r \in Req |-> <<>>]
      BY <2>5 DEF Crash, Answered
    <3> QED BY <2>5, <3>1 DEF Crash, Store!Next, Store!Restart, Store!NoAnswer
  <2>6. CASE RedisBreaks \/ (\E k \in {"job", "info"} : OrphanExits(k)) \/ UNCHANGED vars
    BY <2>6
    DEF RedisBreaks, OrphanExits, Store!vars, vars, reqVars, storeVars, Answered
  <2> QED
    BY <2>1, <2>2, <2>3, <2>4, <2>5, <2>6
    DEF Next, Environment, Cancel, Panic, MongoReset, May
<1> QED
  BY <1>1, <1>2, TypeInvariant, AudioInvariant, DurableInvariant, PTL
  DEF Spec, ImplementsSongStore, Store!Spec

-----------------------------------------------------------------------------
(* Records *)

\* A record is never lost, never loses its waveform and keeps its createdAt,
\* whatever upserts of whichever requests race, fail or come late.
THEOREM RecordsGrow ==
  ASSUME "reset" \notin Faults
  PROVE  Spec => RecordsOnlyGrow
<1> DEFINE Grows == \A v \in Video :
       mongo[v] # NoDoc => /\ mongo'[v] # NoDoc
                           /\ mongo[v].wave => mongo'[v].wave
                           /\ mongo'[v].createdAt = mongo[v].createdAt
<1>1. ASSUME TypeInv, NEW r \in Req, MongoSave(vid[r], doc[r]), doc[r] \in Doc
      PROVE  Grows
  <2>1. vid[r] \in Video
    BY <1>1 DEF TypeInv, TypeOK
  <2>2. mongo[vid[r]] # NoDoc
          => Saved(mongo[vid[r]], doc[r]).createdAt = mongo[vid[r]].createdAt
    BY DEF Saved
  <2> QED BY <1>1, <2>1, <2>2, SaveEnriches DEF TypeInv, TypeOK, MongoSave
<1>2. TypeInv /\ [Next]_vars => [Grows]_vars
  <2> SUFFICES ASSUME TypeInv, [Next]_vars PROVE Grows
    OBVIOUS
  <2>1. ASSUME NEW r \in Req, Step(r) PROVE Grows
    <3>1. Shows(r)
      BY <2>1, StepShows DEF TypeInv
    <3>2. CASE UNCHANGED mongo
      BY <3>2
    <3>3. CASE MongoSave(vid[r], doc[r]) /\ pc[r] \in Saving
      <4>1. doc[r] \in Doc
        BY <3>3 DEF TypeInv, TypeOK, SongInHand, Saving, WithSong, Backfilling
      <4> HIDE DEF Grows
      <4> QED BY <1>1, <3>3, <4>1
    <3> QED BY <3>1, <3>2, <3>3 DEF Shows
  <2>2. CASE UNCHANGED mongo
    BY <2>2
  <2> QED
    BY <2>1, <2>2
    DEF Next, Environment, Arrive, Cancel, Panic, Abandon, OrphanExits, RedisExpire,
        RedisBreaks, MongoReset, Crash, May, vars, storeVars
<1> QED BY <1>2, TypeInvariant, PTL DEF Spec, RecordsOnlyGrow

\* CreatedAtIsDate, and what makes it so: a song that may be inserted comes
\* straight from yt-dlp, with the ISO string that mongo_save reads; one that a
\* backfill saves has a record, whose createdAt stays.
DateInv ==
  /\ CreatedAtIsDate
  /\ \A r \in Req : pc[r] \in {"save_found", "save"} => doc[r].createdAt = "iso"

\* A new song brings an ISO string, which becomes a Date; a backfill finds one.
LEMMA DateStep ==
  ASSUME TypeInv, DurableInv, DateInv, NEW r \in Req, Step(r)
  PROVE  DateInv'
<1>1. Moves(r) /\ Shows(r) /\ Flow(pc[r], pc'[r], status[r], status'[r])
  BY StepMoves, StepShows, StepFlows DEF TypeInv
<1>2. pc'[r] \in {"save_found", "save"} => doc'[r].createdAt = "iso"
  <2>1. CASE pc[r] = "yt_info"
    BY <2>1, StepAt DEF YtInfo, Move, Answer, TypeInv, TypeOK
  <2>2. CASE pc[r] = "s3_put"
    BY <2>2, StepAt DEF S3Put, Move, CleanUp, TypeInv, TypeOK
  <2> QED BY <1>1, <2>1, <2>2 DEF Flow, Edge
<1>3. CreatedAtIsDate'
  <2>1. CASE UNCHANGED mongo
    BY <2>1 DEF DateInv, CreatedAtIsDate
  <2>2. CASE MongoSave(vid[r], doc[r]) /\ pc[r] \in Saving
    <3>1. vid[r] \in Video
      BY DEF TypeInv, TypeOK
    <3>2. mongo[vid[r]] # NoDoc \/ doc[r].createdAt = "iso"
      BY <2>2 DEF Saving, DurableInv, DateInv
    <3>3. Saved(mongo[vid[r]], doc[r]).createdAt = "date"
      BY <3>1, <3>2 DEF Saved, DateInv, CreatedAtIsDate
    <3> QED BY <2>2, <3>1, <3>3 DEF MongoSave, DateInv, CreatedAtIsDate, TypeInv, TypeOK
  <2> QED BY <1>1, <2>1, <2>2 DEF Shows
<1> QED BY <1>1, <1>2, <1>3 DEF DateInv, Moves, TypeInv, TypeOK

\* createdAt is a Date in every record, whichever path inserts it, also when an
\* insert races a read of the same video.  An emptied database breaks it: a
\* backfill then inserts the extended JSON it has read before.
THEOREM CreatedAtStaysDate ==
  ASSUME "reset" \notin Faults
  PROVE  Spec => []CreatedAtIsDate
<1>1. Init => DateInv
  <2> SUFFICES ASSUME Init PROVE DateInv
    OBVIOUS
  <2>1. \A v \in Video : mongo[v] # NoDoc => mongo[v] \in [wave: BOOLEAN, createdAt: {"date"}]
    BY DEF Init
  <2> QED BY <2>1 DEF Init, DateInv, CreatedAtIsDate
<1>2. TypeInv /\ DurableInv /\ DateInv /\ [Next]_vars => DateInv'
  <2> SUFFICES ASSUME TypeInv, DurableInv, DateInv, [Next]_vars PROVE DateInv'
    OBVIOUS
  <2>1. ASSUME NEW r \in Req, Step(r) PROVE DateInv'
    BY <2>1, DateStep
  <2>2. ASSUME NEW r \in Req, NEW v \in Video, Arrive(r, v) PROVE DateInv'
    BY <2>2 DEF Arrive, DateInv, CreatedAtIsDate, storeVars, TypeInv, TypeOK
  <2>3. ASSUME NEW r \in Req, Abandon(r) PROVE DateInv'
    BY <2>3 DEF Abandon, Move, DateInv, CreatedAtIsDate, storeVars, TypeInv, TypeOK
  <2>4. CASE Crash
    BY <2>4 DEF Crash, DateInv, CreatedAtIsDate
  <2>5. CASE UNCHANGED <<pc, doc, mongo>>
    BY <2>5 DEF DateInv, CreatedAtIsDate
  <2> QED
    BY <2>1, <2>2, <2>3, <2>4, <2>5
    DEF Next, Environment, Cancel, Panic, OrphanExits, RedisExpire, RedisBreaks,
        MongoReset, May, vars, reqVars, storeVars
<1>3. DateInv => CreatedAtIsDate
  BY DEF DateInv
<1> QED BY <1>1, <1>2, <1>3, TypeInvariant, DurableInvariant, PTL DEF Spec
=============================================================================
