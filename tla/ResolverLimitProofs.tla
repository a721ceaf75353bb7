------------------------ MODULE ResolverLimitProofs ------------------------
(***************************************************************************)
(* What Resolver proves of the semaphore's queue, of its limits (jobs,     *)
(* work directories, refused videos), of the calls that must not fail a    *)
(* request, and of a service in which nothing fails.                       *)
(***************************************************************************)
EXTENDS ResolverProofs

-----------------------------------------------------------------------------
(* The queue of the semaphore *)

\* ahead is a strict order of arrival among the requests that wait, and of
\* nobody else.
QueueInv ==
  /\ \A r \in Req : ahead[r] \subseteq At(Queueing) \ {r}
  /\ \A r \in Req : pc[r] \notin Queueing => ahead[r] = {}
  /\ \A r \in Req, q \in Req : q \in ahead[r] => ahead[q] \subseteq ahead[r]
  /\ \A r \in At(Queueing), q \in At(Queueing) :
       r = q \/ q \in ahead[r] \/ r \in ahead[q]

\* A step of r, or its end, as the semaphore sees it: r joins the queue at the
\* end, is no longer in it, or was and is outside.
Joins(r) == /\ pc[r] \notin Queueing /\ pc'[r] \in Queueing
            /\ ahead' = [ahead EXCEPT ![r] = At(Queueing)]

Leaves(r) == /\ pc'[r] \notin Queueing
             /\ ahead' = [q \in Req |-> IF q = r THEN {} ELSE ahead[q] \ {r}]

Passes(r) == pc[r] \notin Queueing /\ pc'[r] \notin Queueing /\ ahead' = ahead

Queues(r) == /\ pc' = [pc EXCEPT ![r] = pc'[r]]
             /\ Joins(r) \/ Leaves(r) \/ Passes(r)

\* A waiter at the head that gets its permit leaves the queue as any other does.
LEMMA GrantLeaves ==
  ASSUME TypeOK, NEW r \in Req, ahead[r] = {},
         ahead' = [q \in Req |-> ahead[q] \ {r}]
  PROVE  ahead' = [q \in Req |-> IF q = r THEN {} ELSE ahead[q] \ {r}]
OBVIOUS

\* Every step of a request joins the queue, leaves it or does not touch it.
LEMMA StepQueues ==
  ASSUME TypeOK, NEW r \in Req, Step(r)
  PROVE  Queues(r)
<1> USE DEF TypeOK, Queues, Joins, Leaves, Passes, Queueing,
        reqVars, storeVars, semVars, hostVars
<1>1. CASE CacheGet(r)
  BY <1>1 DEF CacheGet, Goto, Move
<1>2. CASE MongoGet(r)
  BY <1>2 DEF MongoGet, Goto, Move, Answer
<1>3. CASE CacheFill(r)
  BY <1>3 DEF CacheFill, Goto, Move
<1>4. CASE S3Has(r)
  BY <1>4 DEF S3Has, Goto, Move, Answer
<1>5. CASE YtInfo(r)
  BY <1>5 DEF YtInfo, Move, Answer
<1>6. CASE SaveFound(r)
  BY <1>6 DEF SaveFound, Goto, Move, Answer
<1>7. CASE CacheFound(r)
  BY <1>7 DEF CacheFound, Goto, Move
<1>8. CASE Mkdtemp(r)
  BY <1>8 DEF Mkdtemp, Goto, Move, Answer, Enqueue
<1>9. CASE Acquire(r)
  <2>1. ahead[r] = {} /\ ahead' = [q \in Req |-> ahead[q] \ {r}]
    BY <1>9 DEF Acquire, Granted
  <2>2. ahead' = [q \in Req |-> IF q = r THEN {} ELSE ahead[q] \ {r}]
    BY <2>1, GrantLeaves
  <2>3. pc' = [pc EXCEPT ![r] = pc'[r]] /\ pc'[r] \in {"yt_dlp", "rmrf"}
    BY <1>9 DEF Acquire, Goto, Move, CleanUp
  <2> QED BY <2>2, <2>3
<1>10. CASE YtDlp(r)
  BY <1>10 DEF YtDlp, Goto, Move, CleanUp, Release
<1>11. CASE Ffmpeg(r)
  BY <1>11 DEF Ffmpeg, Goto, Move, CleanUp, Release
<1>12. CASE S3Put(r)
  BY <1>12 DEF S3Put, Move, CleanUp, Release
<1>13. CASE Save(r)
  BY <1>13 DEF Save, Goto, Move, CleanUp
<1>14. CASE CacheSong(r)
  BY <1>14 DEF CacheSong, Move, CleanUp
<1>15. CASE RemoveDir(r)
  BY <1>15 DEF RemoveDir, Move, Answer
<1>16. CASE WithWaveform(r)
  BY <1>16 DEF WithWaveform, Goto, Move, Answer, Enqueue
<1>17. CASE WfAcquire(r)
  <2>1. ahead[r] = {} /\ ahead' = [q \in Req |-> ahead[q] \ {r}]
    BY <1>17 DEF WfAcquire, Granted
  <2>2. ahead' = [q \in Req |-> IF q = r THEN {} ELSE ahead[q] \ {r}]
    BY <2>1, GrantLeaves
  <2>3. pc' = [pc EXCEPT ![r] = pc'[r]] /\ pc'[r] = "wf_s3_get"
    BY <1>17 DEF WfAcquire, Goto, Move
  <2> QED BY <2>2, <2>3
<1>18. CASE WfS3Get(r)
  BY <1>18 DEF WfS3Get, Goto, Move, GiveUp, Release
<1>19. CASE WfFfmpeg(r)
  BY <1>19 DEF WfFfmpeg, Move, GiveUp, Release
<1>20. CASE WfSave(r)
  BY <1>20 DEF WfSave, Goto, Move, GiveUp, Release
<1>21. CASE WfCache(r)
  BY <1>21 DEF WfCache, Goto, Move, Release
<1>22. CASE WfRemoveDir(r)
  BY <1>22 DEF WfRemoveDir, Move, Answer
<1> QED
  BY <1>1, <1>2, <1>3, <1>4, <1>5, <1>6, <1>7, <1>8, <1>9, <1>10, <1>11, <1>12, <1>13, <1>14, <1>15, <1>16, <1>17, <1>18, <1>19, <1>20, <1>21, <1>22
  DEF Step, Lookup, Found, Fresh, Backfill

\* Joining, leaving and passing by keep the order of arrival.
LEMMA QueueStep ==
  ASSUME TypeOK, QueueInv, NEW r \in Req, Queues(r)
  PROVE  QueueInv'
<1>0. \A q \in Req : q # r => pc'[q] = pc[q]
  BY DEF TypeOK, Queues
<1>1. CASE Joins(r)
  <2>1. At(Queueing)' = At(Queueing) \cup {r} /\ r \notin At(Queueing)
    BY <1>0, <1>1 DEF Joins, At
  <2>2. ahead'[r] = At(Queueing) /\ \A q \in Req : q # r => ahead'[q] = ahead[q]
    BY <1>1 DEF Joins, TypeOK
  <2>3. \A q \in Req : r \notin ahead[q] /\ ahead[q] \subseteq At(Queueing) \ {q}
    BY <2>1 DEF QueueInv
  <2> QED BY <1>0, <1>1, <2>1, <2>2, <2>3 DEF QueueInv, Joins, At
<1>2. CASE Leaves(r)
  <2>1. At(Queueing)' = At(Queueing) \ {r}
    BY <1>0, <1>2 DEF Leaves, At
  <2>2. ahead'[r] = {} /\ \A q \in Req : q # r => ahead'[q] = ahead[q] \ {r}
    BY <1>2 DEF Leaves
  <2> QED BY <1>0, <1>2, <2>1, <2>2 DEF QueueInv, Leaves, At
<1>3. CASE Passes(r)
  <2>1. At(Queueing)' = At(Queueing)
    BY <1>0, <1>3 DEF Passes, At
  <2> QED BY <1>0, <1>3, <2>1 DEF QueueInv, Passes
<1> QED BY <1>1, <1>2, <1>3 DEF Queues

\* The queue stays an order of arrival, whoever leaves it and how.
LEMMA QueueInvariant == Spec => []QueueInv
<1>1. Init => QueueInv
  BY DEF Init, QueueInv, At, Queueing
<1>2. TypeInv /\ QueueInv /\ [Next]_vars => QueueInv'
  <2> SUFFICES ASSUME TypeInv, QueueInv, [Next]_vars PROVE QueueInv'
    OBVIOUS
  <2>0. TypeOK
    BY DEF TypeInv
  <2>1. ASSUME NEW r \in Req, Step(r) PROVE QueueInv'
    BY <2>0, <2>1, StepQueues, QueueStep
  <2>2. ASSUME NEW r \in Req, NEW v \in Video, Arrive(r, v) PROVE QueueInv'
    <3>1. Queues(r)
      BY <2>0, <2>2 DEF Arrive, Queues, Passes, TypeOK, Queueing, semVars
    <3> QED BY <2>0, <3>1, QueueStep
  <2>3. ASSUME NEW r \in Req, Abandon(r) PROVE QueueInv'
    <3>1. Queues(r)
      BY <2>0, <2>3 DEF Abandon, Move, Queues, Leaves, TypeOK, Queueing
    <3> QED BY <2>0, <3>1, QueueStep
  <2>4. CASE Crash
    BY <2>4 DEF Crash, QueueInv, At, Queueing
  <2>5. CASE UNCHANGED <<pc, ahead>>
    BY <2>5 DEF QueueInv, At
  <2> QED
    BY <2>1, <2>2, <2>3, <2>4, <2>5
    DEF Next, Environment, Cancel, Panic, OrphanExits, RedisExpire, RedisBreaks,
        MongoReset, vars, reqVars, semVars
<1> QED BY <1>1, <1>2, TypeInvariant, PTL DEF Spec

\* In a queue that QueueInv describes somebody is first.
LEMMA HeadExists ==
  ASSUME TypeOK, QueueInv, At(Queueing) # {}
  PROVE  \E r \in At(Queueing) : ahead[r] = {}
<1> DEFINE Q == At(Queueing)
           T == {ahead[r] : r \in Q}
<1>1. Q \subseteq Req /\ T \subseteq SUBSET Req /\ T # {}
  BY DEF At, TypeOK
<1>2. IsWellFoundedOn(StrictSubsetOrdering(Req), SUBSET Req)
  BY FS_StrictSubsetOrderingWellFounded, FS_FiniteSubsetsOfFinite, ReqAssumption
<1>3. PICK A \in T : \A B \in T : ~(<<B, A>> \in StrictSubsetOrdering(Req))
  <2> HIDE DEF T
  <2> QED BY <1>1, <1>2, WFMin
<1>4. PICK r \in Q : A = ahead[r]
  OBVIOUS
<1>5. ASSUME NEW q \in ahead[r] PROVE FALSE
  <2>1. q \in Q /\ q \in Req /\ r \in Req
    BY <1>1, <1>5 DEF QueueInv
  <2>2. ahead[q] \in SUBSET Req /\ ahead[r] \in SUBSET Req
    BY <2>1 DEF TypeOK
  <2>3. ahead[q] \subseteq ahead[r] /\ q \notin ahead[q]
    BY <1>5, <2>1 DEF QueueInv
  <2>4. <<ahead[q], A>> \in StrictSubsetOrdering(Req)
    BY <1>4, <1>5, <2>2, <2>3 DEF StrictSubsetOrdering
  <2> QED BY <1>3, <2>1, <2>4
<1> QED BY <1>4, <1>5

\* The semaphore never stalls: while anybody waits somebody is at the head, and
\* nobody waits for a request that has gone, however requests are dropped,
\* panic or die with the process while they wait.
THEOREM QueueNeverStalls == Spec => []QueueHasHead
<1>1. TypeOK /\ QueueInv => QueueHasHead
  BY HeadExists DEF QueueHasHead, QueueInv
<1> QED BY <1>1, QueueInvariant, TypeCorrect, PTL

\* At most one request can be handed the next permit: the order in which they
\* came decides, never a race of two waiters.
THEOREM OneHead ==
  Spec => [](\A r \in At(Queueing), q \in At(Queueing) :
               ahead[r] = {} /\ ahead[q] = {} => r = q)
<1>1. QueueInv => \A r \in At(Queueing), q \in At(Queueing) :
                    ahead[r] = {} /\ ahead[q] = {} => r = q
  BY DEF QueueInv
<1> QED BY <1>1, QueueInvariant, PTL

-----------------------------------------------------------------------------
(* Jobs and work directories *)

\* What a step of r does to the processes nobody waits for, nothing unless a
\* killed yt-dlp leaves one behind, and to the directories, as long as removals
\* work.
LEMMA StepHost ==
  ASSUME TypeOK, NEW r \in Req, Step(r)
  PROVE  /\ "leftover" \notin Faults => orphans' = orphans
         /\ "disk" \notin Faults
              => dirs' = dirs + In(pc'[r], Owning) - In(pc[r], Owning)
<1> USE LimitAssumption
    DEF TypeOK, In, Owning, Holding, Queueing, May, hostVars
<1>1. CASE CacheGet(r)
  BY <1>1 DEF CacheGet, Goto, Move
<1>2. CASE MongoGet(r)
  BY <1>2 DEF MongoGet, Goto, Move, Answer
<1>3. CASE CacheFill(r)
  BY <1>3 DEF CacheFill, Goto, Move
<1>4. CASE S3Has(r)
  BY <1>4 DEF S3Has, Goto, Move, Answer
<1>5. CASE YtInfo(r)
  BY <1>5 DEF YtInfo, Move, Answer, LeavesBehind
<1>6. CASE SaveFound(r)
  BY <1>6 DEF SaveFound, Goto, Move, Answer
<1>7. CASE CacheFound(r)
  BY <1>7 DEF CacheFound, Goto, Move
<1>8. CASE Mkdtemp(r)
  BY <1>8 DEF Mkdtemp, Mkdir, MkdirFails, Goto, Move, Answer
<1>9. CASE Acquire(r)
  BY <1>9 DEF Acquire, Goto, Move, CleanUp
<1>10. CASE YtDlp(r)
  BY <1>10 DEF YtDlp, Goto, Move, CleanUp, LeavesBehind
<1>11. CASE Ffmpeg(r)
  BY <1>11 DEF Ffmpeg, Goto, Move, CleanUp
<1>12. CASE S3Put(r)
  BY <1>12 DEF S3Put, Move, CleanUp
<1>13. CASE Save(r)
  BY <1>13 DEF Save, Goto, Move, CleanUp
<1>14. CASE CacheSong(r)
  BY <1>14 DEF CacheSong, Move, CleanUp
<1>15. CASE RemoveDir(r)
  BY <1>15 DEF RemoveDir, Rmrf, Move, Answer
<1>16. CASE WithWaveform(r)
  BY <1>16 DEF WithWaveform, Mkdir, MkdirFails, Goto, Move, Answer
<1>17. CASE WfAcquire(r)
  BY <1>17 DEF WfAcquire, Goto, Move
<1>18. CASE WfS3Get(r)
  BY <1>18 DEF WfS3Get, Goto, Move, GiveUp
<1>19. CASE WfFfmpeg(r)
  BY <1>19 DEF WfFfmpeg, Move, GiveUp
<1>20. CASE WfSave(r)
  BY <1>20 DEF WfSave, Goto, Move, GiveUp
<1>21. CASE WfCache(r)
  BY <1>21 DEF WfCache, Goto, Move
<1>22. CASE WfRemoveDir(r)
  BY <1>22 DEF WfRemoveDir, Rmrf, Move, Answer
<1> QED
  BY <1>1, <1>2, <1>3, <1>4, <1>5, <1>6, <1>7, <1>8, <1>9, <1>10, <1>11, <1>12, <1>13, <1>14, <1>15, <1>16, <1>17, <1>18, <1>19, <1>20, <1>21, <1>22
  DEF Step, Lookup, Found, Fresh, Backfill

\* Each job has the permit of its request.
JobsInv == orphans["job"] = 0

\* Where nobody is dropped or panics and a killed yt-dlp leaves no process behind,
\* no download or encode outlives its request.
LEMMA JobsInvariant ==
  ASSUME {"cancel", "panic", "leftover"} \cap Faults = {}
  PROVE  Spec => []JobsInv
<1>1. Init => JobsInv
  BY DEF Init, JobsInv
<1>2. TypeInv /\ JobsInv /\ [Next]_vars => JobsInv'
  <2> SUFFICES ASSUME TypeInv, JobsInv, [Next]_vars PROVE JobsInv'
    OBVIOUS
  <2>1. ASSUME NEW r \in Req, Step(r) PROVE JobsInv'
    BY <2>1, StepHost DEF JobsInv, TypeInv
  <2>2. ASSUME NEW k \in {"job", "info"}, OrphanExits(k) PROVE JobsInv'
    BY <2>2 DEF OrphanExits, JobsInv, TypeInv, TypeOK
  <2>3. CASE Crash
    BY <2>3 DEF Crash, JobsInv
  <2>4. CASE UNCHANGED orphans
    BY <2>4 DEF JobsInv
  <2> QED
    BY <2>1, <2>2, <2>3, <2>4
    DEF Next, Environment, Arrive, Cancel, Panic, RedisExpire, RedisBreaks,
        MongoReset, May, vars, hostVars
<1> QED BY <1>1, <1>2, TypeInvariant, PTL DEF Spec

\* A job whose request is there runs under a permit of it.
LEMMA JobsHavePermits == TypeInv /\ JobsInv => JobsBounded
<1> SUFFICES ASSUME TypeInv, JobsInv PROVE JobsBounded
  OBVIOUS
<1>1. At(JobStages) \subseteq At(Holding) /\ At(Holding) \subseteq Req
  BY DEF At, JobStages, Holding
<1>2. IsFiniteSet(At(Holding))
  BY <1>1, ReqAssumption, FS_Subset
<1>3. /\ Cardinality(At(JobStages)) <= Cardinality(At(Holding))
      /\ Cardinality(At(JobStages)) \in Nat /\ Cardinality(At(Holding)) \in Nat
  BY <1>1, <1>2, FS_Subset, FS_CardinalityType
<1>4. avail \in Nat /\ avail + Cardinality(At(Holding)) = MaxConcurrency
  BY LimitAssumption DEF TypeInv, TypeOK, PermitsBalance
<1> QED BY <1>3, <1>4, LimitAssumption DEF JobsInv, JobsBounded, Jobs

\* The documented limit on downloads and encodes holds where no request is dropped
\* and none panics and where a yt-dlp killed at its timeout leaves nothing running,
\* whatever else fails, crashes included: every job runs under a permit, on the
\* fresh path and on the backfill.  The code ensures none of the three.
THEOREM JobsStayBounded ==
  ASSUME {"cancel", "panic", "leftover"} \cap Faults = {}
  PROVE  Spec => []JobsBounded
BY JobsHavePermits, JobsInvariant, TypeInvariant, PTL

\* Under every fault, the limit is exceeded only while a process runs that no
\* request waits for any more (services.rs:293, 356, 463): once it has exited, the
\* limit holds again, however often that has happened.
THEOREM ExceededByLeftovers == Spec => [](orphans["job"] = 0 => JobsBounded)
<1>1. TypeInv => (orphans["job"] = 0 => JobsBounded)
  BY JobsHavePermits DEF JobsInv
<1> QED BY <1>1, TypeInvariant, PTL

\* Every return of resolve and of with_waveform, whatever call has failed, has
\* removed its own work directory, once.  A directory is left behind only by a
\* request that is dropped, panics or dies with the process, or when the
\* removal itself fails.
THEOREM DirsAreAccounted ==
  ASSUME {"cancel", "panic", "crash", "disk"} \cap Faults = {}
  PROVE  Spec => []DirsAccounted
<1>1. Init => DirsAccounted
  <2>1. Init => At(Owning) = {}
    BY DEF Init, At, Owning, Holding, Queueing
  <2> QED BY <2>1, FS_EmptySet DEF Init, DirsAccounted
<1>2. TypeInv /\ DirsAccounted /\ [Next]_vars => DirsAccounted'
  <2> SUFFICES ASSUME TypeInv, DirsAccounted, [Next]_vars PROVE DirsAccounted'
    OBVIOUS
  <2>1. ASSUME NEW r \in Req, Step(r) PROVE DirsAccounted'
    <3>1. Moves(r) /\ dirs' = dirs + In(pc'[r], Owning) - In(pc[r], Owning)
      BY <2>1, StepMoves, StepHost DEF TypeInv
    <3> QED BY <3>1, CountAfter DEF TypeInv, DirsAccounted
  <2>2. ASSUME NEW r \in Req, NEW v \in Video, Arrive(r, v) PROVE DirsAccounted'
    <3>1. Moves(r)
      BY <2>2, OutsideMoves DEF TypeInv
    <3>2. dirs' = dirs /\ In(pc[r], Owning) = 0 /\ In(pc'[r], Owning) = 0
      BY <2>2 DEF Arrive, hostVars, In, Owning, Holding, Queueing, TypeInv, TypeOK
    <3> QED BY <3>1, <3>2, CountAfter DEF TypeInv, DirsAccounted
  <2>3. CASE UNCHANGED <<pc, dirs>>
    BY <2>3 DEF DirsAccounted, At
  <2> QED
    BY <2>1, <2>2, <2>3
    DEF Next, Environment, Cancel, Panic, Crash, May, OrphanExits, RedisExpire,
        RedisBreaks, MongoReset, vars, reqVars, hostVars
<1> QED BY <1>1, <1>2, TypeInvariant, PTL DEF Spec

-----------------------------------------------------------------------------
(* Refused videos *)

\* Past the download nobody has a video that the service refuses.
RefusedInv ==
  \A r \in Req : pc[r] \in {"ffmpeg", "s3_put"} => vid[r] \notin NoAudio \cup TooLong

\* No step takes a refused video past the download.
LEMMA RefusedStep ==
  ASSUME TypeInv, RefusedInv, NEW r \in Req, Step(r)
  PROVE  RefusedInv' /\ (s3' \ s3) \cap (NoAudio \cup TooLong) = {}
<1>1. Moves(r) /\ Shows(r) /\ Flow(pc[r], pc'[r], status[r], status'[r])
  BY StepMoves, StepShows, StepFlows DEF TypeInv
<1>2. pc'[r] \in {"ffmpeg", "s3_put"} => vid[r] \notin NoAudio \cup TooLong
  <2>1. CASE pc[r] = "yt_dlp"
    BY <2>1, StepAt DEF YtDlp, CleanUp, Move, TypeInv, TypeOK
  <2>2. CASE pc[r] = "ffmpeg"
    BY <2>2 DEF RefusedInv
  <2> QED BY <1>1, <2>1, <2>2 DEF Flow, Edge
<1>3. RefusedInv'
  BY <1>1, <1>2 DEF RefusedInv, Moves, Shows, TypeInv, TypeOK
<1>4. (s3' \ s3) \cap (NoAudio \cup TooLong) = {}
  BY <1>1 DEF RefusedInv, Shows
<1> QED BY <1>3, <1>4

\* The audio of a video that is too long or has no audio never reaches S3,
\* although yt-dlp fetches it before the answer is known.
THEOREM RefusedVideosStayOut == Spec => RefusedNeverUploaded
<1> DEFINE Refuses == (s3' \ s3) \cap (NoAudio \cup TooLong) = {}
<1>1. Init => RefusedInv
  BY DEF Init, RefusedInv
<1>2. TypeInv /\ RefusedInv /\ [Next]_vars => RefusedInv' /\ Refuses
  <2> SUFFICES ASSUME TypeInv, RefusedInv, [Next]_vars PROVE RefusedInv' /\ Refuses
    OBVIOUS
  <2>1. ASSUME NEW r \in Req, Step(r) PROVE RefusedInv' /\ Refuses
    BY <2>1, RefusedStep
  <2>2. ASSUME NEW r \in Req, NEW v \in Video, Arrive(r, v) PROVE RefusedInv' /\ Refuses
    BY <2>2 DEF Arrive, RefusedInv, storeVars, TypeInv, TypeOK
  <2>3. ASSUME NEW r \in Req, Abandon(r) PROVE RefusedInv' /\ Refuses
    BY <2>3 DEF Abandon, Move, RefusedInv, storeVars, TypeInv, TypeOK
  <2>4. CASE Crash
    BY <2>4 DEF Crash, RefusedInv
  <2>5. CASE UNCHANGED <<pc, vid, s3>>
    BY <2>5 DEF RefusedInv
  <2> QED
    BY <2>1, <2>2, <2>3, <2>4, <2>5
    DEF Next, Environment, Cancel, Panic, OrphanExits, RedisExpire, RedisBreaks,
        MongoReset, vars, reqVars, storeVars
<1> QED BY <1>1, <1>2, TypeInvariant, PTL DEF Spec, RefusedNeverUploaded

-----------------------------------------------------------------------------
(* Calls that must not fail a request *)

\* A request that is under way has no result yet.
ResultInv == \A r \in Req : status[r] # 0 => pc[r] \in {"idle", "rmrf"}

\* A result is there while a directory is removed, and afterwards.
LEMMA ResultInvariant == Spec => []ResultInv
<1>1. Init => ResultInv
  BY DEF Init, ResultInv
<1>2. TypeInv /\ ResultInv /\ [Next]_vars => ResultInv'
  <2> SUFFICES ASSUME TypeInv, ResultInv, [Next]_vars PROVE ResultInv'
    OBVIOUS
  <2>1. ASSUME NEW r \in Req, Step(r) PROVE ResultInv'
    <3>1. Moves(r) /\ Flow(pc[r], pc'[r], status[r], status'[r])
      BY <2>1, StepMoves, StepFlows DEF TypeInv
    <3> QED BY <3>1 DEF Flow, Moves, ResultInv, TypeInv, TypeOK
  <2>2. ASSUME NEW r \in Req, NEW v \in Video, Arrive(r, v) PROVE ResultInv'
    BY <2>2 DEF Arrive, ResultInv, TypeInv, TypeOK
  <2>3. ASSUME NEW r \in Req, Abandon(r) PROVE ResultInv'
    BY <2>3 DEF Abandon, Move, ResultInv, TypeInv, TypeOK
  <2>4. CASE Crash
    BY <2>4 DEF Crash, ResultInv
  <2>5. CASE UNCHANGED <<pc, status>>
    BY <2>5 DEF ResultInv
  <2> QED
    BY <2>1, <2>2, <2>3, <2>4, <2>5
    DEF Next, Environment, Cancel, Panic, OrphanExits, RedisExpire, RedisBreaks,
        MongoReset, vars, reqVars
<1> QED BY <1>1, <1>2, TypeInvariant, PTL DEF Spec

\* Redis may answer an error, nothing, or not be there: no step that calls it
\* sets an error as the result, and none of another request does.
THEOREM RedisFailsNobody == Spec => RedisHarmless
<1> DEFINE Harmless == \A r \in Req : pc[r] \in Caching => status'[r] \in {0, 200}
<1>1. TypeInv /\ ResultInv /\ [Next]_vars => [Harmless]_vars
  <2> SUFFICES ASSUME TypeInv, ResultInv, [Next]_vars PROVE Harmless
    OBVIOUS
  <2>0. \A q \in Req : pc[q] \in Caching => status[q] = 0
    BY DEF ResultInv, Caching
  <2>1. ASSUME NEW r \in Req, Step(r) PROVE Harmless
    <3>1. Moves(r) /\ Flow(pc[r], pc'[r], status[r], status'[r])
      BY <2>1, StepMoves, StepFlows DEF TypeInv
    <3>2. pc[r] \in Caching => status'[r] \in {0, 200}
      BY <3>1 DEF Flow, Edge, Caching
    <3> QED BY <2>0, <3>1, <3>2 DEF Moves, TypeInv, TypeOK
  <2>2. ASSUME NEW r \in Req, NEW v \in Video, Arrive(r, v) PROVE Harmless
    BY <2>0, <2>2 DEF Arrive, TypeInv, TypeOK
  <2>3. ASSUME NEW r \in Req, Abandon(r) PROVE Harmless
    BY <2>0, <2>3 DEF Abandon, Move, TypeInv, TypeOK
  <2>4. CASE Crash
    BY <2>4 DEF Crash
  <2>5. CASE UNCHANGED status
    BY <2>0, <2>5
  <2> QED
    BY <2>1, <2>2, <2>3, <2>4, <2>5
    DEF Next, Environment, Cancel, Panic, OrphanExits, RedisExpire, RedisBreaks,
        MongoReset, vars, reqVars
<1> QED BY <1>1, TypeInvariant, ResultInvariant, PTL DEF Spec, RedisHarmless

\* A backfill is an extra: when S3, ffmpeg, Mongo, Redis or the disk fails it,
\* the song is returned all the same.  Only a request that is dropped, panics or
\* dies with the process leaves a backfill without an answer.
THEOREM BackfillFailsNobody ==
  ASSUME {"cancel", "panic", "crash"} \cap Faults = {}
  PROVE  Spec => BackfillHarmless
<1> DEFINE Harmless == \A r \in Req : pc[r] \in Backfilling /\ pc'[r] = "idle"
                                        => status'[r] = 200 /\ doc'[r] # NoDoc
<1>1. TypeInv /\ [Next]_vars => [Harmless]_vars
  <2> SUFFICES ASSUME TypeInv, [Next]_vars PROVE Harmless
    OBVIOUS
  <2>1. ASSUME NEW r \in Req, Step(r) PROVE Harmless
    <3>1. Moves(r) /\ Flow(pc[r], pc'[r], status[r], status'[r])
      BY <2>1, StepMoves, StepFlows DEF TypeInv
    <3>2. pc[r] \in Backfilling /\ pc'[r] = "idle" => status'[r] = 200 /\ doc'[r] # NoDoc
      BY <3>1 DEF Flow, Edge, Backfilling, Moves
    <3> QED BY <3>1, <3>2 DEF Moves, Backfilling, TypeInv, TypeOK
  <2>2. ASSUME NEW r \in Req, NEW v \in Video, Arrive(r, v) PROVE Harmless
    BY <2>2 DEF Arrive, Backfilling, TypeInv, TypeOK
  <2>3. CASE UNCHANGED pc
    BY <2>3 DEF Backfilling
  <2> QED
    BY <2>1, <2>2, <2>3
    DEF Next, Environment, Cancel, Panic, Crash, May, OrphanExits, RedisExpire,
        RedisBreaks, MongoReset, vars, reqVars
<1> QED BY <1>1, TypeInvariant, PTL DEF Spec, BackfillHarmless

-----------------------------------------------------------------------------
(* A service in which nothing fails *)

\* Room for the work directory and the child process of every request.
Roomy == Cardinality(Req) <= MaxDirs /\ Cardinality(Req) <= ProcLimit

\* Nothing has failed so far.
SoundInv == /\ DirsAccounted
            /\ orphans["job"] = 0 /\ orphans["info"] = 0
            /\ redisUp

\* Without faults nothing is lost: directories, children, the Redis connection.
LEMMA SoundInvariant ==
  ASSUME Faults = {}
  PROVE  Spec => []SoundInv
<1> DEFINE Rest == /\ orphans["job"] = 0 /\ orphans["info"] = 0
                   /\ redisUp
<1>1. Init => Rest
  BY DEF Init
<1>2. TypeInv /\ Rest /\ [Next]_vars => Rest'
  <2> SUFFICES ASSUME TypeInv, Rest, [Next]_vars PROVE Rest'
    OBVIOUS
  <2>1. ASSUME NEW r \in Req, Step(r) PROVE Rest'
    <3>1. orphans' = orphans
      BY <2>1, StepHost DEF TypeInv
    <3>2. redisUp' = redisUp
      BY <2>1
      DEF Step, Lookup, Found, Fresh, Backfill, CacheGet, MongoGet, CacheFill, S3Has,
          YtInfo, SaveFound, CacheFound, Mkdtemp, Acquire, YtDlp, Ffmpeg, S3Put, Save,
          CacheSong, RemoveDir, WithWaveform, WfAcquire, WfS3Get, WfFfmpeg, WfSave,
          WfCache, WfRemoveDir, storeVars
    <3> QED BY <3>1, <3>2
  <2>2. ASSUME NEW k \in {"job", "info"} PROVE ~OrphanExits(k)
    BY DEF OrphanExits
  <2>3. CASE UNCHANGED <<orphans, redisUp>>
    BY <2>3
  <2> HIDE DEF Rest
  <2> QED
    BY <2>1, <2>2, <2>3
    DEF Next, Environment, Arrive, Cancel, Panic, Crash, RedisExpire,
        RedisBreaks, MongoReset, May, vars, hostVars, storeVars
<1>3. Rest /\ DirsAccounted => SoundInv
  BY DEF SoundInv
<1>4. Spec => []DirsAccounted
  BY DirsAreAccounted
<1> QED BY <1>1, <1>2, <1>3, <1>4, TypeInvariant, PTL DEF Spec

\* With room for all, each request finds a directory and a process of its own.
LEMMA EnoughRoom ==
  ASSUME TypeOK, SoundInv, Roomy, NEW r \in Req
  PROVE  CanSpawn(r) /\ (pc[r] \notin Owning => dirs < MaxDirs)
<1>1. /\ IsFiniteSet(Req \ {r})
      /\ Cardinality(Req \ {r}) = Cardinality(Req) - 1
      /\ Cardinality(Req) \in Nat
  BY ReqAssumption, FS_RemoveElement, FS_CardinalityType
<1>2. CanSpawn(r)
  <2>1. At(Spawned) \ {r} \subseteq Req \ {r}
    BY DEF At
  <2>2. /\ Cardinality(At(Spawned) \ {r}) <= Cardinality(Req \ {r})
        /\ Cardinality(At(Spawned) \ {r}) \in Nat
    BY <1>1, <2>1, FS_Subset, FS_CardinalityType
  <2> QED BY <1>1, <2>2, LimitAssumption DEF CanSpawn, SoundInv, Roomy
<1>3. ASSUME pc[r] \notin Owning PROVE dirs < MaxDirs
  <2>1. At(Owning) \subseteq Req \ {r}
    BY <1>3 DEF At
  <2>2. /\ Cardinality(At(Owning)) <= Cardinality(Req \ {r})
        /\ Cardinality(At(Owning)) \in Nat
    BY <1>1, <2>1, FS_Subset, FS_CardinalityType
  <2> QED BY <1>1, <2>2, LimitAssumption DEF SoundInv, DirsAccounted, Roomy
<1> QED BY <1>2, <1>3

\* Where the song in hand has its waveform, or one is being made for it.
WaveInv ==
  \A r \in Req :
    pc[r] \in {"save", "cache_set", "wf_save", "wf_cache", "wf_rmrf"} \/ status[r] = 200
      => doc[r].wave

\* A step never gives up a backfill.
LEMMA WaveStep ==
  ASSUME Faults = {}, Roomy, TypeInv, SoundInv, AudioInv, WaveInv,
         NEW r \in Req, Step(r)
  PROVE  pc'[r] \in {"save", "cache_set", "wf_save", "wf_cache", "wf_rmrf"} \/ status'[r] = 200
           => doc'[r].wave
<1>0. /\ CanSpawn(r)
      /\ pc[r] = "with_waveform" => dirs # MaxDirs
      /\ pc[r] \in WithSong => doc[r] \in Doc /\ vid[r] \in s3
  BY EnoughRoom, LimitAssumption
  DEF TypeInv, TypeOK, SongInHand, AudioInv, AudioBeforeRecord, Owning, Holding, Queueing
<1> USE <1>0 DEF TypeInv, TypeOK, WaveInv, May, WithSong, Backfilling, Doc
<1>1. CASE CacheGet(r)
  BY <1>1 DEF CacheGet, Goto, Move
<1>2. CASE MongoGet(r)
  BY <1>2 DEF MongoGet, Goto, Move, Answer
<1>3. CASE CacheFill(r)
  BY <1>3 DEF CacheFill, Goto, Move
<1>4. CASE S3Has(r)
  BY <1>4 DEF S3Has, Goto, Move, Answer
<1>5. CASE YtInfo(r)
  BY <1>5 DEF YtInfo, Move, Answer
<1>6. CASE SaveFound(r)
  BY <1>6 DEF SaveFound, Goto, Move, Answer
<1>7. CASE CacheFound(r)
  BY <1>7 DEF CacheFound, Goto, Move
<1>8. CASE Mkdtemp(r)
  BY <1>8 DEF Mkdtemp, Goto, Move, Answer
<1>9. CASE Acquire(r)
  BY <1>9 DEF Acquire, Goto, Move, CleanUp
<1>10. CASE YtDlp(r)
  BY <1>10 DEF YtDlp, Goto, Move, CleanUp
<1>11. CASE Ffmpeg(r)
  BY <1>11 DEF Ffmpeg, Goto, Move, CleanUp
<1>12. CASE S3Put(r)
  BY <1>12 DEF S3Put, Move, CleanUp
<1>13. CASE Save(r)
  BY <1>13 DEF Save, MongoSave, MongoSaveFails, Goto, Move, CleanUp
<1>14. CASE CacheSong(r)
  BY <1>14 DEF CacheSong, Move, CleanUp
<1>15. CASE RemoveDir(r)
  BY <1>15 DEF RemoveDir, Move, Answer
<1>16. CASE WithWaveform(r)
  BY <1>16 DEF WithWaveform, MkdirFails, Goto, Move, Answer
<1>17. CASE WfAcquire(r)
  BY <1>17 DEF WfAcquire, Goto, Move
<1>18. CASE WfS3Get(r)
  BY <1>18 DEF WfS3Get, SpawnFails, Goto, Move, GiveUp
<1>19. CASE WfFfmpeg(r)
  BY <1>19 DEF WfFfmpeg, Move, GiveUp
<1>20. CASE WfSave(r)
  BY <1>20 DEF WfSave, MongoSaveFails, Goto, Move, GiveUp
<1>21. CASE WfCache(r)
  BY <1>21 DEF WfCache, Goto, Move
<1>22. CASE WfRemoveDir(r)
  BY <1>22 DEF WfRemoveDir, Move, Answer
<1> QED
  BY <1>1, <1>2, <1>3, <1>4, <1>5, <1>6, <1>7, <1>8, <1>9, <1>10, <1>11, <1>12, <1>13, <1>14, <1>15, <1>16, <1>17, <1>18, <1>19, <1>20, <1>21, <1>22
  DEF Step, Lookup, Found, Fresh, Backfill

\* Without faults the waveform is there at the stages that WaveInv names.
LEMMA WaveInvariant ==
  ASSUME Faults = {}, Roomy
  PROVE  Spec => []WaveInv
<1>1. Init => WaveInv
  BY DEF Init, WaveInv
<1>2. TypeInv /\ SoundInv /\ AudioInv /\ WaveInv /\ [Next]_vars => WaveInv'
  <2> SUFFICES ASSUME TypeInv, SoundInv, AudioInv, WaveInv, [Next]_vars PROVE WaveInv'
    OBVIOUS
  <2>1. ASSUME NEW r \in Req, Step(r) PROVE WaveInv'
    <3>1. Moves(r)
      BY <2>1, StepMoves DEF TypeInv
    <3> QED BY <2>1, <3>1, WaveStep DEF WaveInv, Moves, TypeInv, TypeOK
  <2>2. ASSUME NEW r \in Req, NEW v \in Video, Arrive(r, v) PROVE WaveInv'
    BY <2>2 DEF Arrive, WaveInv, TypeInv, TypeOK
  <2>3. CASE UNCHANGED <<pc, doc, status>>
    BY <2>3 DEF WaveInv
  <2> QED
    BY <2>1, <2>2, <2>3
    DEF Next, Environment, Cancel, Panic, Crash, May, OrphanExits, RedisExpire,
        RedisBreaks, MongoReset, vars, reqVars
<1> QED BY <1>1, <1>2, TypeInvariant, SoundInvariant, AudioInvariant, PTL DEF Spec

\* When nothing fails, every answer has its waveform: that of an old record is
\* made before the answer, and so is that of an MP3 found without a record.  There
\* must be room for a directory and a process for each request: a full disk or
\* process table makes with_waveform give up, with an answer that has none.
THEOREM AnswersHaveWaveform ==
  ASSUME Faults = {}, Roomy
  PROVE  Spec => []AnsweredWithWaveform
<1>1. WaveInv => AnsweredWithWaveform
  BY DEF WaveInv, AnsweredWithWaveform, Answered
<1> QED BY <1>1, WaveInvariant, PTL

\* Redis shows v without the waveform that Mongo has.
Behind(v) == /\ redis[v] # NoDoc /\ ~redis[v].wave
             /\ mongo[v] # NoDoc /\ mongo[v].wave

\* r is going to cache its song with a waveform.
Refreshing(r) ==
  \/ pc[r] \in {"wf_acquire", "wf_s3_get", "wf_ffmpeg", "wf_save", "wf_cache", "cache_set"}
  \/ pc[r] = "with_waveform" /\ ~doc[r].wave

\* Redis is behind only on a video that some request is about to refresh.
BehindInv ==
  /\ \A v \in Video : Behind(v) => \E r \in Req : vid[r] = v /\ Refreshing(r)
  /\ \A r \in Req : pc[r] = "save_found" => ~doc[r].wave

\* Whoever refreshes a video goes on, or has cached the waveform.
LEMMA RefreshGoesOn ==
  ASSUME Faults = {}, Roomy, TypeInv, SoundInv, AudioInv, WaveInv,
         NEW r \in Req, Step(r), Refreshing(r)
  PROVE  \/ Refreshing(r)'
         \/ redis' = [redis EXCEPT ![vid[r]] = doc[r]] /\ doc[r].wave
<1>0. /\ CanSpawn(r) /\ redisUp
      /\ pc[r] = "with_waveform" => dirs # MaxDirs
      /\ Refreshing(r) => doc[r] # NoDoc /\ vid[r] \in s3
  BY EnoughRoom, LimitAssumption
  DEF TypeInv, TypeOK, SongInHand, AudioInv, AudioBeforeRecord, SoundInv,
      Owning, Holding, Queueing, Refreshing, WithSong, Backfilling
<1> USE DEF TypeInv, TypeOK, May, Goto, Move
<1>1. CASE pc[r] = "with_waveform" /\ ~doc[r].wave
  BY <1>0, <1>1, StepAt DEF WithWaveform, MkdirFails, Refreshing
<1>2. CASE pc[r] = "wf_acquire"
  BY <1>2, StepAt DEF WfAcquire, Refreshing
<1>3. CASE pc[r] = "wf_s3_get"
  BY <1>0, <1>3, StepAt DEF WfS3Get, SpawnFails, Refreshing
<1>4. CASE pc[r] = "wf_ffmpeg"
  BY <1>4, StepAt DEF WfFfmpeg, Refreshing
<1>5. CASE pc[r] = "wf_save"
  BY <1>5, StepAt DEF WfSave, MongoSaveFails, Refreshing
<1>6. CASE pc[r] = "wf_cache"
  BY <1>0, <1>6, StepAt DEF WfCache, CacheSet, WaveInv
<1>7. CASE pc[r] = "cache_set"
  BY <1>0, <1>7, StepAt DEF CacheSong, CacheSet, WaveInv
<1> QED BY <1>1, <1>2, <1>3, <1>4, <1>5, <1>6, <1>7 DEF Refreshing

\* Whoever puts Redis behind Mongo, with an old document in Redis or a new
\* waveform in Mongo, is going to refresh it.
LEMMA BehindIsRefreshed ==
  ASSUME Faults = {}, TypeInv, WaveInv, BehindInv, NEW r \in Req, Step(r),
         NEW v \in Video, Behind(v)', ~Behind(v)
  PROVE  v = vid[r] /\ Refreshing(r)'
<1>1. Shows(r) /\ vid[r] \in Video
  BY StepShows DEF TypeInv, TypeOK
<1> USE DEF TypeInv, TypeOK, May, Goto, Move
<1>2. CASE UNCHANGED <<mongo, redis>>
  BY <1>2 DEF Behind
<1>3. CASE MongoSave(vid[r], doc[r]) /\ pc[r] \in Saving /\ redis' = redis
  <2>1. v = vid[r]
    BY <1>1, <1>3 DEF MongoSave, Behind
  <2>2. CASE ~doc[r].wave
    BY <1>1, <1>3, <2>1, <2>2 DEF MongoSave, Saved, Behind
  <2>3. CASE pc[r] = "save"
    BY <2>1, <2>3, StepAt DEF Save, MongoSaveFails, Refreshing
  <2>4. CASE pc[r] = "wf_save"
    BY <2>1, <2>4, StepAt DEF WfSave, MongoSaveFails, Refreshing
  <2> QED BY <1>3, <2>2, <2>3, <2>4 DEF Saving, BehindInv
<1>4. CASE /\ redis' = [redis EXCEPT ![vid[r]] = doc[r]] /\ pc[r] \in Filling
           /\ mongo' = mongo
  <2>1. v = vid[r] /\ ~doc[r].wave
    BY <1>1, <1>4 DEF Behind
  <2>2. CASE pc[r] = "cache_fill"
    BY <2>1, <2>2, StepAt DEF CacheFill, Refreshing
  <2>3. CASE pc[r] = "cache_found"
    BY <2>1, <2>3, StepAt DEF CacheFound, Refreshing
  <2> QED BY <1>4, <2>1, <2>2, <2>3 DEF Filling, WaveInv
<1> QED BY <1>1, <1>2, <1>3, <1>4 DEF Shows

\* A step leaves Redis behind Mongo only where somebody will refresh it.
LEMMA BehindStep ==
  ASSUME Faults = {}, Roomy, TypeInv, SoundInv, AudioInv, WaveInv, BehindInv,
         NEW r \in Req, Step(r)
  PROVE  BehindInv'
<1>1. Moves(r) /\ Shows(r) /\ Flow(pc[r], pc'[r], status[r], status'[r])
  BY StepMoves, StepShows, StepFlows DEF TypeInv
<1>2. ASSUME NEW v \in Video, Behind(v)' PROVE \E q \in Req : vid'[q] = v /\ Refreshing(q)'
  <2>1. CASE ~Behind(v)
    <3>1. v = vid[r] /\ Refreshing(r)'
      BY <1>2, <2>1, BehindIsRefreshed
    <3> QED BY <1>1, <3>1 DEF Shows
  <2>2. CASE Behind(v)
    <3>1. PICK q \in Req : vid[q] = v /\ Refreshing(q)
      BY <2>2 DEF BehindInv
    <3>2. CASE q # r
      BY <1>1, <3>1, <3>2 DEF Moves, Shows, Refreshing, TypeInv, TypeOK
    <3>3. CASE q = r
      <4>1. \/ Refreshing(r)'
            \/ redis' = [redis EXCEPT ![vid[r]] = doc[r]] /\ doc[r].wave
        BY <3>1, <3>3, RefreshGoesOn
      <4>2. vid' = vid
        BY <1>1 DEF Shows
      <4>3. redis' # [redis EXCEPT ![v] = doc[r]] \/ ~doc[r].wave
        BY <1>2 DEF Behind, TypeInv, TypeOK
      <4> QED BY <3>1, <3>3, <4>1, <4>2, <4>3
    <3> QED BY <3>2, <3>3
  <2> QED BY <2>1, <2>2
<1>3. ASSUME NEW q \in Req, pc'[q] = "save_found" PROVE ~doc'[q].wave
  <2>1. CASE q # r
    BY <1>1, <1>3, <2>1 DEF BehindInv, Moves, TypeInv, TypeOK
  <2>2. CASE q = r
    <3>1. pc[r] = "yt_info"
      BY <1>1, <1>3, <2>2 DEF Flow, Edge
    <3> QED BY <1>3, <2>2, <3>1, StepAt DEF YtInfo, Move, Answer, TypeInv, TypeOK
  <2> QED BY <2>1, <2>2
<1> QED BY <1>2, <1>3 DEF BehindInv

\* When nothing fails, Redis is never left behind Mongo: a slow request that
\* caches the old document over a backfilled one goes on to refresh it, and
\* until it has, it is still under way.
THEOREM CacheCatchesUp ==
  ASSUME Faults = {}, Roomy
  PROVE  Spec => []CacheCaughtUp
<1>1. Init => BehindInv
  BY DEF Init, BehindInv, Behind
<1>2. TypeInv /\ SoundInv /\ AudioInv /\ WaveInv /\ BehindInv /\ [Next]_vars => BehindInv'
  <2> SUFFICES ASSUME TypeInv, SoundInv, AudioInv, WaveInv, BehindInv, [Next]_vars
               PROVE  BehindInv'
    OBVIOUS
  <2>1. ASSUME NEW r \in Req, Step(r) PROVE BehindInv'
    BY <2>1, BehindStep
  <2>2. ASSUME NEW r \in Req, NEW v \in Video, Arrive(r, v) PROVE BehindInv'
    BY <2>2 DEF Arrive, BehindInv, Behind, Refreshing, storeVars, TypeInv, TypeOK
  <2>3. ASSUME NEW v \in Video, RedisExpire(v) PROVE BehindInv'
    BY <2>3 DEF RedisExpire, BehindInv, Behind, Refreshing, reqVars, TypeInv, TypeOK
  <2>4. CASE UNCHANGED <<pc, vid, doc, redis, mongo>>
    BY <2>4 DEF BehindInv, Behind, Refreshing
  <2> QED
    BY <2>1, <2>2, <2>3, <2>4
    DEF Next, Environment, Cancel, Panic, Crash, May, OrphanExits,
        RedisBreaks, MongoReset, vars, reqVars, storeVars
<1>3. TypeInv /\ DurableInv /\ BehindInv => CacheCaughtUp
  <2> SUFFICES ASSUME TypeInv, DurableInv, BehindInv,
                      NEW v \in Video, redis[v] # NoDoc,
                      \A r \in Req : vid[r] = v => pc[r] = "idle"
               PROVE  redis[v].wave = mongo[v].wave
    BY DEF CacheCaughtUp
  <2>1. \A r \in Req : vid[r] = v => ~Refreshing(r)
    BY DEF Refreshing
  <2>2. ~Behind(v)
    BY <2>1 DEF BehindInv
  <2>3. mongo[v] # NoDoc /\ (redis[v].wave => mongo[v].wave)
    BY DEF DurableInv, CacheNotAhead, Durable
  <2>4. redis[v] \in Doc /\ mongo[v] \in Doc
    BY <2>3 DEF TypeInv, TypeOK
  <2>5. redis[v].wave \in BOOLEAN /\ mongo[v].wave \in BOOLEAN
    BY <2>4 DEF Doc
  <2> QED BY <2>2, <2>3, <2>5 DEF Behind
<1>4. Spec => []DurableInv
  BY DurableInvariant
<1> QED
  BY <1>1, <1>2, <1>3, <1>4, TypeInvariant, SoundInvariant, AudioInvariant,
     WaveInvariant, PTL
  DEF Spec

=============================================================================
