------------------------ MODULE ResolverEventProofs ------------------------
(***************************************************************************)
(* That every request of the resolver implements ResolveSteps, whatever    *)
(* fails, for every set of slots and videos and every limit.               *)
(***************************************************************************)
EXTENDS ResolverEvents, ResolverProofs

-----------------------------------------------------------------------------
(* The step a request is in *)

AnyStep == {"start", "check", "downloading", "encoding", "uploading", "backfilling"}

\* At stage p, with result c, e is the step announced last.
Fits(p, c, e) ==
  /\ e \in AnyStep
  /\ p \in {"cache_get", "mongo_get", "cache_fill"} => e = "start"
  /\ p \in {"s3_has", "yt_info", "save_found", "cache_found", "mkdtemp", "acquire"}
       => e = "check"
  /\ p = "yt_dlp" => e = "downloading"
  /\ p = "ffmpeg" => e = "encoding"
  /\ p \in {"s3_put", "save", "cache_set"} => e = "uploading"
  /\ p = "rmrf" => /\ c # 0
                   /\ c = 200 => e = "uploading"
                   /\ e \in {"downloading", "encoding", "uploading"}
  /\ p \in {"with_waveform", "wf_acquire"} => e \in {"start", "check"}
  /\ p \in {"wf_s3_get", "wf_ffmpeg", "wf_save", "wf_cache", "wf_rmrf"}
       => e = "backfilling"

StepFits ==
  step \in [Req -> AnyStep] /\ \A r \in Req : Fits(pc[r], status[r], step[r])

\* A step of the program announces a step or is none to the client, or returns,
\* and leaves the request in a step that fits its stage.
LEMMA FlowAnnounces ==
  ASSUME NEW r \in Req, NEW late \in BOOLEAN,
         Flow(pc[r], pc'[r], status[r], status'[r]),
         Fits(pc[r], status[r], step[r]), step'[r] = Emitted(r, late)
  PROVE  /\ Fits(pc'[r], status'[r], step'[r])
         /\ Call(r)!Announce \/ Call(r)!Return \/ UNCHANGED Call(r)!vars
<1>1. Fits(pc'[r], status'[r], step'[r])
  BY DEF Flow, Edge, Fits, AnyStep, Emitted
<1>2. pc[r] # "idle" /\ Outcome(r) = "none"
  BY DEF Flow, Edge, Outcome
<1>3. CASE pc'[r] = "idle"
  <2>1. step'[r] = step[r]
    BY <1>3 DEF Emitted
  <2>2. Outcome(r)' \in Call(r)!Ending(step[r])
    BY <1>3 DEF Flow, Edge, Fits, AnyStep, Outcome, Call!Ending
  <2> QED BY <1>1, <1>2, <1>3, <2>1, <2>2 DEF Call!Return
<1>4. CASE pc'[r] # "idle"
  <2>1. Outcome(r)' = "none"
    BY <1>4 DEF Outcome
  <2>2. step'[r] = step[r] \/ step'[r] \in Call(r)!Following(step[r])
    BY <1>4 DEF Flow, Edge, Fits, AnyStep, Emitted, Call!Following
  <2> QED BY <1>1, <1>2, <1>4, <2>1, <2>2 DEF Call!Announce, Call!vars
<1> QED BY <1>1, <1>3, <1>4

\* A request that does not move stays in its step.
LEMMA RestAnnouncesNothing ==
  ASSUME NEW r \in Req, NEW late \in BOOLEAN, pc'[r] = pc[r], status'[r] = status[r],
         Fits(pc[r], status[r], step[r]), step'[r] = Emitted(r, late)
  PROVE  Fits(pc'[r], status'[r], step'[r]) /\ UNCHANGED Call(r)!vars
<1>1. step'[r] = step[r]
  BY DEF Emitted
<1> QED BY <1>1 DEF Outcome, Call!vars

\* A dropped request vanishes.
LEMMA DroppedVanishes ==
  ASSUME NEW r \in Req, NEW late \in BOOLEAN, pc'[r] = "idle", status'[r] = 0,
         Fits(pc[r], status[r], step[r]), step'[r] = Emitted(r, late)
  PROVE  Fits(pc'[r], status'[r], step'[r]) /\ Call(r)!Vanish
<1>1. step'[r] = step[r]
  BY DEF Emitted
<1> QED BY <1>1 DEF Fits, Outcome, Call!Vanish

\* A request that arrives starts a call of resolve.
LEMMA ArrivalStarts ==
  ASSUME NEW r \in Req, NEW late \in BOOLEAN, pc[r] = "idle", pc'[r] = "cache_get",
         step'[r] = Emitted(r, late)
  PROVE  Fits(pc'[r], status'[r], step'[r]) /\ Call(r)!Start
<1>1. step'[r] = "start"
  BY DEF Emitted
<1> QED BY <1>1 DEF Fits, AnyStep, Outcome, Call!Start

-----------------------------------------------------------------------------
\* What one step of the resolver is to the request q.
Shown(q) == Fits(pc'[q], status'[q], step'[q]) /\ [Call(q)!Next]_(Call(q)!vars)

\* Whatever happens, each request takes a step of ResolveSteps or none.
LEMMA EveryStepShown ==
  ASSUME TypeInv, StepFits, NEW late \in BOOLEAN, Next,
         step' = [r \in Req |-> Emitted(r, late)], NEW q \in Req
  PROVE  Shown(q)
<1>1. TypeOK /\ SongInHand /\ Fits(pc[q], status[q], step[q]) /\ step'[q] = Emitted(q, late)
  BY DEF TypeInv, StepFits
<1>2. ASSUME pc'[q] = pc[q], status'[q] = status[q] PROVE Shown(q)
  BY <1>1, <1>2, RestAnnouncesNothing DEF Shown
<1>3. ASSUME NEW r \in Req, Moves(r), r # q PROVE Shown(q)
  <2>1. pc'[q] = pc[q] /\ status'[q] = status[q]
    BY <1>1, <1>3 DEF Moves, TypeOK
  <2> QED BY <1>2, <2>1
<1>4. ASSUME NEW r \in Req, Step(r) PROVE Shown(q)
  <2>1. CASE r = q
    <3>1. Flow(pc[q], pc'[q], status[q], status'[q])
      BY <1>1, <1>4, <2>1, StepFlows
    <3> QED BY <1>1, <3>1, FlowAnnounces DEF Shown, Call!Next
  <2>2. CASE r # q
    BY <1>1, <1>3, <1>4, <2>2, StepMoves
  <2> QED BY <2>1, <2>2
<1>5. ASSUME NEW r \in Req, NEW v \in Video, Arrive(r, v) PROVE Shown(q)
  <2>1. CASE r = q
    <3>1. pc[q] = "idle" /\ pc'[q] = "cache_get"
      BY <1>1, <1>5, <2>1 DEF Arrive, TypeOK
    <3> QED BY <1>1, <3>1, ArrivalStarts DEF Shown, Call!Next
  <2>2. CASE r # q
    BY <1>1, <1>3, <1>5, <2>2, OutsideMoves
  <2> QED BY <2>1, <2>2
<1>6. ASSUME NEW r \in Req, Abandon(r) PROVE Shown(q)
  <2>1. CASE r = q
    <3>1. pc'[q] = "idle" /\ status'[q] = 0
      BY <1>1, <1>6, <2>1 DEF Abandon, Move, TypeOK
    <3> QED BY <1>1, <3>1, DroppedVanishes DEF Shown, Call!Next
  <2>2. CASE r # q
    BY <1>1, <1>3, <1>6, <2>2, OutsideMoves
  <2> QED BY <2>1, <2>2
<1>7. CASE Crash
  <2>1. pc'[q] = "idle" /\ status'[q] = 0
    BY <1>7 DEF Crash
  <2> QED BY <1>1, <2>1, DroppedVanishes DEF Shown, Call!Next
<1>8. ASSUME UNCHANGED reqVars PROVE Shown(q)
  BY <1>2, <1>8 DEF reqVars
<1>9. CASE \/ \E k \in {"job", "info"} : OrphanExits(k)
           \/ \E v \in Video : RedisExpire(v)
           \/ RedisBreaks \/ MongoReset
  BY <1>8, <1>9 DEF OrphanExits, RedisExpire, RedisBreaks, MongoReset
<1> QED
  BY <1>4, <1>5, <1>6, <1>7, <1>9 DEF Next, Environment, Cancel, Panic

\* Every behaviour with the history variable is one of the resolver.
LEMMA EventsAreResolver == EventSpec => Spec
<1>1. EventInit => Init
  BY DEF EventInit
<1>2. [EventNext]_<<vars, step>> => [Next]_vars
  BY DEF EventNext
<1> QED BY <1>1, <1>2, PTL DEF EventSpec, Spec

\* Each request has announced last what its stage allows.
LEMMA StepsFit == EventSpec => []StepFits
<1>1. EventInit => StepFits
  BY DEF EventInit, Init, StepFits, Fits, AnyStep
<1>2. TypeInv /\ StepFits /\ [EventNext]_<<vars, step>> => StepFits'
  <2> SUFFICES ASSUME TypeInv, StepFits, [EventNext]_<<vars, step>> PROVE StepFits'
    OBVIOUS
  <2>1. CASE EventNext
    <3>1. PICK late \in BOOLEAN : step' = [r \in Req |-> Emitted(r, late)]
      BY <2>1 DEF EventNext
    <3>2. \A q \in Req : Shown(q)
      BY <2>1, <3>1, EveryStepShown DEF EventNext
    <3> QED BY <3>1, <3>2 DEF Shown, StepFits, Fits
  <2>2. CASE UNCHANGED <<vars, step>>
    BY <2>2 DEF vars, reqVars, StepFits
  <2> QED BY <2>1, <2>2
<1> QED BY <1>1, <1>2, EventsAreResolver, TypeInvariant, PTL DEF EventSpec

\* Every request announces its steps in the documented order and ends as its
\* last step allows, on every path through the resolver, under every fault.
THEOREM StepsAreAnnounced == EventSpec => AnnouncesSteps
<1>1. EventInit => \A r \in Req : Call(r)!Init
  BY DEF EventInit, Init, Outcome, Call!Init
<1>2. TypeInv /\ StepFits /\ [EventNext]_<<vars, step>>
        => [\A r \in Req : [Call(r)!Next]_(Call(r)!vars)]_<<vars, step>>
  <2> SUFFICES ASSUME TypeInv, StepFits, EventNext, NEW q \in Req
               PROVE  [Call(q)!Next]_(Call(q)!vars)
    OBVIOUS
  <2>1. PICK late \in BOOLEAN : step' = [r \in Req |-> Emitted(r, late)]
    BY DEF EventNext
  <2> QED BY <2>1, EveryStepShown DEF EventNext, Shown
<1> QED
  BY <1>1, <1>2, EventsAreResolver, TypeInvariant, StepsFit, PTL DEF EventSpec, AnnouncesSteps
=============================================================================
