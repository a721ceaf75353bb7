---------------------------- MODULE ResolverStore ----------------------------
(***************************************************************************)
(* Resolver implements SongStore: S3 is the audio, Mongo the record, Redis *)
(* the cache, and a request that has returned 200 holds its answer.        *)
(***************************************************************************)
EXTENDS Resolver

Richness(d) == IF d = NoDoc THEN 0 ELSE IF d.wave THEN 2 ELSE 1

RecordOf == [v \in Video |-> Richness(mongo[v])]
CacheOf  == [v \in Video |-> Richness(redis[v])]
AnswerTo == [r \in Req |->
               IF Answered(r) THEN <<vid[r], Richness(doc[r])>> ELSE <<>>]

Store == INSTANCE SongStore WITH
           Client <- Req, audio <- s3, record <- RecordOf,
           cached <- CacheOf, answer <- AnswerTo

\* Whatever fails, crashes or is abandoned, the service is a store of songs, as
\* long as nobody empties the database under it.
ImplementsSongStore == Store!Spec
=============================================================================
