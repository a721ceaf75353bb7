--------------------------- MODULE SongsCollection ---------------------------
(***************************************************************************)
(* The documents of one video in the Mongo collection "songs", below the   *)
(* atomic save of Resolver: mongo_get and mongo_save of                    *)
(* rust/src/services.rs as the server runs them.  An upsert looks for a    *)
(* match and inserts when it finds none; another upsert may come between.  *)
(* With a unique index on videoId (the Node service declares one,          *)
(* src/db.ts:23) the second insert is refused and the server runs the      *)
(* upsert again.  Without one (services.rs creates none) it goes through.  *)
(***************************************************************************)
EXTENDS Integers, FiniteSets

CONSTANTS
  Saver,         \* requests for the video, finitely many
  UniqueIndex    \* the collection has the unique index

Key == {"_id", "videoId", "createdAt", "waveform", "title"}

\* A song as JSON: its keys, and createdAt as an ISO string or as the extended
\* JSON of a stored Date.
Found == [keys |-> {"videoId", "title", "createdAt"}, createdAt |-> "iso"]
Fresh == [keys |-> Key \ {"_id"}, createdAt |-> "iso"]
Backfilled == [keys |-> Key, createdAt |-> "ext"]

Song == {Found, Fresh, Backfilled}

VARIABLES
  docs,      \* the stored documents
  pc,        \* "get", "match" or "insert" (inside the server), "failed"
  song       \* the song each saver saves

vars == <<docs, pc, song>>

\* id: the order of insertion, standing for _id.
TypeOK ==
  /\ docs \subseteq [id: 1 .. Cardinality(Saver), wave: BOOLEAN, createdAt: {"date", "null"}]
  /\ pc \in [Saver -> {"get", "match", "insert", "failed"}]
  /\ song \in [Saver -> Song]

Init ==
  /\ \E d \in [id: {1}, wave: BOOLEAN, createdAt: {"date"}] : docs \in {{}, {d}}
  /\ pc = [r \in Saver |-> "get"]
  /\ song = [r \in Saver |-> Found]

-----------------------------------------------------------------------------
(* mongo_get, and how its result comes to be saved *)

\* find_one returns some document.  One without waveform is backfilled; without
\* any the song is made anew, from the MP3 on S3 or from a download.
Get(r) ==
  /\ pc[r] = "get"
  /\ \/ docs = {} /\ \E s \in {Found, Fresh} : song' = [song EXCEPT ![r] = s]
     \/ \E d \in docs : ~d.wave /\ song' = [song EXCEPT ![r] = Backfilled]
  /\ pc' = [pc EXCEPT ![r] = "match"]
  /\ UNCHANGED docs

\* A song saved bare is backfilled from the JSON in hand, or in Redis.
Refill(r) ==
  /\ pc[r] = "get" /\ song[r] = Found
  /\ \E d \in docs : ~d.wave
  /\ song' = [song EXCEPT ![r] = Fresh]
  /\ pc' = [pc EXCEPT ![r] = "match"]
  /\ UNCHANGED docs

-----------------------------------------------------------------------------
(* mongo_save: the update document *)

\* Faulty variant of SetKeys: only the filter's key is kept out of $set.
SetKeysAll(s) == s.keys \ {"videoId"}

SetKeys(s) == s.keys \ {"createdAt", "videoId", "_id"}

OnInsertKeys == {"createdAt"}

\* Faulty variant of CreatedAt: the string is stored as it is.
CreatedAtRaw(s) == s.createdAt

CreatedAt(s) == IF s.createdAt = "iso" THEN "date" ELSE "null"

\* The server refuses two operators on one path, and a new _id.
Refused(s) == SetKeys(s) \cap (OnInsertKeys \cup {"_id"}) # {}

\* Faulty variant of SetOf: the update replaces the document.
SetOfReplacing(d, s) == [d EXCEPT !.wave = "waveform" \in SetKeys(s)]

\* $set adds the keys it has and removes none.
SetOf(d, s) == [d EXCEPT !.wave = @ \/ "waveform" \in SetKeys(s)]

\* One matching document is updated, in one step.
Match(r) ==
  /\ pc[r] = "match"
  /\ \/ Refused(song[r]) /\ pc' = [pc EXCEPT ![r] = "failed"] /\ UNCHANGED docs
     \/ ~Refused(song[r]) /\ docs = {} /\ pc' = [pc EXCEPT ![r] = "insert"] /\ UNCHANGED docs
     \/ /\ ~Refused(song[r])
        /\ \E d \in docs : docs' = (docs \ {d}) \cup {SetOf(d, song[r])}
        /\ pc' = [pc EXCEPT ![r] = "get"]
  /\ UNCHANGED song

Insert(r) ==
  /\ pc[r] = "insert"
  /\ IF UniqueIndex /\ docs # {}
     THEN pc' = [pc EXCEPT ![r] = "match"] /\ UNCHANGED docs
     ELSE /\ docs' = docs \cup {[id |-> Cardinality(docs) + 1,
                                 wave |-> "waveform" \in SetKeys(song[r]),
                                 createdAt |-> CreatedAt(song[r])]}
          /\ pc' = [pc EXCEPT ![r] = "get"]
  /\ UNCHANGED song

Next == \E r \in Saver : Get(r) \/ Refill(r) \/ Match(r) \/ Insert(r)

Spec == Init /\ [][Next]_vars

-----------------------------------------------------------------------------
\* "unique videoId" (openwiki/architecture.md:16): a video has one document, so
\* that find_one and update_one mean the same one.
UniqueRecord == Cardinality(docs) <= 1

\* The server accepts every update that mongo_save builds, of songs made here
\* and of songs read back with _id and an extended-JSON createdAt.
NeverRefused == \A r \in Saver : pc[r] # "failed"

\* What Resolver takes for granted: each save is one atomic step on the record,
\* which adds a waveform or nothing, never removes one, never changes createdAt,
\* and creates the record once, dated.
AtomicSave ==
  [][\/ docs' = docs
     \/ docs = {} /\ \E w \in BOOLEAN : docs' = {[id |-> 1, wave |-> w, createdAt |-> "date"]}
     \/ \E d \in docs, w \in BOOLEAN : docs = {d} /\ docs' = {[d EXCEPT !.wave = @ \/ w]}]_vars
=============================================================================
