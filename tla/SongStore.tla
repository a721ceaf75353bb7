------------------------------ MODULE SongStore ------------------------------
(***************************************************************************)
(* What the service promises, without its processes, queues and failures:  *)
(* a store of songs.  A song is recorded only when its MP3 is there, a     *)
(* record never gets poorer, the cache is a part of the record, and an     *)
(* answer tells no more than the record does.                              *)
(***************************************************************************)
EXTENDS Integers

CONSTANTS Client, Video

VARIABLES
  audio,     \* videos whose MP3 is stored
  record,    \* how much is recorded of each video
  cached,    \* how much of it the cache shows
  answer     \* the latest answer to each client

vars == <<audio, record, cached, answer>>

None  == 0     \* nothing
Bare  == 1     \* a song without waveform
Waved == 2     \* a song with its waveform
Level == None .. Waved

NoAnswer == <<>>

TypeOK ==
  /\ audio \in SUBSET Video
  /\ record \in [Video -> Level]
  /\ cached \in [Video -> Level]
  /\ answer \in [Client -> {NoAnswer} \cup (Video \X {Bare, Waved})]

Init ==
  /\ audio \in SUBSET Video
  /\ record \in [Video -> Level]
  /\ \A v \in Video : record[v] # None => v \in audio
  /\ cached = [v \in Video |-> None]
  /\ answer = [c \in Client |-> NoAnswer]

Upload(v) ==
  /\ audio' = audio \cup {v}
  /\ UNCHANGED <<record, cached, answer>>

\* Saving a song adds to the record what it lacked.
Record(v, k) ==
  /\ v \in audio
  /\ record' = [record EXCEPT ![v] = IF k > @ THEN k ELSE @]
  /\ UNCHANGED <<audio, cached, answer>>

\* The cache takes, or falls back to, any part of the record.
Cache(v, k) ==
  /\ k <= record[v]
  /\ cached' = [cached EXCEPT ![v] = k]
  /\ UNCHANGED <<audio, record, answer>>

Answer(c, v, k) ==
  /\ k <= record[v]
  /\ answer' = [answer EXCEPT ![c] = <<v, k>>]
  /\ UNCHANGED <<audio, record, cached>>

Ask(c) ==
  /\ answer' = [answer EXCEPT ![c] = NoAnswer]
  /\ UNCHANGED <<audio, record, cached>>

Restart ==
  /\ answer' = [c \in Client |-> NoAnswer]
  /\ UNCHANGED <<audio, record, cached>>

Next ==
  \/ \E v \in Video : Upload(v)
  \/ \E v \in Video, k \in {Bare, Waved} : Record(v, k)
  \/ \E v \in Video, k \in Level : Cache(v, k)
  \/ \E c \in Client, v \in Video, k \in {Bare, Waved} : Answer(c, v, k)
  \/ \E c \in Client : Ask(c)
  \/ Restart

Spec == Init /\ [][Next]_vars

\* Nothing that the store shows runs ahead of what it rests on: answers and the
\* cache on the record, the record on the audio.  This is what a client of
\* the service relies on when it plays the URL it was answered.
Consistent ==
  /\ \A v \in Video : record[v] # None => v \in audio
  /\ \A v \in Video : cached[v] <= record[v]
  /\ \A c \in Client : answer[c] # NoAnswer => answer[c][2] <= record[answer[c][1]]
=============================================================================
