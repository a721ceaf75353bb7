------------------------------- MODULE MCParts -------------------------------
(***************************************************************************)
(* The parts that need no other part, checked side by side: a behaviour is *)
(* one of one part, the others stay put.                                   *)
(***************************************************************************)
EXTENDS Integers

CONSTANTS
  FirstYear, LastYear, Points, Precision, MaxSamples, MaxPieces, MaxOutput, MaxChunk, TailMax,
  Saver, UniqueIndex

VARIABLES
  part, year, month, mday, count, samples, req, cfg, at, status, cors, input,
  written, line, duration, tail, pct, panicked, docs, pc, song

C == INSTANCE CivilDate
P == INSTANCE Peaks
H == INSTANCE HttpFront
I == INSTANCE VideoId
O == INSTANCE ChildOutput
S == INSTANCE SongsCollection

dateVars  == <<year, month, mday, count>>
frontVars == <<req, cfg, at, status, cors>>
outputVars == <<written, line, duration, tail, pct, panicked>>
songVars == <<docs, pc, song>>
vars == <<part, dateVars, samples, frontVars, input, outputVars, songVars>>

DatesIdle == year = FirstYear /\ month = 1 /\ mday = 1 /\ count = C!NewYear(FirstYear)
PeaksIdle == samples = 0
FrontIdle ==
  /\ req = [method |-> "GET", path |-> "health", origin |-> "none",
            key |-> "none", input |-> "none", sse |-> FALSE]
  /\ cfg = [apiKey |-> FALSE, bucket |-> TRUE, origins |-> {""}]
  /\ at = "cors" /\ status = 0 /\ cors = {}

SongsIdle ==
  docs = {} /\ pc = [r \in Saver |-> "get"] /\ song = [r \in Saver |-> S!Found]

Init ==
  /\ I!Init /\ O!Init
  /\ \/ part = "dates" /\ C!Init /\ PeaksIdle /\ FrontIdle /\ SongsIdle
     \/ part = "peaks" /\ P!Init /\ DatesIdle /\ FrontIdle /\ SongsIdle
     \/ part = "front" /\ H!Init /\ DatesIdle /\ PeaksIdle /\ SongsIdle
     \/ part = "songs" /\ S!Init /\ DatesIdle /\ PeaksIdle /\ FrontIdle
     \/ part \in {"input", "output"} /\ DatesIdle /\ PeaksIdle /\ FrontIdle /\ SongsIdle

Dates ==
  /\ part = "dates" /\ C!Next
  /\ UNCHANGED <<part, samples, frontVars, input, outputVars, songVars>>
Waves ==
  /\ part = "peaks" /\ P!Next
  /\ UNCHANGED <<part, dateVars, frontVars, input, outputVars, songVars>>
Front ==
  /\ part = "front" /\ H!Next
  /\ UNCHANGED <<part, dateVars, samples, input, outputVars, songVars>>
Input ==
  /\ part = "input" /\ I!AddPiece
  /\ UNCHANGED <<part, dateVars, samples, frontVars, outputVars, songVars>>
Output ==
  /\ part = "output" /\ O!Next
  /\ UNCHANGED <<part, dateVars, samples, frontVars, input, songVars>>
Songs ==
  /\ part = "songs" /\ S!Next
  /\ UNCHANGED <<part, dateVars, samples, frontVars, input, outputVars>>

Next == Dates \/ Waves \/ Front \/ Input \/ Output \/ Songs

Spec == Init /\ [][Next]_vars

-----------------------------------------------------------------------------
\* CivilDate: chrono_like_now writes the date of the calendar.
WritesTheDate == C!WritesTheDate

\* CivilDate: iso_to_bson_date reads back what chrono_like_now wrote.
ReadsItBack == C!ReadsItBack

\* Peaks: the buckets of peaks share the samples out without gap or overlap.
BucketsCover == P!BucketsCover

\* HttpFront: errors of the inner layers carry the CORS header too.
CorsOnEveryAnswer == H!CorsOnEveryAnswer

\* HttpFront: resolve() starts only once key, input and bucket are checked.
NoWorkUnchecked == H!NoWorkUnchecked

\* VideoId: where the port finds another id than the Node service, or none, it is
\* for one of two reasons.
AgreesWithNode == I!AgreesWithNode

\* ChildOutput: the progress announced last is that of the newest whole line.
ProgressIsCurrent == O!ProgressIsCurrent

\* ChildOutput: the tail is the end of the output; when the cut panics.
TailIsEnd == O!TailIsEnd

\* SongsCollection: its type invariant.
SongsTyped == S!TypeOK

\* SongsCollection: the server accepts every update that mongo_save builds.
NeverRefused == S!NeverRefused

\* SongsCollection: each save is one atomic enrichment of one record.
AtomicSave == S!AtomicSave
=============================================================================
