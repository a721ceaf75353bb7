------------------------------ MODULE VideoId ------------------------------
(***************************************************************************)
(* extract_video_id of rust/src/resolver.rs, next to the function of the   *)
(* Node service that it is a port of.  An input is put together from the   *)
(* pieces that decide: markers and parts of them, runs of id characters,   *)
(* and characters that end one.  An id is known by the token it starts at; *)
(* 0 is None.                                                              *)
(***************************************************************************)
EXTENDS Integers, FiniteSets, SequencesExt

CONSTANT MaxPieces   \* bound: pieces in an input

VARIABLE input       \* the pieces so far, each a sequence of tokens

\* Runs of 5, 11 and 12 id characters that hold no marker: "id5" and so on.
Piece ==
  {<<"?", "v", "=">>, <<"&", "v", "=">>, <<"youtu.be", "/">>, <<"/", "embed", "/">>,
   <<"/", "shorts", "/">>, <<"/", "v", "/">>, <<"v", "/">>,
   <<"id5">>, <<"id11">>, <<"id12">>, <<".">>, <<" ">>}

Init == input = <<>>

AddPiece == Len(input) < MaxPieces /\ \E p \in Piece : input' = Append(input, p)

Spec == Init /\ [][AddPiece]_input

-----------------------------------------------------------------------------
\* is_id_char: how many id characters the token t begins with, and whether they
\* are all of it.
Lead(t) ==
  CASE t \in {"id5", "youtu.be", "embed"} -> 5 [] t = "shorts" -> 6 [] t = "v" -> 1
    [] t = "id11" -> 11 [] t = "id12" -> 12 [] OTHER -> 0

Whole(t) == Lead(t) > 0 /\ t # "youtu.be"

\* take_while: the id characters of s from token p on.
IdRun(s, p) ==
  LET run[i \in 1 .. Len(s) + 1] ==
        IF i > Len(s) THEN 0
        ELSE Lead(s[i]) + (IF Whole(s[i]) THEN run[i + 1] ELSE 0)
  IN  run[p]

\* Where s goes on after a marker m.
After(s, m) ==
  {p \in Len(m) + 1 .. Len(s) + 1 : SubSeq(s, p - Len(m), p - 1) = m}

\* The trimmed input, if it is an id.
BareId(s) ==
  LET text == {p \in 1 .. Len(s) : s[p] # " "}
  IN  IF /\ text # {}
         /\ \A p \in Min(text) .. Max(text) : Whole(s[p])
         /\ IdRun(s, Min(text)) = 11
      THEN Min(text) ELSE 0

Markers == <<<<"?", "v", "=">>, <<"&", "v", "=">>, <<"youtu.be", "/">>,
             <<"/", "embed", "/">>, <<"/", "shorts", "/">>, <<"/", "v", "/">>>>

\* Faulty variant of TakeEleven: a longer run is no id.
TakeAll(s, p) == IdRun(s, p) = 11

\* take11: the first eleven of a run, longer or not.
TakeEleven(s, p) == IdRun(s, p) >= 11

\* Marker by marker, each at its first place only.
ExtractVideoId(s) ==
  LET first(k) == Min(After(s, Markers[k]))
      hits == {k \in DOMAIN Markers :
                 After(s, Markers[k]) # {} /\ TakeEleven(s, first(k))}
  IN  IF hits # {} THEN first(Min(hits)) ELSE BareId(s)

-----------------------------------------------------------------------------
\* extractVideoId of src/resolve.controller.ts: three patterns in order, each at
\* the first place where it matches with an id.
Patterns == <<{Markers[1], Markers[2]}, {Markers[3]}, {Markers[4], Markers[5], Markers[6]}>>

Places(s, k) == UNION {After(s, m) : m \in Patterns[k]}

NodeVideoId(s) ==
  LET match(k) == {p \in Places(s, k) : IdRun(s, p) >= 11}
      hits     == {k \in DOMAIN Patterns : match(k) # {}}
  IN  IF hits # {} THEN Min(match(Min(hits))) ELSE BareId(s)

-----------------------------------------------------------------------------
\* The places after marker k where an id begins.
IdsAfter(s, k) == {p \in After(s, Markers[k]) : IdRun(s, p) >= 11}

\* Some marker has no id at its first place and has one at a later place.
LaterPlace(s) ==
  \E k \in DOMAIN Markers :
    IdsAfter(s, k) # {} /\ Min(After(s, Markers[k])) \notin IdsAfter(s, k)

\* Two markers of one pattern have ids, and the one the port tries last has the
\* first of them.
TriedLate(s) ==
  \E j \in DOMAIN Patterns : \E k, l \in {m \in DOMAIN Markers : Markers[m] \in Patterns[j]} :
    /\ k < l /\ IdsAfter(s, k) # {} /\ IdsAfter(s, l) # {}
    /\ Min(IdsAfter(s, l)) < Min(IdsAfter(s, k))

\* How the port parts from the original, over all inputs: it accepts none that
\* the original refuses; it refuses one that the original accepts only because a
\* marker is looked for once; and it finds another id only for that reason or
\* because the markers of a pattern have an order of their own.
AgreesWithNode ==
  LET s    == FlattenSeq(input)
      port == ExtractVideoId(s)
      node == NodeVideoId(s)
  IN  /\ port # 0 => node # 0
      /\ port # node => LaterPlace(s) \/ (port # 0 /\ TriedLate(s))

\* "port extractVideoId" (resolver.rs:10), of a service that is a port "1:1"
\* (README.md:7): the same id for every input.
PortIsFaithful ==
  LET s == FlattenSeq(input)
  IN  ExtractVideoId(s) = NodeVideoId(s)
=============================================================================
