---------------------------- MODULE ChildOutput ----------------------------
(***************************************************************************)
(* What run_ffmpeg of rust/src/services.rs makes of ffmpeg's stderr: lines *)
(* put together from chunks cut anywhere, the progress it announces from   *)
(* them, and the tail it keeps for the error message.                      *)
(*                                                                         *)
(* The output is a sequence of marks: a duration or a time with its number *)
(* (parse_hms), a character of one byte or of several, an end of line (\r  *)
(* or \n).  Whatever parse_hms refuses is text.                            *)
(***************************************************************************)
EXTENDS Integers, SequencesExt

CONSTANTS
  MaxOutput,   \* bound: marks in the output
  MaxChunk,    \* bound: marks in one chunk
  TailMax      \* bytes of the tail (500)

VARIABLES
  written,     \* the output so far (history)
  line, duration, tail, pct,   \* the locals of the loop; pct: announced last
  panicked

vars == <<written, line, duration, tail, pct, panicked>>

None == -1

Marks(kind, numbers) == {[kind |-> kind, n |-> n] : n \in numbers}

Mark == Marks("Duration:", {0, 2}) \cup Marks("time=", {1, 2})
          \cup Marks("char", {1, 2}) \cup Marks("eol", {0})

Init ==
  /\ written = <<>>
  /\ line = <<>> /\ duration = 0 /\ tail = <<>> /\ pct = None
  /\ panicked = FALSE

\* Of the first marker in the line.
ParseHms(s, marker) ==
  LET at == {i \in DOMAIN s : s[i].kind = marker}
  IN  IF at = {} THEN None ELSE s[Min(at)].n

Percent(t, d) == Min({(100 * t) \div d, 100})

\* Bytes of a sequence of marks; only what a char has matters here.
Size(s) == FoldLeft(LAMBDA n, k : n + (IF k.kind = "char" THEN k.n ELSE 1), 0, s)

\* Where to cut so that n bytes go: none if that is inside a character.
CutsAt(s, n) == {i \in 0 .. Len(s) : Size(SubSeq(s, 1, i)) = n}

\* Faulty variant of Excess: characters are counted for bytes.
ExcessChars(s) == Len(s) - TailMax

Excess(s) == Size(s) - TailMax

\* A line that is complete: progress, then the tail.
EndLine(st) ==
  LET d     == ParseHms(st.line, "Duration:")
      t     == ParseHms(st.line, "time=")
      total == IF d = None THEN st.duration ELSE d
      text  == st.tail \o st.line
      cut   == CutsAt(text, Excess(text))
  IN  [line     |-> <<>>,
       duration |-> total,
       pct      |-> IF total > 0 /\ t # None THEN Percent(t, total) ELSE st.pct,
       tail     |-> IF Excess(text) <= 0 \/ cut = {} THEN text
                    ELSE SubSeq(text, Min(cut) + 1, Len(text)),
       panicked |-> Excess(text) > 0 /\ cut = {}]

\* One byte of a chunk; an empty line is passed over.
Take(st, k) ==
  CASE st.panicked                       -> st
    [] ~st.panicked /\ k.kind # "eol"    -> [st EXCEPT !.line = Append(@, k)]
    [] ~st.panicked /\ k.kind = "eol"    -> IF st.line = <<>> THEN st ELSE EndLine(st)

\* Faulty variant of Pending: each chunk is parsed by itself.
PendingNone == <<>>

\* The line that a new chunk goes on with.
Pending == line

\* stderr.read returns a chunk c.
Chunk(c) ==
  LET st == FoldLeft(Take, [line |-> Pending, duration |-> duration, tail |-> tail,
                            pct |-> pct, panicked |-> FALSE], c)
  IN  /\ ~panicked
      /\ Len(written) + Len(c) <= MaxOutput
      /\ written' = written \o c
      /\ line' = st.line /\ duration' = st.duration /\ tail' = st.tail
      /\ pct' = st.pct /\ panicked' = st.panicked

Next == \E n \in 1 .. MaxChunk : \E c \in [1 .. n -> Mark] : Chunk(c)

Spec == Init /\ [][Next]_vars

-----------------------------------------------------------------------------
Eols == {e \in DOMAIN written : written[e].kind = "eol"}

\* A mark of this kind at p, in a complete line and the first one there.
Leads(p, kind) ==
  /\ written[p].kind = kind
  /\ \E e \in Eols : e > p
  /\ \A q \in 1 .. p - 1 : written[q].kind = kind => \E e \in Eols : q < e /\ e < p

\* The duration known when the line of p is complete, 0 if none is.
DurationAt(p) ==
  LET end   == Min({e \in Eols : e > p})
      known == {q \in 1 .. end : Leads(q, "Duration:")}
  IN  IF known = {} THEN 0 ELSE written[Max(known)].n

\* What was announced last is the newest time of a complete line, as a part of
\* the newest duration, however the output was cut into chunks: never a time of
\* an earlier line, which a buffer kept over lines would give
\* (services.rs:478-479), nor half a line.
ProgressIsCurrent ==
  LET times == {p \in DOMAIN written : Leads(p, "time=") /\ DurationAt(p) > 0}
  IN  ~panicked => pct = IF times = {} THEN None
                         ELSE Percent(written[Max(times)].n, DurationAt(Max(times)))

\* The text of all lines up to position e.
TextTo(e) ==
  FoldLeft(LAMBDA s, k : IF k.kind = "eol" THEN s ELSE Append(s, k), <<>>, SubSeq(written, 1, e))

\* The last TailMax bytes of s, unless a character straddles their start.
LastBytes(s) == {SubSeq(s, i + 1, Len(s)) : i \in CutsAt(s, Size(s) - TailMax)}

Short(s) == Size(s) <= TailMax

\* The tail is the end of all complete lines together, TailMax bytes of it, and
\* the loop panics just when at the end of some line a character straddles the
\* place to cut.
TailIsEnd ==
  /\ panicked <=> \E e \in Eols : ~Short(TextTo(e)) /\ LastBytes(TextTo(e)) = {}
  /\ ~panicked =>
       LET text == TextTo(IF Eols = {} THEN 0 ELSE Max(Eols))
       IN  IF Short(text) THEN tail = text ELSE tail \in LastBytes(text)
=============================================================================
