---------------------------- MODULE ResolveSteps ----------------------------
(***************************************************************************)
(* What one call of resolve() shows while it runs: the steps it announces  *)
(* and how it may end in each.  This is what SseStream takes from the      *)
(* resolver, and what ResolverEvents shows that the resolver keeps.        *)
(***************************************************************************)
VARIABLES
  running,   \* a call is under way
  step,      \* the step it announced last, "start" before the first
  outcome    \* how the last call ended: "none" while it runs, or if it vanished

vars == <<running, step, outcome>>

Steps    == {"check", "downloading", "encoding", "uploading", "backfilling"}
Outcomes == {"done", "error"}

\* Faulty variant of Following: the upload is announced before the encode.
FollowingSwapped(s) ==
  CASE s = "start"       -> {"check", "backfilling"}
    [] s = "check"       -> {"downloading", "backfilling"}
    [] s = "downloading" -> {"uploading"}
    [] s = "uploading"   -> {"encoding"}
    [] OTHER             -> {}

\* The step that may be announced after s.
Following(s) ==
  CASE s = "start"       -> {"check", "backfilling"}
    [] s = "check"       -> {"downloading", "backfilling"}
    [] s = "downloading" -> {"encoding"}
    [] s = "encoding"    -> {"uploading"}
    [] OTHER             -> {}

\* How the call may end in s: a fresh song only after its upload, a backfill
\* only well.
Ending(s) ==
  CASE s \in {"start", "check", "uploading"} -> {"done", "error"}
    [] s = "backfilling"                     -> {"done"}
    [] OTHER                                 -> {"error"}

Init == ~running /\ step = "start" /\ outcome = "none"

Start == ~running /\ running' = TRUE /\ step' = "start" /\ outcome' = "none"

Announce ==
  running /\ step' \in Following(step) /\ UNCHANGED <<running, outcome>>

Return ==
  running /\ running' = FALSE /\ outcome' \in Ending(step) /\ UNCHANGED step

\* Dropped with its client, panicked, or gone with the process.
Vanish == running' = FALSE /\ outcome' = "none" /\ UNCHANGED step

Next == Start \/ Announce \/ Return \/ Vanish

Spec == Init /\ [][Next]_vars
=============================================================================
