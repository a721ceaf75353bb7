------------------------------ MODULE ChildRun ------------------------------
(***************************************************************************)
(* One run of a child process: yt_dlp and run_ffmpeg of                    *)
(* rust/src/services.rs, which have the same shape.  The caller drains one *)
(* pipe under the timeout (yt_dlp: stdout, run_ffmpeg: stderr), a spawned  *)
(* task drains the other (err_task, pcm_task); at the end of the first     *)
(* pipe the caller waits for the child, then for the task.                 *)
(*                                                                         *)
(* The child writes to both pipes in an order of its own and blocks on a   *)
(* full one.  It may leave a process of its own behind that has inherited  *)
(* both pipes, as yt-dlp does with the ffmpeg it downloads through.        *)
(***************************************************************************)
EXTENDS Integers

CONSTANTS
  PipeCapacity,   \* chunks a pipe holds
  MaxChunks,      \* bound: chunks the child writes to one pipe
  Grandchild      \* whether the child may leave a process behind

ASSUME CapacityAssumption == PipeCapacity \in Nat \ {0} /\ MaxChunks \in Nat
ASSUME GrandchildAssumption == Grandchild \in BOOLEAN

Pipe == {"main", "side"}

VARIABLES
  left,      \* chunks the child has still to write to each pipe
  writing,   \* the pipe the child writes to next
  pipe,      \* chunks in each pipe
  got,       \* chunks read from each pipe
  total,     \* chunks the child set out to write to each pipe
  child,     \* "running", "ok" or "failed" (exited), "reaped"
  status,    \* the exit status that wait() reported
  holder,    \* a process the child left behind is alive and holds both pipes
  caller,    \* "reading", "waiting", "joining" or "returned"
  side,      \* the spawned task: "reading" or "done"
  result     \* "none", "ok", "failed" or "timeout"

vars == <<left, writing, pipe, got, total, child, status, holder, caller, side, result>>

TypeOK ==
  /\ left \in [Pipe -> 0 .. MaxChunks] /\ total \in [Pipe -> 0 .. MaxChunks]
  /\ got \in [Pipe -> 0 .. MaxChunks] /\ pipe \in [Pipe -> 0 .. PipeCapacity]
  /\ writing \in Pipe
  /\ child \in {"running", "ok", "failed", "reaped"}
  /\ status \in {"none", "ok", "failed"}
  /\ holder \in BOOLEAN
  /\ caller \in {"reading", "waiting", "joining", "returned"}
  /\ side \in {"reading", "done"}
  /\ result \in {"none", "ok", "failed", "timeout"}

\* Spawned, pipes taken, side task started.
Init ==
  /\ total \in [Pipe -> 0 .. MaxChunks]
  /\ left = total
  /\ writing \in Pipe
  /\ pipe = [p \in Pipe |-> 0]
  /\ got = [p \in Pipe |-> 0]
  /\ child = "running"
  /\ status = "none"
  /\ holder = FALSE
  /\ caller = "reading"
  /\ side = "reading"
  /\ result = "none"

-----------------------------------------------------------------------------
(* The child *)

ChildWrite ==
  /\ child = "running"
  /\ left[writing] > 0 /\ pipe[writing] < PipeCapacity
  /\ left' = [left EXCEPT ![writing] = @ - 1]
  /\ pipe' = [pipe EXCEPT ![writing] = @ + 1]
  /\ writing' \in Pipe
  /\ UNCHANGED <<got, total, child, status, holder, caller, side, result>>

\* Nothing left for the pipe it had in mind: it turns to the other.
ChildTurns ==
  /\ child = "running" /\ left[writing] = 0 /\ \E p \in Pipe : left[p] > 0
  /\ writing' \in {p \in Pipe : left[p] > 0}
  /\ UNCHANGED <<left, pipe, got, total, child, status, holder, caller, side, result>>

\* It succeeds when it has written everything, and may fail or be killed (the
\* container's OOM killer) at any time.
ChildExit ==
  /\ child = "running"
  /\ \/ child' = "ok" /\ left = [p \in Pipe |-> 0]
     \/ child' = "failed"
  /\ holder' \in {FALSE, Grandchild}
  /\ UNCHANGED <<left, writing, pipe, got, total, status, caller, side, result>>

HolderExit ==
  /\ holder
  /\ holder' = FALSE
  /\ UNCHANGED <<left, writing, pipe, got, total, child, status, caller, side, result>>

\* End of file: nothing in the pipe and nobody to write to it.
AtEnd(p) == pipe[p] = 0 /\ child # "running" /\ ~holder

-----------------------------------------------------------------------------
(* The caller and its side task *)

\* Faulty variant of Drain: a read that does not wait for a chunk.
DrainBlind(p) ==
  /\ pipe' = [pipe EXCEPT ![p] = @ - 1]
  /\ got' = [got EXCEPT ![p] = @ + 1]

Drain(p) ==
  /\ pipe[p] > 0
  /\ pipe' = [pipe EXCEPT ![p] = @ - 1]
  /\ got' = [got EXCEPT ![p] = @ + 1]

Read ==
  /\ caller = "reading"
  /\ \/ Drain("main") /\ UNCHANGED caller
     \/ AtEnd("main") /\ caller' = "waiting" /\ UNCHANGED <<pipe, got>>
  /\ UNCHANGED <<left, writing, total, child, status, holder, side, result>>

\* Faulty variant of Timeout: the child is left running.
TimeoutNoKill ==
  /\ caller = "reading"
  /\ caller' = "returned" /\ result' = "timeout"
  /\ UNCHANGED <<left, writing, pipe, got, total, child, status, holder, side>>

\* Faulty variant of Timeout: it guards the wait for the child, not the reading.
TimeoutLate ==
  /\ caller = "waiting"
  /\ child' = "reaped"
  /\ caller' = "returned" /\ result' = "timeout"
  /\ UNCHANGED <<left, writing, pipe, got, total, status, holder, side>>

\* The timeout runs out while the caller reads: child.kill() kills and reaps the
\* child, the side task is left to itself.
Timeout ==
  /\ caller = "reading"
  /\ child' = "reaped"
  /\ holder' \in IF child = "running" THEN {FALSE, Grandchild} ELSE {holder}
  /\ caller' = "returned" /\ result' = "timeout"
  /\ UNCHANGED <<left, writing, pipe, got, total, status, side>>

Wait ==
  /\ caller = "waiting" /\ child \in {"ok", "failed"}
  /\ status' = child
  /\ child' = "reaped"
  /\ caller' = "joining"
  /\ UNCHANGED <<left, writing, pipe, got, total, holder, side, result>>

\* Faulty variant of Join: what the side task has read so far is taken.
JoinEarly ==
  /\ caller = "joining"
  /\ caller' = "returned" /\ result' = status
  /\ UNCHANGED <<left, writing, pipe, got, total, child, status, holder, side>>

Join ==
  /\ caller = "joining" /\ side = "done"
  /\ caller' = "returned" /\ result' = status
  /\ UNCHANGED <<left, writing, pipe, got, total, child, status, holder, side>>

\* Faulty variant of SideRead: the side pipe is read after the main one.
SideReadLater ==
  /\ side = "reading" /\ caller # "reading"
  /\ \/ Drain("side") /\ UNCHANGED side
     \/ AtEnd("side") /\ side' = "done" /\ UNCHANGED <<pipe, got>>
  /\ UNCHANGED <<left, writing, total, child, status, holder, caller, result>>

SideRead ==
  /\ side = "reading"
  /\ \/ Drain("side") /\ UNCHANGED side
     \/ AtEnd("side") /\ side' = "done" /\ UNCHANGED <<pipe, got>>
  /\ UNCHANGED <<left, writing, total, child, status, holder, caller, result>>

-----------------------------------------------------------------------------
Child == ChildWrite \/ ChildTurns \/ ChildExit

Next == Child \/ HolderExit \/ Read \/ Timeout \/ Wait \/ Join \/ SideRead

Spec == Init /\ [][Next]_vars

\* The timer fires, the tasks run; of the child and of what it leaves behind
\* nothing is assumed.
FairSpec ==
  Spec /\ WF_vars(Read) /\ WF_vars(Timeout) /\ WF_vars(Wait) /\ WF_vars(Join)
       /\ WF_vars(SideRead)

-----------------------------------------------------------------------------
\* A run that succeeds has everything the child wrote, from both pipes: the PCM
\* of ffmpeg is not cut short, nor is the info JSON of yt-dlp.
OkIsComplete == result = "ok" => got = total /\ status = "ok"

\* When the call returns, and with it the permit may be released, the child is
\* dead and reaped, also after a timeout: the child itself, not the process that
\* it may have left holding its pipes.
NoChildLeft == caller = "returned" => child = "reaped"

\* The call returns, even when the child hangs and what it left behind keeps
\* its pipes for ever: "5 min for each yt-dlp/ffmpeg spawn"
\* (openwiki/operations.md:26).
RunReturns == <>(caller = "returned")

\* A child that fills both pipes, in whatever order, is never brought to a halt
\* by a pipe that nobody reads: when it blocks on one, that one can be drained.
ChildNeverStuck ==
  child = "running" /\ left[writing] > 0 /\ pipe[writing] = PipeCapacity
    => ENABLED (IF writing = "main" THEN Read ELSE SideRead)
=============================================================================
