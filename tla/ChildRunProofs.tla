--------------------------- MODULE ChildRunProofs ---------------------------
(***************************************************************************)
(* Theorems of ChildRun, for every pipe capacity, every output and every   *)
(* way the child writes it, with or without a process left behind.         *)
(***************************************************************************)
EXTENDS ChildRun, TLAPS

\* Nothing is in the pipe and nobody is left to write to it.
Ended(p) == pipe[p] = 0 /\ child # "running" /\ ~holder

\* No chunk is lost or read twice on its way.
Conserved == \A p \in Pipe : left[p] + pipe[p] + got[p] = total[p]

\* A child that reports success has written everything.
OkWroteAll == child = "ok" \/ status = "ok" => \A p \in Pipe : left[p] = 0

\* The end of a pipe, once seen, stays the end.
EndsSeen ==
  /\ caller \in {"waiting", "joining"} \/ result \in {"ok", "failed"} => Ended("main")
  /\ side = "done" => Ended("side")

\* The child is waited for before the side task, and before any return.
Waited ==
  /\ caller \in {"joining", "returned"} => child = "reaped"
  /\ caller = "joining" => status \in {"ok", "failed"}
  /\ result = "ok" => status = "ok" /\ side = "done"
  /\ caller # "returned" => result = "none"

RunInv == TypeOK /\ Conserved /\ OkWroteAll /\ EndsSeen /\ Waited

\* A run begins in the invariant.
LEMMA RunStarts == Init => RunInv
<1> SUFFICES ASSUME Init PROVE RunInv
  OBVIOUS
<1>1. TypeOK
  <2>1. 0 \in 0 .. MaxChunks /\ 0 \in 0 .. PipeCapacity
    BY CapacityAssumption
  <2> QED BY <2>1 DEF Init, TypeOK
<1>2. Conserved
  <2>1. \A p \in Pipe : /\ left[p] = total[p] /\ total[p] \in Nat
                        /\ pipe[p] = 0 /\ got[p] = 0
    BY CapacityAssumption DEF Init
  <2> QED BY <2>1 DEF Conserved
<1>3. OkWroteAll /\ EndsSeen /\ Waited
  BY DEF Init, OkWroteAll, EndsSeen, Waited
<1> QED BY <1>1, <1>2, <1>3 DEF RunInv

\* Every step of the child, its pipes and the caller keeps the invariant.
LEMMA RunStep == RunInv /\ [Next]_vars => RunInv'
<1> SUFFICES ASSUME RunInv, [Next]_vars PROVE RunInv'
  OBVIOUS
<1> USE CapacityAssumption, GrandchildAssumption
    DEF RunInv, TypeOK, Conserved, OkWroteAll, EndsSeen, Waited, Ended, Pipe
<1>1. CASE ChildWrite
  BY <1>1 DEF ChildWrite
<1>2. CASE ChildTurns
  BY <1>2 DEF ChildTurns
<1>3. CASE ChildExit
  BY <1>3 DEF ChildExit
<1>4. CASE HolderExit
  BY <1>4 DEF HolderExit
<1>5. CASE Read
  BY <1>5 DEF Read, Drain, AtEnd
<1>6. CASE Timeout
  BY <1>6 DEF Timeout
<1>7. CASE Wait
  BY <1>7 DEF Wait
<1>8. CASE Join
  BY <1>8 DEF Join
<1>9. CASE SideRead
  BY <1>9 DEF SideRead, Drain, AtEnd
<1>10. CASE UNCHANGED vars
  BY <1>10 DEF vars
<1> QED
  BY <1>1, <1>2, <1>3, <1>4, <1>5, <1>6, <1>7, <1>8, <1>9, <1>10 DEF Next, Child

\* The invariant of a run.
LEMMA RunInvariant == Spec => []RunInv
BY RunStarts, RunStep, PTL DEF Spec

\* Pipes never overflow, and nothing is read that was not written.
THEOREM RunTypeCorrect == Spec => []TypeOK
<1>1. RunInv => TypeOK
  BY DEF RunInv
<1> QED BY <1>1, RunInvariant, PTL

\* A run that succeeds has both pipes to their end, in whatever order the child
\* filled them and whatever it left behind: neither the PCM of ffmpeg nor the
\* info JSON of yt-dlp is cut short.
THEOREM SuccessIsComplete == Spec => []OkIsComplete
<1>1. RunInv => OkIsComplete
  <2> SUFFICES ASSUME RunInv, result = "ok" PROVE got = total /\ status = "ok"
    BY DEF OkIsComplete
  <2>1. status = "ok" /\ Ended("main") /\ Ended("side")
    BY DEF RunInv, Waited, EndsSeen
  <2>2. \A p \in Pipe : left[p] = 0 /\ pipe[p] = 0
    BY <2>1 DEF RunInv, OkWroteAll, Ended, Pipe
  <2>3. \A p \in Pipe : got[p] = total[p]
    BY <2>2 DEF RunInv, Conserved, TypeOK
  <2> QED BY <2>1, <2>3 DEF RunInv, TypeOK
<1> QED BY <1>1, RunInvariant, PTL

\* yt_dlp and run_ffmpeg return only when their child is dead and reaped, also
\* when the timeout struck.  It says nothing of what the child has spawned, which
\* may run on without a permit (LeavesBehind of Resolver).
THEOREM ReturnedIsReaped == Spec => []NoChildLeft
<1>1. RunInv => NoChildLeft
  BY DEF RunInv, Waited, NoChildLeft
<1> QED BY <1>1, RunInvariant, PTL

\* What ChildNeverStuck says without ENABLED: when the child blocks on a full
\* pipe, the reader of that pipe is still at its read, and a chunk is there.
FullPipeIsRead ==
  child = "running" /\ left[writing] > 0 /\ pipe[writing] = PipeCapacity =>
    /\ pipe[writing] > 0
    /\ IF writing = "main" THEN caller = "reading" ELSE side = "reading"

\* The two pipes are drained side by side for as long as the child runs, so a
\* child that fills both, in whatever order, is not brought to a halt by them.
THEOREM NoDeadlockOnPipes == Spec => []FullPipeIsRead
<1>1. RunInv => FullPipeIsRead
  BY CapacityAssumption
  DEF RunInv, TypeOK, EndsSeen, Ended, Waited, FullPipeIsRead, Pipe
<1> QED BY <1>1, RunInvariant, PTL
=============================================================================
