------------------------------ MODULE SseStream ------------------------------
(***************************************************************************)
(* SSE requests: sse_resolve of rust/src/main.rs and the STEPS registry of *)
(* rust/src/services.rs that they share.                                   *)
(*                                                                         *)
(* A stream ends when every sender of its channel is gone.  Three places   *)
(* hold one: the registry, the ping task, which takes it from there, and   *)
(* the task that runs resolve().  Tasks and clients run side by side.      *)
(*                                                                         *)
(* The registry is keyed by a token made of the process id and a clock     *)
(* reading, so two requests may get the same one: the later register() then*)
(* takes the place of the earlier.  resolve() itself is ResolveSteps.      *)
(***************************************************************************)
EXTENDS Integers

CONSTANTS
  Stream,     \* SSE requests
  Token,      \* clock readings
  NoStream, NoToken,
  Panics      \* run_ffmpeg may panic under resolve()

ASSUME StreamAssumption == NoStream \notin Stream /\ NoToken \notin Token
ASSUME PanicsAssumption == Panics \in BOOLEAN

VARIABLES
  registry,  \* STEPS: whose sender is under each token
  token,     \* of each request, NoToken before it arrives
  task,      \* next statement of its resolve task
  step,      \* the step its resolve() is in, "start" before the first and after
  outcome,   \* the event it is to report
  ping,      \* its ping task: "spawned", "ticking" or "ended"
  pinged,    \* whose sender the ping task holds
  aborted,   \* ping.abort() has been called
  client,    \* "open", "gone" (disconnected) or "eof" (saw the stream end)
  last,      \* last step or outcome in its channel, "none" when it is dropped
  heard      \* outcomes in its channel

taskVars   == <<token, task, step, outcome, aborted>>
pingVars   == <<ping, pinged>>
clientVars == <<client, last, heard>>
vars       == <<registry, taskVars, pingVars, clientVars>>

R(s) == INSTANCE ResolveSteps
          WITH running <- task[s] = "resolve", step <- step[s], outcome <- outcome[s]

Steps    == {"check", "downloading", "encoding", "uploading", "backfilling"}
Outcomes == {"done", "error"}

TypeOK ==
  /\ registry \in [Token -> Stream \cup {NoStream}]
  /\ token \in [Stream -> Token \cup {NoToken}]
  /\ task \in [Stream -> {"new", "resolve", "send", "unregister", "abort", "drop", "end"}]
  /\ step \in [Stream -> Steps \cup {"start"}]
  /\ outcome \in [Stream -> Outcomes \cup {"none"}]
  /\ ping \in [Stream -> {"spawned", "ticking", "ended"}]
  /\ pinged \in [Stream -> Stream \cup {NoStream}]
  /\ aborted \in [Stream -> BOOLEAN]
  /\ client \in [Stream -> {"open", "gone", "eof"}]
  /\ last \in [Stream -> Steps \cup Outcomes \cup {"none"}]
  /\ heard \in [Stream -> SUBSET Outcomes]
  /\ \A s \in Stream : ping[s] = "ticking" <=> pinged[s] \in Stream

Init ==
  /\ registry = [k \in Token |-> NoStream]
  /\ token = [s \in Stream |-> NoToken]
  /\ task = [s \in Stream |-> "new"]
  /\ step = [s \in Stream |-> "start"]
  /\ outcome = [s \in Stream |-> "none"]
  /\ ping = [s \in Stream |-> "spawned"]
  /\ pinged = [s \in Stream |-> NoStream]
  /\ aborted = [s \in Stream |-> FALSE]
  /\ client = [s \in Stream |-> "open"]
  /\ last = [s \in Stream |-> "none"]
  /\ heard = [s \in Stream |-> {}]

\* A sender of s's channel is left.
Held(s) == \/ \E k \in Token : registry[k] = s
           \/ \E p \in Stream : pinged[p] = s
           \/ task[s] \notin {"new", "end"}

\* tx.send: an event for a dropped receiver is lost.
Send(s, e) ==
  IF client[s] = "open"
  THEN /\ last' = [last EXCEPT ![s] = e]
       /\ heard' = [heard EXCEPT ![s] = @ \cup ({e} \cap Outcomes)]
  ELSE UNCHANGED <<last, heard>>

-----------------------------------------------------------------------------
(* The resolve task *)

\* sse_resolve: registered, and both tasks spawned, before the response goes out.
Open(s) ==
  /\ task[s] = "new"
  /\ \E k \in Token : /\ token' = [token EXCEPT ![s] = k]
                      /\ registry' = [registry EXCEPT ![k] = s]
  /\ task' = [task EXCEPT ![s] = "resolve"]
  /\ UNCHANGED <<step, outcome, aborted, pingVars, clientVars>>

\* Faulty variant of Announce: the step that is over is announced.
AnnounceOver(s) ==
  /\ task[s] = "resolve"
  /\ \E e \in R(s)!Following(step[s]) : step' = [step EXCEPT ![s] = e]
  /\ LET t == registry[token[s]]
     IN  IF t # NoStream /\ step[s] # "start" THEN Send(t, step[s])
         ELSE UNCHANGED <<last, heard>>
  /\ UNCHANGED <<registry, token, task, outcome, aborted, pingVars, client>>

\* emit(): the sender is looked up in the registry, and again for every pct.
Announce(s) ==
  /\ task[s] = "resolve"
  /\ \E e \in R(s)!Following(step[s]) \cup ({step[s]} \cap {"encoding", "backfilling"}) :
       /\ step' = [step EXCEPT ![s] = e]
       /\ LET t == registry[token[s]]
          IN  IF t # NoStream THEN Send(t, e) ELSE UNCHANGED <<last, heard>>
  /\ UNCHANGED <<registry, token, task, outcome, aborted, pingVars, client>>

Resolved(s) ==
  /\ task[s] = "resolve"
  /\ \E o \in R(s)!Ending(step[s]) : outcome' = [outcome EXCEPT ![s] = o]
  /\ task' = [task EXCEPT ![s] = "send"]
  /\ step' = [step EXCEPT ![s] = "start"]
  /\ UNCHANGED <<registry, token, aborted, pingVars, clientVars>>

\* Faulty variant of SendOutcome: the outcome goes where the steps go.
SendOutcomeByToken(s) ==
  /\ task[s] = "send"
  /\ LET t == registry[token[s]]
     IN  IF t # NoStream THEN Send(t, outcome[s]) ELSE UNCHANGED <<last, heard>>
  /\ task' = [task EXCEPT ![s] = "unregister"]
  /\ UNCHANGED <<registry, token, step, outcome, aborted, pingVars, client>>

\* The outcome goes to the task's own sender.
SendOutcome(s) ==
  /\ task[s] = "send"
  /\ Send(s, outcome[s])
  /\ task' = [task EXCEPT ![s] = "unregister"]
  /\ UNCHANGED <<registry, token, step, outcome, aborted, pingVars, client>>

\* Faulty variant of Unregister: the registry keeps its sender.
UnregisterSkipped(s) ==
  /\ task[s] = "unregister"
  /\ task' = [task EXCEPT ![s] = "abort"]
  /\ UNCHANGED <<registry, token, step, outcome, aborted, pingVars, clientVars>>

\* Whatever is under the token goes.
Unregister(s) ==
  /\ task[s] = "unregister"
  /\ registry' = [registry EXCEPT ![token[s]] = NoStream]
  /\ task' = [task EXCEPT ![s] = "abort"]
  /\ UNCHANGED <<token, step, outcome, aborted, pingVars, clientVars>>

\* Faulty variant of AbortPing: the ping task is left to itself.
AbortPingSkipped(s) ==
  /\ task[s] = "abort"
  /\ task' = [task EXCEPT ![s] = "drop"]
  /\ UNCHANGED <<registry, token, step, outcome, aborted, pingVars, clientVars>>

AbortPing(s) ==
  /\ task[s] = "abort"
  /\ aborted' = [aborted EXCEPT ![s] = TRUE]
  /\ task' = [task EXCEPT ![s] = "drop"]
  /\ UNCHANGED <<registry, token, step, outcome, pingVars, clientVars>>

DropTx(s) ==
  /\ task[s] = "drop"
  /\ task' = [task EXCEPT ![s] = "end"]
  /\ UNCHANGED <<registry, token, step, outcome, aborted, pingVars, clientVars>>

\* A panic unwinds the task: its own sender goes, nothing is reported or
\* unregistered, and dropping the JoinHandle only detaches the ping task.
Panic(s) ==
  /\ Panics /\ task[s] = "resolve" /\ step[s] \in {"encoding", "backfilling"}
  /\ task' = [task EXCEPT ![s] = "end"]
  /\ step' = [step EXCEPT ![s] = "start"]
  /\ UNCHANGED <<registry, token, outcome, aborted, pingVars, clientVars>>

-----------------------------------------------------------------------------
(* The ping task.  A ping that is sent leaves no trace here. *)

\* Faulty variant of PingStart: the sender is taken to be there.
PingStartUnchecked(s) ==
  /\ ping[s] = "spawned" /\ token[s] # NoToken
  /\ pinged' = [pinged EXCEPT ![s] = registry[token[s]]]
  /\ ping' = [ping EXCEPT ![s] = "ticking"]
  /\ UNCHANGED <<registry, taskVars, clientVars>>

\* sender_of: nothing to ping when the token is already unregistered.
PingStart(s) ==
  /\ ping[s] = "spawned" /\ token[s] # NoToken
  /\ pinged' = [pinged EXCEPT ![s] = registry[token[s]]]
  /\ ping' = [ping EXCEPT ![s] = IF registry[token[s]] = NoStream THEN "ended" ELSE "ticking"]
  /\ UNCHANGED <<registry, taskVars, clientVars>>

PingEnds(s) ==
  /\ ping' = [ping EXCEPT ![s] = "ended"]
  /\ pinged' = [pinged EXCEPT ![s] = NoStream]
  /\ UNCHANGED <<registry, taskVars, clientVars>>

\* A tick finds the receiver dropped.
PingTick(s) == ping[s] = "ticking" /\ client[pinged[s]] # "open" /\ PingEnds(s)

\* abort() takes effect when the ping task is next suspended.
PingAborted(s) == aborted[s] /\ ping[s] # "ended" /\ PingEnds(s)

-----------------------------------------------------------------------------
(* The client reads its channel to the end, or leaves. *)

Leave(s, c) ==
  /\ task[s] # "new" /\ client[s] = "open"
  /\ client' = [client EXCEPT ![s] = c]
  /\ UNCHANGED <<registry, taskVars, pingVars>>

Eof(s) == ~Held(s) /\ Leave(s, "eof") /\ UNCHANGED <<last, heard>>

\* The connection is closed from the other end: the body goes, and with it the
\* receiver and what is in the channel.
Disconnect(s) ==
  /\ Leave(s, "gone")
  /\ last' = [last EXCEPT ![s] = "none"]
  /\ heard' = [heard EXCEPT ![s] = {}]

-----------------------------------------------------------------------------
Report(s) == SendOutcome(s) \/ Unregister(s) \/ AbortPing(s) \/ DropTx(s)

Task(s) == Open(s) \/ Announce(s) \/ Resolved(s) \/ Report(s) \/ Panic(s)

Ping(s) == PingStart(s) \/ PingTick(s) \/ PingAborted(s)

Next == \E s \in Stream : Task(s) \/ Ping(s) \/ Eof(s) \/ Disconnect(s)

Spec == Init /\ [][Next]_vars

\* resolve() ends (EveryRequestAnswered of Resolver), a spawned task runs on,
\* an aborted one stops, and a client that is there reads.
FairSpec ==
  /\ Spec
  /\ \A s \in Stream :
       /\ WF_vars(Resolved(s) \/ Panic(s)) /\ WF_vars(Report(s))
       /\ WF_vars(PingStart(s)) /\ WF_vars(PingTick(s)) /\ WF_vars(PingAborted(s))
       /\ WF_vars(Eof(s))

-----------------------------------------------------------------------------
Opened(s) == task[s] # "new"

\* No other request has got the same token.
Alone(s) == \A t \in Stream \ {s} : token[t] # token[s]

\* The resolve task is gone without having sent an outcome.
Panicked(s) == task[s] = "end" /\ outcome[s] = "none"

\* A request with the same token, itself perhaps, has panicked.
Disturbed(s) == \E t \in Stream : token[t] = token[s] /\ Panicked(t)

\* A stream that has ended told its client its own outcome and no other, also
\* when the clock gave two requests one token; a stream alone under its token
\* told it last: "ending with event: done or event: error"
\* (openwiki/architecture.md:66).
EofAfterOutcome ==
  \A s \in Stream : client[s] = "eof" =>
    /\ heard[s] = {outcome[s]} \ {"none"}
    /\ outcome[s] = "none" => ~Alone(s)
    /\ Alone(s) => last[s] = outcome[s]

\* The order of the documented steps (docs/API.md:97).
Rank(e) ==
  CASE e = "none" -> 0 [] e = "check" -> 1 [] e = "downloading" -> 2
    [] e = "backfilling" -> 2 [] e = "encoding" -> 3 [] e = "uploading" -> 4
    [] OTHER -> 5

\* A stream alone under its token shows the step its own resolve() is in, never
\* one of another request, in the documented order and none after the outcome.
StepsInOrder ==
  [][\A s \in Stream : Alone(s)' /\ client'[s] = "open" /\ last'[s] # last[s] =>
       /\ last'[s] \in {step'[s], outcome[s]}
       /\ Rank(last[s]) < Rank(last'[s])]_vars

\* The stream of a client that stays is ended by the server
\* (openwiki/architecture.md:66).
StreamEnds ==
  \A s \in Stream : Opened(s) /\ client[s] = "open" ~> client[s] \in {"eof", "gone"}

\* It is, unless a resolve task panics: that of the stream, or one that shares
\* its token.
StreamEndsUnlessPanic ==
  \A s \in Stream :
    Opened(s) /\ client[s] = "open" ~> client[s] \in {"eof", "gone"} \/ Disturbed(s)

\* No sender outlives its request, whether the client stayed or left, and
\* whether or not the ping task was running when it was aborted.
SendersGo == \A s \in Stream : Opened(s) ~> ~Held(s) \/ Disturbed(s)
=============================================================================
