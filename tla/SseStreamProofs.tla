-------------------------- MODULE SseStreamProofs --------------------------
(***************************************************************************)
(* Theorems of SseStream, for any requests and tokens, colliding or not,   *)
(* with or without panics.                                                 *)
(***************************************************************************)
EXTENDS SseStream, TLAPS

Action(s) ==
  \/ Open(s) \/ Announce(s) \/ Resolved(s) \/ SendOutcome(s) \/ Unregister(s)
  \/ AbortPing(s) \/ DropTx(s) \/ Panic(s) \/ PingStart(s)
  \/ (PingTick(s) \/ PingAborted(s)) \/ Eof(s) \/ Disconnect(s)

\* The disjuncts of Next, by the stream that acts.
LEMMA NextIsAction == Next => \E s \in Stream : Action(s)
BY DEF Next, Task, Report, Ping, Action

\* resolve() announces steps and ends with an outcome.
LEMMA StepsAndOutcomes ==
  ASSUME NEW s \in Stream
  PROVE  /\ R(s)!Following(step[s]) \cup ({step[s]} \cap {"encoding", "backfilling"})
              \subseteq Steps
         /\ R(s)!Ending(step[s]) \subseteq Outcomes
BY DEF R!Following, R!Ending, Steps, Outcomes

\* Every action keeps the types.
LEMMA TypeStep ==
  ASSUME TypeOK, NEW s \in Stream, Action(s)
  PROVE  TypeOK'
<1> USE StreamAssumption DEF TypeOK, taskVars, pingVars, clientVars
<1>1. CASE Open(s)
  BY <1>1 DEF Open
<1>2. CASE Announce(s)
  <2>1. PICK e \in Steps :
          /\ step' = [step EXCEPT ![s] = e]
          /\ LET t == registry[token[s]]
             IN  IF t # NoStream THEN Send(t, e) ELSE UNCHANGED <<last, heard>>
    BY <1>2, StepsAndOutcomes DEF Announce
  <2> QED BY <1>2, <2>1 DEF Announce, Send
<1>3. CASE Resolved(s)
  <2>1. PICK o \in Outcomes : outcome' = [outcome EXCEPT ![s] = o]
    BY <1>3, StepsAndOutcomes DEF Resolved
  <2> QED BY <1>3, <2>1 DEF Resolved
<1>4. CASE SendOutcome(s)
  BY <1>4 DEF SendOutcome, Send, Outcomes
<1>5. CASE Unregister(s)
  BY <1>5 DEF Unregister
<1>6. CASE AbortPing(s)
  BY <1>6 DEF AbortPing
<1>7. CASE DropTx(s)
  BY <1>7 DEF DropTx
<1>8. CASE Panic(s)
  BY <1>8 DEF Panic
<1>9. CASE PingStart(s)
  BY <1>9 DEF PingStart
<1>10. CASE PingTick(s) \/ PingAborted(s)
  BY <1>10 DEF PingTick, PingAborted, PingEnds
<1>11. CASE Eof(s) \/ Disconnect(s)
  BY <1>11 DEF Eof, Disconnect, Leave
<1> QED
  BY <1>1, <1>2, <1>3, <1>4, <1>5, <1>6, <1>7, <1>8, <1>9, <1>10, <1>11 DEF Action

\* Every reachable state has the types: of STEPS, of each request's task, ping
\* task and client, and no ping task ticks without a sender.
THEOREM SseTypeCorrect == Spec => []TypeOK
<1>1. Init => TypeOK
  BY StreamAssumption DEF Init, TypeOK
<1>2. TypeOK /\ [Next]_vars => TypeOK'
  <2>1. TypeOK /\ Next => TypeOK'
    BY NextIsAction, TypeStep
  <2>2. TypeOK /\ UNCHANGED vars => TypeOK'
    BY DEF TypeOK, vars, taskVars, pingVars, clientVars
  <2> QED BY <2>1, <2>2
<1> QED BY <1>1, <1>2, PTL DEF Spec

-----------------------------------------------------------------------------
(* What ends a stream *)

\* A request has a token once it has arrived, and is found under no other.
Keyed(s) ==
  /\ task[s] = "new" <=> token[s] = NoToken
  /\ \A k \in Token : registry[k] = s => token[s] = k

\* The outcome comes before it is sent, is sent once, and before the stream ends.
Told(s) ==
  /\ task[s] \in {"new", "resolve"} => outcome[s] = "none"
  /\ task[s] \in {"send", "unregister", "abort", "drop"} => outcome[s] \in Outcomes
  /\ client[s] = "eof" => task[s] = "end"
  /\ client[s] # "gone" =>
       /\ task[s] \in {"new", "resolve", "send"} \/ outcome[s] = "none" => heard[s] = {}
       /\ task[s] \notin {"new", "resolve", "send"} /\ outcome[s] # "none"
            => heard[s] = {outcome[s]}

\* Only the request itself takes its sender out of the registry, if it is alone
\* under its token; a panicked one never does.
Kept(s) ==
  Alone(s) /\ (\/ task[s] \in {"resolve", "send", "unregister"}
               \/ task[s] = "end" /\ outcome[s] = "none")
    => registry[token[s]] = s

\* Nothing follows the outcome in a channel nobody else is led to.
LastTold(s) ==
  client[s] # "gone" /\ Alone(s) /\ outcome[s] # "none" /\ task[s] # "send"
    => last[s] = outcome[s]

EndedAlone(s) == client[s] = "eof" /\ outcome[s] = "none" => ~Alone(s)

StreamInv ==
  /\ TypeOK
  /\ \A s \in Stream : Keyed(s) /\ Told(s) /\ Kept(s) /\ LastTold(s) /\ EndedAlone(s)

\* The registry leads to a request under its own token only.
LEMMA KeyedStep ==
  ASSUME StreamInv, NEW s \in Stream, Action(s), NEW q \in Stream
  PROVE  Keyed(q)'
<1> USE StreamAssumption DEF StreamInv, TypeOK, Keyed, taskVars
<1>1. CASE Open(s)
  BY <1>1 DEF Open
<1>2. CASE Unregister(s)
  BY <1>2 DEF Unregister
<1>3. CASE Announce(s) \/ Resolved(s) \/ SendOutcome(s)
  BY <1>3 DEF Announce, Resolved, SendOutcome
<1>4. CASE AbortPing(s) \/ DropTx(s) \/ Panic(s)
  BY <1>4 DEF AbortPing, DropTx, Panic
<1>5. CASE PingStart(s) \/ PingTick(s) \/ PingAborted(s)
  BY <1>5 DEF PingStart, PingTick, PingAborted, PingEnds
<1>6. CASE Eof(s) \/ Disconnect(s)
  BY <1>6 DEF Eof, Disconnect, Leave
<1> QED BY <1>1, <1>2, <1>3, <1>4, <1>5, <1>6 DEF Action

\* A request keeps its token, and one that shared its token then shares it now.
LEMMA AloneBefore ==
  ASSUME StreamInv, NEW s \in Stream, Action(s), NEW q \in Stream, token[q] # NoToken
  PROVE  token'[q] = token[q] /\ (Alone(q)' => Alone(q))
<1>1. CASE Open(s)
  BY <1>1 DEF Open, StreamInv, TypeOK, Keyed, Alone
<1>2. CASE UNCHANGED token
  BY <1>2 DEF Alone
<1> QED
  BY <1>1, <1>2 DEF Action, taskVars, Announce, Resolved, SendOutcome, Unregister,
     AbortPing, DropTx, Panic, PingStart, PingTick, PingAborted, PingEnds, Eof,
     Disconnect, Leave

\* A step announced is not an outcome and reaches the channel found under the
\* token: an open one, that of a request with that token.
LEMMA AnnounceSends ==
  ASSUME StreamInv, NEW s \in Stream, Announce(s)
  PROVE  /\ heard' = heard
         /\ \A q \in Stream : last'[q] # last[q] =>
              client[q] = "open" /\ task[q] # "new" /\ token[q] = token[s]
<1> DEFINE t == registry[token[s]]
<1>1. token[s] \in Token /\ (t # NoStream => t \in Stream /\ token[t] = token[s])
  BY StreamAssumption DEF Announce, StreamInv, TypeOK, Keyed
<1>2. PICK e \in Steps : IF t # NoStream THEN Send(t, e) ELSE UNCHANGED <<last, heard>>
  BY StepsAndOutcomes DEF Announce
<1>3. {e} \cap Outcomes = {}
  BY DEF Steps, Outcomes
<1>4. CASE t # NoStream /\ client[t] = "open"
  <2>1. last' = [last EXCEPT ![t] = e] /\ heard' = [heard EXCEPT ![t] = @ \cup {}]
    BY <1>2, <1>3, <1>4 DEF Send
  <2>2. heard' = heard
    BY <1>1, <1>4, <2>1 DEF StreamInv, TypeOK
  <2> QED
    BY <1>1, <1>4, <2>1, <2>2, StreamAssumption DEF StreamInv, TypeOK, Keyed
<1>5. CASE ~(t # NoStream /\ client[t] = "open")
  BY <1>2, <1>5 DEF Send
<1> QED BY <1>4, <1>5

\* A task sends its outcome into its own channel only, if the client is there.
LEMMA OutcomeSends ==
  ASSUME StreamInv, NEW s \in Stream, SendOutcome(s)
  PROVE  /\ heard'[s] = IF client[s] = "open" THEN heard[s] \cup {outcome[s]} ELSE heard[s]
         /\ \A q \in Stream \ {s} : heard'[q] = heard[q]
<1>1. outcome[s] \in Outcomes
  BY DEF SendOutcome, StreamInv, Told
<1>2. {outcome[s]} \cap Outcomes = {outcome[s]}
  BY <1>1
<1>3. CASE client[s] = "open"
  <2>1. heard' = [heard EXCEPT ![s] = @ \cup {outcome[s]}]
    BY <1>2, <1>3 DEF SendOutcome, Send
  <2> QED BY <1>3, <2>1 DEF StreamInv, TypeOK
<1>4. CASE client[s] # "open"
  BY <1>4 DEF SendOutcome, Send
<1> QED BY <1>3, <1>4

\* The outcome is told once, to its own client, before the stream ends.
LEMMA ToldStep ==
  ASSUME StreamInv, NEW s \in Stream, Action(s), NEW q \in Stream
  PROVE  Told(q)'
<1> USE DEF StreamInv, TypeOK, Told, taskVars, clientVars
<1>1. CASE Open(s)
  BY <1>1 DEF Open
<1>2. CASE Announce(s)
  <2>1. heard' = heard
    BY <1>2, AnnounceSends
  <2> QED BY <1>2, <2>1 DEF Announce
<1>3. CASE Resolved(s)
  BY <1>3, StepsAndOutcomes DEF Resolved, Outcomes
<1>4. CASE SendOutcome(s)
  <2>1. CASE q = s
    <3>1. /\ client[s] # "gone" => heard[s] = {} /\ client[s] = "open"
          /\ outcome[s] \in Outcomes
      BY <1>4 DEF SendOutcome
    <3>2. client[s] = "open" => heard'[s] = {outcome[s]}
      BY <1>4, <3>1, OutcomeSends
    <3> QED BY <1>4, <2>1, <3>1, <3>2 DEF SendOutcome, Outcomes
  <2>2. CASE q # s
    <3>1. heard'[q] = heard[q]
      BY <1>4, <2>2, OutcomeSends
    <3> QED BY <1>4, <2>2, <3>1 DEF SendOutcome
  <2> QED BY <2>1, <2>2
<1>5. CASE Unregister(s) \/ AbortPing(s)
  BY <1>5 DEF Unregister, AbortPing
<1>6. CASE DropTx(s) \/ Panic(s)
  BY <1>6 DEF DropTx, Panic
<1>7. CASE PingStart(s) \/ PingTick(s) \/ PingAborted(s)
  BY <1>7 DEF PingStart, PingTick, PingAborted, PingEnds
<1>8. CASE Eof(s)
  BY <1>8 DEF Eof, Leave, Held
<1>9. CASE Disconnect(s)
  BY <1>9 DEF Disconnect, Leave
<1> QED BY <1>1, <1>2, <1>3, <1>4, <1>5, <1>6, <1>7, <1>8, <1>9 DEF Action

\* A request alone under its token stays in the registry until it unregisters.
LEMMA KeptStep ==
  ASSUME StreamInv, NEW s \in Stream, Action(s), NEW q \in Stream
  PROVE  Kept(q)'
<1> USE StreamAssumption DEF StreamInv, TypeOK, Keyed, Kept, Told, taskVars
<1>1. CASE Open(s)
  BY <1>1, AloneBefore DEF Open, Alone
<1>2. CASE Unregister(s)
  BY <1>2, AloneBefore DEF Unregister, Alone, Outcomes
<1>3. CASE Announce(s) \/ Resolved(s) \/ SendOutcome(s)
  BY <1>3, AloneBefore DEF Announce, Resolved, SendOutcome
<1>4. CASE AbortPing(s)
  BY <1>4, AloneBefore DEF AbortPing
<1>5. CASE DropTx(s)
  BY <1>5, AloneBefore DEF DropTx, Outcomes
<1>6. CASE Panic(s)
  BY <1>6, AloneBefore DEF Panic
<1>7. CASE PingStart(s) \/ PingTick(s) \/ PingAborted(s)
  BY <1>7, AloneBefore DEF PingStart, PingTick, PingAborted, PingEnds
<1>8. CASE Eof(s) \/ Disconnect(s)
  BY <1>8, AloneBefore DEF Eof, Disconnect, Leave
<1> QED BY <1>1, <1>2, <1>3, <1>4, <1>5, <1>6, <1>7, <1>8 DEF Action

\* Nothing follows the outcome in a channel that nobody else is led to.
LEMMA LastToldStep ==
  ASSUME StreamInv, NEW s \in Stream, Action(s), NEW q \in Stream
  PROVE  LastTold(q)'
<1> USE DEF StreamInv, TypeOK, Keyed, LastTold, Told, taskVars, clientVars
<1>1. CASE Open(s)
  BY <1>1, AloneBefore DEF Open
<1>2. CASE Announce(s)
  <2>1. task[s] = "resolve" /\ task' = task /\ token' = token /\ outcome' = outcome
          /\ client' = client
    BY <1>2 DEF Announce
  <2>2. CASE q = s
    BY <2>1, <2>2
  <2>3. CASE q # s /\ token[q] = token[s]
    BY <2>1, <2>3 DEF Alone
  <2>4. CASE token[q] # token[s]
    <3>1. last'[q] = last[q]
      BY <1>2, <2>4, AnnounceSends
    <3> QED BY <2>1, <3>1 DEF Alone
  <2> QED BY <2>2, <2>3, <2>4
<1>3. CASE Resolved(s)
  BY <1>3, AloneBefore DEF Resolved
<1>4. CASE SendOutcome(s)
  BY <1>4, AloneBefore DEF SendOutcome, Send
<1>5. CASE Unregister(s) \/ AbortPing(s)
  BY <1>5, AloneBefore DEF Unregister, AbortPing
<1>6. CASE DropTx(s) \/ Panic(s)
  BY <1>6, AloneBefore DEF DropTx, Panic
<1>7. CASE PingStart(s) \/ PingTick(s) \/ PingAborted(s)
  BY <1>7, AloneBefore DEF PingStart, PingTick, PingAborted, PingEnds
<1>8. CASE Eof(s) \/ Disconnect(s)
  BY <1>8, AloneBefore DEF Eof, Disconnect, Leave
<1> QED BY <1>1, <1>2, <1>3, <1>4, <1>5, <1>6, <1>7, <1>8 DEF Action

\* A stream that ends with no outcome shared its token.
LEMMA EndedAloneStep ==
  ASSUME StreamInv, NEW s \in Stream, Action(s), NEW q \in Stream
  PROVE  EndedAlone(q)'
<1> USE DEF StreamInv, TypeOK, Keyed, Told, EndedAlone
<1>1. CASE Eof(s)
  BY <1>1 DEF Eof, Leave, Held, Kept, Alone, taskVars
<1>2. CASE Disconnect(s)
  BY <1>2 DEF Disconnect, Leave, Alone, taskVars
<1>3. CASE client' = client
  <2>1. client[q] = "eof" => outcome'[q] = outcome[q]
    BY DEF Action, taskVars, Open, Announce, Resolved, SendOutcome, Unregister,
       AbortPing, DropTx, Panic, PingStart, PingTick, PingAborted, PingEnds, Eof,
       Disconnect, Leave
  <2> QED BY <1>3, <2>1, AloneBefore
<1> QED
  BY <1>1, <1>2, <1>3 DEF Action, clientVars, Open, Announce, Resolved, SendOutcome,
     Unregister, AbortPing, DropTx, Panic, PingStart, PingTick, PingAborted, PingEnds

\* The invariant of the streams.
LEMMA StreamInvariant == Spec => []StreamInv
<1>1. Init => StreamInv
  BY StreamAssumption DEF Init, StreamInv, TypeOK, Keyed, Told, Kept, LastTold, EndedAlone
<1>2. StreamInv /\ [Next]_vars => StreamInv'
  <2>1. ASSUME StreamInv, NEW s \in Stream, Action(s) PROVE StreamInv'
    <3>1. TypeOK'
      BY <2>1, TypeStep DEF StreamInv
    <3> QED
      BY <2>1, <3>1, KeyedStep, ToldStep, KeptStep, LastToldStep, EndedAloneStep
      DEF StreamInv
  <2>2. StreamInv /\ UNCHANGED vars => StreamInv'
    BY DEF StreamInv, TypeOK, Keyed, Told, Kept, LastTold, EndedAlone, Alone,
       vars, taskVars, pingVars, clientVars
  <2> QED BY <2>1, <2>2, NextIsAction
<1> QED BY <1>1, <1>2, PTL DEF Spec

\* Whatever the tokens, a stream that has ended told its client its own outcome
\* and no other; if no other request had its token, it told that last.
THEOREM OutcomeThenEnd == Spec => []EofAfterOutcome
<1>1. StreamInv => EofAfterOutcome
  BY DEF StreamInv, TypeOK, Told, LastTold, EndedAlone, EofAfterOutcome
<1> QED BY <1>1, StreamInvariant, PTL

-----------------------------------------------------------------------------
(* The steps of a stream *)

\* Whoever is alone under its token and reads has been shown the step its own
\* resolve() is in.
StepShown(s) ==
  /\ task[s] # "resolve" => step[s] = "start"
  /\ task[s] = "new" => last[s] = "none"
  /\ Alone(s) /\ client[s] = "open" /\ task[s] = "resolve"
       => last[s] = IF step[s] = "start" THEN "none" ELSE step[s]
  /\ Alone(s) /\ client[s] = "open" /\ task[s] = "send" => last[s] \in Steps \cup {"none"}

ShownInv == \A s \in Stream : StepShown(s)

\* Each step that may follow another, and each outcome, ranks higher.
LEMMA RankFollows ==
  ASSUME NEW s \in Stream, NEW e \in R(s)!Following(step[s]), step[s] \in Steps \cup {"start"}
  PROVE  Rank(IF step[s] = "start" THEN "none" ELSE step[s]) < Rank(e)
BY DEF R!Following, Rank, Steps

\* An outcome ranks above every step.
LEMMA RankOutcome ==
  ASSUME NEW e \in Steps \cup {"none"}, NEW o \in Outcomes
  PROVE  Rank(e) < Rank(o)
BY DEF Rank, Steps, Outcomes

\* An announcement of a request alone under its token shows its new step.
LEMMA OwnAnnounce ==
  ASSUME StreamInv, ShownInv, NEW s \in Stream, Announce(s), Alone(s), client[s] = "open"
  PROVE  /\ last'[s] = step'[s]
         /\ step'[s] \in Steps
         /\ last'[s] # last[s] => Rank(last[s]) < Rank(last'[s])
<1>1. registry[token[s]] = s /\ task[s] = "resolve" /\ s # NoStream
  BY StreamAssumption DEF Announce, StreamInv, Kept
<1>2. PICK e \in R(s)!Following(step[s]) \cup ({step[s]} \cap {"encoding", "backfilling"}) :
        step' = [step EXCEPT ![s] = e] /\ Send(s, e)
  BY <1>1 DEF Announce
<1>3. last' = [last EXCEPT ![s] = e] /\ e \in Steps
  BY <1>2, StepsAndOutcomes DEF Send
<1>4. last'[s] = e /\ step'[s] = e
  BY <1>2, <1>3 DEF StreamInv, TypeOK
<1>5. last[s] = IF step[s] = "start" THEN "none" ELSE step[s]
  BY <1>1 DEF ShownInv, StepShown
<1>6. CASE e \in R(s)!Following(step[s])
  BY <1>3, <1>4, <1>5, <1>6, RankFollows DEF StreamInv, TypeOK
<1>7. CASE e \in {step[s]} \cap {"encoding", "backfilling"}
  BY <1>3, <1>4, <1>5, <1>7
<1> QED BY <1>2, <1>6, <1>7

\* A step keeps what a client may have seen last.
LEMMA ShownStep ==
  ASSUME StreamInv, ShownInv, NEW s \in Stream, Action(s), NEW q \in Stream
  PROVE  StepShown(q)'
<1> USE DEF StreamInv, TypeOK, Keyed, ShownInv, StepShown, taskVars, clientVars
<1>1. CASE Open(s)
  BY <1>1, AloneBefore DEF Open
<1>2. CASE Announce(s)
  <2>1. /\ task[s] = "resolve" /\ task' = task /\ token' = token /\ client' = client
        /\ step' = [step EXCEPT ![s] = step'[s]]
    BY <1>2 DEF Announce
  <2>2. CASE q = s
    <3>1. Alone(s) /\ client[s] = "open" => last'[s] = step'[s] /\ step'[s] \in Steps
      BY <1>2, OwnAnnounce
    <3>2. "start" \notin Steps
      BY DEF Steps
    <3> QED BY <2>1, <2>2, <3>1, <3>2 DEF Alone
  <2>3. CASE q # s /\ token[q] = token[s]
    <3>1. ~Alone(q) /\ task[q] # "new"
      BY <2>1, <2>3 DEF Alone
    <3> QED BY <2>1, <2>3, <3>1 DEF Alone
  <2>4. CASE token[q] # token[s]
    <3>1. last'[q] = last[q]
      BY <1>2, <2>4, AnnounceSends
    <3> QED BY <2>1, <2>4, <3>1 DEF Alone
  <2> QED BY <2>2, <2>3, <2>4
<1>3. CASE Resolved(s)
  <2>1. CASE q = s
    <3>1. /\ task'[s] = "send" /\ step'[s] = "start"
          /\ last' = last /\ client' = client /\ token' = token /\ task[s] = "resolve"
      BY <1>3 DEF Resolved
    <3> QED BY <2>1, <3>1 DEF Alone
  <2>2. CASE q # s
    BY <1>3, <2>2, AloneBefore DEF Resolved, Alone
  <2> QED BY <2>1, <2>2
<1>4. CASE SendOutcome(s)
  BY <1>4, AloneBefore DEF SendOutcome, Send
<1>5. CASE Unregister(s) \/ AbortPing(s)
  BY <1>5, AloneBefore DEF Unregister, AbortPing
<1>6. CASE DropTx(s) \/ Panic(s)
  BY <1>6, AloneBefore DEF DropTx, Panic
<1>7. CASE PingStart(s) \/ PingTick(s) \/ PingAborted(s)
  BY <1>7, AloneBefore DEF PingStart, PingTick, PingAborted, PingEnds
<1>8. CASE Eof(s) \/ Disconnect(s)
  BY <1>8, AloneBefore DEF Eof, Disconnect, Leave
<1> QED BY <1>1, <1>2, <1>3, <1>4, <1>5, <1>6, <1>7, <1>8 DEF Action

\* What a client has seen last.
LEMMA ShownInvariant == Spec => []ShownInv
<1>1. Init => ShownInv
  BY DEF Init, ShownInv, StepShown
<1>2. StreamInv /\ ShownInv /\ [Next]_vars => ShownInv'
  <2>1. StreamInv /\ ShownInv /\ Next => ShownInv'
    BY NextIsAction, ShownStep DEF ShownInv
  <2>2. ShownInv /\ UNCHANGED vars => ShownInv'
    BY DEF ShownInv, StepShown, Alone, vars, taskVars, pingVars, clientVars
  <2> QED BY <2>1, <2>2
<1> QED BY <1>1, <1>2, StreamInvariant, PTL DEF Spec

\* A stream alone under its token shows the steps of its own resolve(), in the
\* documented order and none after the outcome, whatever other requests run,
\* share tokens among themselves, panic or lose their clients.
THEOREM StepsComeInOrder == Spec => StepsInOrder
<1> DEFINE Ordered == \A s \in Stream :
       Alone(s)' /\ client'[s] = "open" /\ last'[s] # last[s] =>
         /\ last'[s] \in {step'[s], outcome[s]}
         /\ Rank(last[s]) < Rank(last'[s])
<1>1. ASSUME StreamInv, ShownInv, NEW s \in Stream, Action(s), NEW q \in Stream,
             Alone(q)', client'[q] = "open", last'[q] # last[q]
      PROVE  last'[q] \in {step'[q], outcome[q]} /\ Rank(last[q]) < Rank(last'[q])
  <2>1. CASE Announce(s)
    <3>1. token' = token /\ client' = client
      BY <2>1 DEF Announce, taskVars, clientVars
    <3>2. Alone(q) /\ token[q] = token[s]
      BY <1>1, <2>1, <3>1, AnnounceSends DEF Alone
    <3>3. q = s
      BY <3>2 DEF Alone
    <3> QED BY <1>1, <2>1, <3>1, <3>2, <3>3, OwnAnnounce
  <2>2. CASE SendOutcome(s)
    <3>1. /\ token' = token /\ client' = client /\ task[s] = "send"
          /\ last' = [last EXCEPT ![s] = outcome[s]]
      BY <1>1, <2>2 DEF SendOutcome, Send, taskVars
    <3>2. q = s /\ last'[s] = outcome[s]
      BY <1>1, <3>1 DEF StreamInv, TypeOK
    <3>3. outcome[s] \in Outcomes /\ last[s] \in Steps \cup {"none"}
      BY <1>1, <3>1, <3>2 DEF StreamInv, Told, ShownInv, StepShown, Alone
    <3> QED BY <3>2, <3>3, RankOutcome
  <2>3. CASE Disconnect(s)
    <3>1. client' = [client EXCEPT ![s] = "gone"] /\ last' = [last EXCEPT ![s] = "none"]
      BY <2>3 DEF Disconnect, Leave
    <3> QED BY <1>1, <3>1 DEF StreamInv, TypeOK
  <2>4. CASE last' = last
    BY <1>1, <2>4
  <2> QED
    BY <1>1, <2>1, <2>2, <2>3, <2>4 DEF Action, clientVars, Open, Resolved, Unregister,
       AbortPing, DropTx, Panic, PingStart, PingTick, PingAborted, PingEnds, Eof
<1>2. StreamInv /\ ShownInv /\ [Next]_vars => [Ordered]_vars
  BY <1>1, NextIsAction
<1> QED BY <1>2, StreamInvariant, ShownInvariant, PTL DEF Spec, StepsInOrder

-----------------------------------------------------------------------------
(* The senders of an ended request *)

\* STEPS holds a sender while its request runs or when that has panicked; a ping
\* task holds that of a request with its own token, and is told to stop before
\* its request ends, if that does not panic.
Senders(s) ==
  /\ \A k \in Token : registry[k] = s =>
       task[s] \in {"resolve", "send", "unregister"} \/ Panicked(s)
  /\ pinged[s] \in Stream => token[s] # NoToken /\ token[pinged[s]] = token[s]
  /\ task[s] \in {"drop", "end"} => aborted[s] \/ Panicked(s)

SenderInv == \A s \in Stream : Senders(s)

\* Whoever drops or keeps a sender, what is left is accounted for.
LEMMA SenderStep ==
  ASSUME StreamInv, SenderInv, NEW s \in Stream, Action(s), NEW q \in Stream
  PROVE  Senders(q)'
<1> USE StreamAssumption
    DEF StreamInv, TypeOK, SenderInv, Senders, Panicked, Keyed, Told, taskVars, pingVars
<1>1. CASE Open(s)
  BY <1>1 DEF Open
<1>2. CASE Announce(s) \/ Resolved(s) \/ SendOutcome(s)
  BY <1>2 DEF Announce, Resolved, SendOutcome, Outcomes
<1>3. CASE Unregister(s)
  BY <1>3 DEF Unregister
<1>4. CASE AbortPing(s)
  BY <1>4 DEF AbortPing
<1>5. CASE DropTx(s) \/ Panic(s)
  BY <1>5 DEF DropTx, Panic
<1>6. CASE PingStart(s)
  <2>1. token[s] \in Token /\ UNCHANGED <<registry, taskVars>>
    BY <1>6 DEF PingStart
  <2>2. registry[token[s]] \in Stream => token[registry[token[s]]] = token[s]
    BY <2>1
  <2>3. pinged' = [pinged EXCEPT ![s] = registry[token[s]]]
    BY <1>6 DEF PingStart
  <2>4. pinged'[q] \in Stream => token[q] # NoToken /\ token[pinged'[q]] = token[q]
    BY <2>1, <2>2, <2>3
  <2> QED BY <2>1, <2>4
<1>7. CASE PingTick(s) \/ PingAborted(s)
  BY <1>7 DEF PingTick, PingAborted, PingEnds
<1>8. CASE Eof(s) \/ Disconnect(s)
  BY <1>8 DEF Eof, Disconnect, Leave
<1> QED BY <1>1, <1>2, <1>3, <1>4, <1>5, <1>6, <1>7, <1>8 DEF Action

\* What SendersGo rests on: when a request has ended, and neither it nor one with
\* its token has panicked, STEPS does not hold its sender any more, and a ping
\* task that still does has been told to stop or belongs to a request that will
\* tell it.
THEOREM SendersAreReleased ==
  Spec => [](\A s \in Stream : task[s] = "end" /\ ~Disturbed(s) =>
               /\ \A k \in Token : registry[k] # s
               /\ \A p \in Stream : pinged[p] = s => aborted[p] \/ task[p] # "end")
<1> DEFINE Released == \A s \in Stream : task[s] = "end" /\ ~Disturbed(s) =>
               /\ \A k \in Token : registry[k] # s
               /\ \A p \in Stream : pinged[p] = s => aborted[p] \/ task[p] # "end"
<1>1. Init => SenderInv
  <2> SUFFICES ASSUME Init, NEW s \in Stream PROVE Senders(s)
    BY DEF SenderInv
  <2>1. \A k \in Token : registry[k] # s
    BY StreamAssumption DEF Init
  <2>2. pinged[s] \notin Stream /\ task[s] = "new"
    BY StreamAssumption DEF Init
  <2> QED BY <2>1, <2>2 DEF Senders
<1>2. StreamInv /\ SenderInv /\ [Next]_vars => SenderInv'
  <2> SUFFICES ASSUME StreamInv, SenderInv, [Next]_vars PROVE SenderInv'
    OBVIOUS
  <2>1. CASE Next
    BY <2>1, NextIsAction, SenderStep DEF SenderInv
  <2>2. CASE UNCHANGED vars
    BY <2>2 DEF SenderInv, Senders, Panicked, vars, taskVars, pingVars
  <2> QED BY <2>1, <2>2
<1>3. SenderInv => Released
  BY DEF SenderInv, Senders, Disturbed, Panicked
<1> QED BY <1>1, <1>2, <1>3, StreamInvariant, PTL DEF Spec
=============================================================================
