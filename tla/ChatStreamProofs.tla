-------------------------- MODULE ChatStreamProofs --------------------------
(***************************************************************************)
(* What holds of ChatStream for any number of requests on the thread, of    *)
(* HITL requests, and every environment.                                    *)
(***************************************************************************)
EXTENDS ChatStream, TLAPS

\* A request nobody has raised has no outcome yet.
Fresh == \A r \in Requests : asker[r] = NoStream => reply[r] = "none" /\ verdict[r] = "none"

\* An agent that waits for the user waits for a request of its own.
AskingHasRequest ==
    \A s \in Streams : agent[s] = "asking" =>
        \E r \in Requests : asker[r] = s /\ verdict[r] = "none"

\* The workers of a stream exist from the start of its generator on; the finally
\* block cancels the HITL worker, and waits for the agent.
WorkersFollowStream ==
    \A s \in Streams :
        /\ stream[s] \in {"closing", "closed"} => hitl[s] = "done"
        /\ stream[s] = "closed" => agent[s] = "done"

\* An update of a table keeps its type when the new entry has it, also under a
\* key the table does not have.
LEMMA UpdateType ==
    ASSUME NEW A, NEW B, NEW f \in [A -> B], NEW a, NEW b \in B
    PROVE  [f EXCEPT ![a] = b] \in [A -> B]
  OBVIOUS

\* The same for a queue that grows.
LEMMA AppendType ==
    ASSUME NEW A, NEW B, NEW f \in [A -> Seq(B)], NEW a, NEW b \in B
    PROVE  [f EXCEPT ![a] = Append(@, b)] \in [A -> Seq(B)]
  <1>1. ASSUME NEW x \in A PROVE [f EXCEPT ![a] = Append(@, b)][x] \in Seq(B)
    <2>1. f[x] \in Seq(B) /\ Append(f[x], b) \in Seq(B)
      OBVIOUS
    <2> QED BY <2>1
  <1> QED BY <1>1

\* ... and for a set that grows.
LEMMA AddType ==
    ASSUME NEW A, NEW B, NEW f \in [A -> SUBSET B], NEW a, NEW b \in B
    PROVE  [f EXCEPT ![a] = @ \cup {b}] \in [A -> SUBSET B]
  <1>1. ASSUME NEW x \in A PROVE [f EXCEPT ![a] = @ \cup {b}][x] \in SUBSET B
    OBVIOUS
  <1> QED BY <1>1

USE ChatAssumption
USE DEF Active, Running, Waiting, Decided, httpVars, bridgeVars, taskVars, agentVars

\* The types of what an agent step writes, and the states of a stream.
AgentTyped ==
    /\ agent \in [Streams -> {"none", "running", "asking", "stopping", "done"}]
    /\ asker \in [Requests -> Streams \cup {NoStream}]
    /\ kind \in [Requests -> Kinds \cup {"none"}]
    /\ reply \in [Requests -> {"none", "open"} \cup Decided]
    /\ verdict \in [Requests -> {"none", "ran", "refused", "dropped"}]

StreamStates == {"new", "refused", "failed", "closing", "closed"} \cup Active

\* The request CHOOSEn for an agent that waits is one it has raised.
LEMMA AskedIsOwn ==
    ASSUME AskingHasRequest, NEW s \in Streams, agent[s] = "asking"
    PROVE  /\ Asked(s) \in Requests
           /\ asker[Asked(s)] = s
           /\ verdict[Asked(s)] = "none"
  BY DEF AskingHasRequest, Asked

\* Cancelling an agent settles open requests and drops the one it waits for:
\* what was decided before, or ran, stays.
LEMMA CancelAgentMoves ==
    ASSUME TypeOK, AskingHasRequest, NEW s \in Streams,
           NEW rep \in [Requests -> {"none", "open"} \cup Decided], CancelAgent(s, rep)
    PROVE  /\ agent' \in [Streams -> {"none", "running", "asking", "stopping", "done"}]
           /\ reply' \in [Requests -> {"none", "open"} \cup Decided]
           /\ verdict' \in [Requests -> {"none", "ran", "refused", "dropped"}]
           /\ asker' = asker /\ kind' = kind
           /\ \A t \in Streams \ {s} : agent'[t] = agent[t]
           /\ \/ agent'[s] = agent[s]
              \/ agent'[s] = "stopping" /\ agent[s] # "done"
           /\ \A r \in Requests : \/ reply'[r] = rep[r]
                                  \/ rep[r] = "open" /\ reply'[r] = "cancelled"
           /\ \A r \in Requests : \/ verdict'[r] = verdict[r]
                                  \/ /\ verdict'[r] = "dropped" /\ asker[r] = s
                                     /\ agent'[s] = "stopping"
  <1>1. CASE agent[s] # "asking"
    BY <1>1 DEF CancelAgent, TypeOK
  <1>2. CASE agent[s] = "asking"
    <2>1. /\ Asked(s) \in Requests /\ asker[Asked(s)] = s
      BY <1>2, AskedIsOwn
    <2> DEFINE q == Asked(s)
    <2>2. /\ asker' = asker /\ kind' = kind
          /\ \/ /\ agent' = [agent EXCEPT ![s] = "stopping"]
                /\ reply' = IF rep[q] = "open" THEN [rep EXCEPT ![q] = "cancelled"] ELSE rep
                /\ verdict' = [verdict EXCEPT ![q] = "dropped"]
             \/ agent' = agent /\ reply' = rep /\ verdict' = verdict
      BY <1>2 DEF CancelAgent
    <2> HIDE DEF q
    <2>3. q \in Requests /\ asker[q] = s
      BY <2>1 DEF q
    <2>4. agent \in [Streams -> {"none", "running", "asking", "stopping", "done"}]
      BY DEF TypeOK
    <2>5. verdict \in [Requests -> {"none", "ran", "refused", "dropped"}]
      BY DEF TypeOK
    <2>6. CASE agent' = agent
      BY <1>2, <2>2, <2>3, <2>4, <2>5, <2>6
    <2>7. CASE agent' = [agent EXCEPT ![s] = "stopping"]
      <3>1. /\ \A t \in Streams \ {s} : agent'[t] = agent[t]
            /\ agent'[s] = "stopping"
            /\ agent' \in [Streams -> {"none", "running", "asking", "stopping", "done"}]
        BY <2>4, <2>7
      <3>2. /\ reply' \in [Requests -> {"none", "open"} \cup Decided]
            /\ \A r \in Requests : \/ reply'[r] = rep[r]
                                   \/ rep[r] = "open" /\ reply'[r] = "cancelled"
        BY <2>2, <2>3
      <3>3. /\ verdict' \in [Requests -> {"none", "ran", "refused", "dropped"}]
            /\ \A r \in Requests : \/ verdict'[r] = verdict[r]
                                   \/ verdict'[r] = "dropped" /\ asker[r] = s
        BY <2>2, <2>3, <2>5
      <3> QED BY <1>2, <2>2, <3>1, <3>2, <3>3
    <2> QED BY <2>2, <2>6, <2>7
  <1> QED BY <1>1, <1>2

\* The finally block, wherever it is entered from.
LEMMA FinallyMoves ==
    ASSUME TypeOK, AskingHasRequest, NEW s \in Streams, EnterFinally(s)
    PROVE  /\ stream' = [stream EXCEPT ![s] = "closing"]
           /\ lock' = NoStream /\ cancelKey' = NoStream
           /\ hitl' = [hitl EXCEPT ![s] = "done"]
           /\ reply \in [Requests -> {"none", "open"} \cup Decided]
           /\ CancelAgent(s, reply)
  BY DEF EnterFinally, TypeOK

\* ... and what it writes has its type.
LEMMA FinallyType ==
    ASSUME TypeOK, AskingHasRequest, NEW s \in Streams, EnterFinally(s)
    PROVE  /\ stream' \in [Streams -> StreamStates]
           /\ lock' = NoStream /\ cancelKey' = NoStream
           /\ hitl' \in [Streams -> {"none", "running", "done"}]
           /\ AgentTyped'
  <1>1. /\ stream' \in [Streams -> StreamStates]
        /\ hitl' \in [Streams -> {"none", "running", "done"}]
    BY FinallyMoves DEF TypeOK, StreamStates
  <1>2. AgentTyped'
    BY FinallyMoves, CancelAgentMoves DEF AgentTyped, TypeOK
  <1> QED BY <1>1, <1>2, FinallyMoves

\* cancel_all_pending settles open futures only.
LEMMA DisconnectedType ==
    ASSUME TypeOK, NEW b
    PROVE  /\ Disconnected(b) \in [Requests -> {"none", "open"} \cup Decided]
           /\ \A r \in Requests : \/ Disconnected(b)[r] = reply[r]
                                  \/ reply[r] = "open" /\ Disconnected(b)[r] = "disconnected"
  BY DEF Disconnected, TypeOK

\* signal_done appends DONE at most.
LEMMA SignalDoneType ==
    ASSUME TypeOK, NEW s \in Streams, SignalDone(s)
    PROVE  /\ signaled' \in [Streams -> BOOLEAN]
           /\ outgoing' \in [Streams -> Seq(Requests \cup {DONE})]
  <1>1. signaled \in [Streams -> BOOLEAN] /\ outgoing \in [Streams -> Seq(Requests \cup {DONE})]
    BY DEF TypeOK
  <1>2. [outgoing EXCEPT ![bridgeOf[s]] = Append(@, DONE)] \in [Streams -> Seq(Requests \cup {DONE})]
    BY <1>1, AppendType
  <1> QED BY <1>1, <1>2 DEF SignalDone

\* Every step of every request keeps the types.
LEMMA TypeStep == TypeOK /\ AskingHasRequest /\ [Next]_vars => TypeOK'
<1> SUFFICES ASSUME TypeOK, AskingHasRequest, [Next]_vars PROVE TypeOK'
  OBVIOUS
<1>1. ASSUME NEW s \in Streams, Post(s) \/ SetupFails(s) \/ Start(s) \/ Leave(s) \/ Finish(s)
      PROVE TypeOK'
  <2>1. CASE Post(s)
    <3>0. stream' \in [Streams -> StreamStates]
      <4>1. stream' = [stream EXCEPT ![s] = "refused"] \/ stream' = [stream EXCEPT ![s] = "setup"]
        BY <2>1 DEF Post
      <4> QED BY <4>1 DEF TypeOK, StreamStates
    <3>a. UNCHANGED <<viaRuntime, cancelKey, cancelled, gone, outgoing, pending, taskVars, agentVars>>
      BY <2>1 DEF Post
    <3>1. CASE lock # NoStream
      <4>1. UNCHANGED <<lock, registered, bridgeOf>>
        BY <2>1, <3>1 DEF Post
      <4> QED BY <3>0, <3>a, <4>1 DEF StreamStates, TypeOK
    <3>2. CASE lock = NoStream
      <4>1. registered' \in Streams /\ bridgeOf' = [bridgeOf EXCEPT ![s] = registered']
        BY <2>1, <3>2 DEF Post, TypeOK
      <4>2. bridgeOf' \in [Streams -> Streams \cup {NoStream}]
        BY <4>1, UpdateType DEF TypeOK
      <4>3. lock' = s
        BY <2>1, <3>2 DEF Post
      <4> QED BY <3>0, <3>a, <4>1, <4>2, <4>3 DEF StreamStates, TypeOK
    <3> QED BY <3>1, <3>2
  <2>2. CASE SetupFails(s)
    BY <2>2 DEF SetupFails, TypeOK
  <2>3. CASE Start(s)
    BY <2>3 DEF Start, TypeOK
  <2>4. CASE Leave(s)
    BY <2>4 DEF Leave, TypeOK
  <2>5. CASE Finish(s)
    BY <2>5 DEF Finish, TypeOK
  <2> QED BY <1>1, <2>1, <2>2, <2>3, <2>4, <2>5
<1>2. ASSUME NEW s \in Streams, BusClosed(s) \/ LastEventSent(s) \/ Abort(s)
      PROVE TypeOK'
  <2>1. EnterFinally(s) /\ UNCHANGED <<viaRuntime, cancelled, gone, bridgeVars, signaled, closed>>
    BY <1>2 DEF BusClosed, LastEventSent, Abort
  <2> QED BY <2>1, FinallyType DEF AgentTyped, StreamStates, TypeOK
<1>3. ASSUME NEW s \in Streams, StopAfterDisconnect(s) PROVE TypeOK'
  <2>1. /\ EnterFinally(s) /\ SignalDone(s)
        /\ UNCHANGED <<viaRuntime, cancelled, gone, registered, bridgeOf, pending, closed>>
    BY <1>3 DEF StopAfterDisconnect
  <2> QED BY <2>1, FinallyType, SignalDoneType DEF AgentTyped, StreamStates, TypeOK
<1>4. ASSUME NEW s \in Streams, StopAfterCancel(s) PROVE TypeOK'
  BY <1>4, SignalDoneType DEF StopAfterCancel, TypeOK
<1>5. ASSUME NEW s \in Streams, NoticeDisconnect(s) PROVE TypeOK'
  <2>1. /\ stream' \in [Streams -> StreamStates]
        /\ pending' \in [Streams -> SUBSET Requests]
    BY <1>5, UpdateType DEF NoticeDisconnect, TypeOK, StreamStates
  <2>2. /\ Disconnected(bridgeOf[s]) \in [Requests -> {"none", "open"} \cup Decided]
        /\ CancelAgent(s, Disconnected(bridgeOf[s]))
    BY <1>5, DisconnectedType DEF NoticeDisconnect
  <2>3. AgentTyped'
    BY <2>2, CancelAgentMoves DEF AgentTyped, TypeOK
  <2>4. UNCHANGED <<viaRuntime, lock, cancelKey, cancelled, gone, registered, bridgeOf, outgoing, taskVars>>
    BY <1>5 DEF NoticeDisconnect
  <2> QED BY <2>1, <2>3, <2>4 DEF AgentTyped, StreamStates, TypeOK
<1>6. ASSUME NEW s \in Streams, NoticeCancel(s) PROVE TypeOK'
  <2>1. reply \in [Requests -> {"none", "open"} \cup Decided]
    BY DEF TypeOK
  <2> QED BY <1>6, <2>1, CancelAgentMoves DEF NoticeCancel, TypeOK
<1>7. ASSUME NEW s \in Streams, AgentEnds(s) PROVE TypeOK'
  BY <1>7, SignalDoneType DEF AgentEnds, TypeOK
<1>8. ASSUME NEW s \in Streams, Forward(s) PROVE TypeOK'
  <2>1. ASSUME NEW q \in Seq(Requests \cup {DONE}), q # <<>>
        PROVE Tail(q) \in Seq(Requests \cup {DONE})
    BY <2>1
  <2>2. outgoing' \in [Streams -> Seq(Requests \cup {DONE})]
    BY <1>8, <2>1 DEF Forward, TypeOK
  <2> QED BY <1>8, <2>2 DEF Forward, TypeOK
<1>9. ASSUME NEW s \in Streams, Resume(s) PROVE TypeOK'
  BY <1>9 DEF Resume, TypeOK
<1>10. ASSUME NEW s \in Streams, NEW r \in Requests, NEW k \in Kinds, Ask(s, r, k)
       PROVE TypeOK'
  <2>1. /\ [outgoing EXCEPT ![bridgeOf[s]] = Append(@, r)] \in [Streams -> Seq(Requests \cup {DONE})]
        /\ [pending EXCEPT ![bridgeOf[s]] = @ \cup {r}] \in [Streams -> SUBSET Requests]
    BY AppendType, AddType DEF TypeOK
  <2>2. /\ outgoing' \in [Streams -> Seq(Requests \cup {DONE})]
        /\ pending' \in [Streams -> SUBSET Requests]
    <3>1. /\ outgoing \in [Streams -> Seq(Requests \cup {DONE})]
          /\ pending \in [Streams -> SUBSET Requests]
      BY DEF TypeOK
    <3>2. /\ \/ outgoing' = outgoing
             \/ outgoing' = [outgoing EXCEPT ![bridgeOf[s]] = Append(@, r)]
          /\ \/ pending' = pending
             \/ pending' = [pending EXCEPT ![bridgeOf[s]] = @ \cup {r}]
      BY <1>10 DEF Ask
    <3> QED BY <2>1, <3>1, <3>2
  <2>3. AgentTyped'
    <3>1. /\ asker' = [asker EXCEPT ![r] = s] /\ kind' = [kind EXCEPT ![r] = k]
          /\ \/ agent' = agent
             \/ agent' = [agent EXCEPT ![s] = "asking"]
          /\ \/ reply' = reply
             \/ reply' = [reply EXCEPT ![r] = "open"]
          /\ \/ verdict' = verdict
             \/ verdict' = [verdict EXCEPT ![r] = "ran"]
             \/ verdict' = [verdict EXCEPT ![r] = "refused"]
      BY <1>10 DEF Ask
    <3>2. AgentTyped
      BY DEF AgentTyped, TypeOK
    <3> QED BY <3>1, <3>2 DEF AgentTyped
  <2>4. UNCHANGED <<httpVars, registered, bridgeOf, taskVars>>
    BY <1>10 DEF Ask
  <2> QED BY <2>2, <2>3, <2>4 DEF AgentTyped, TypeOK
<1>11. ASSUME NEW r \in Requests, TimeOut(r) PROVE TypeOK'
  BY <1>11 DEF TimeOut, TypeOK
<1>12. ASSUME NEW r \in Requests, NEW a \in {"approve", "deny"}, Respond(r, a) PROVE TypeOK'
  BY <1>12 DEF Respond, TypeOK
<1>13. CASE CancelChat
  BY <1>13 DEF CancelChat, TypeOK
<1>14. CASE UNCHANGED vars
  BY <1>14 DEF vars, TypeOK
<1> QED
  BY <1>1, <1>2, <1>3, <1>4, <1>5, <1>6, <1>7, <1>8, <1>9, <1>10, <1>11, <1>12, <1>13, <1>14
     DEF Next, Generator

\* What a step does to the lock, the cancel registry and the place of a stream.
LockMove ==
    \/ UNCHANGED <<stream, lock, cancelKey>>
    \/ \E s \in Streams :
          \/ /\ stream[s] = "new" /\ lock = NoStream /\ lock' = s /\ cancelKey' = cancelKey
             /\ stream' = [stream EXCEPT ![s] = "setup"]
          \/ /\ stream[s] = "new" /\ UNCHANGED <<lock, cancelKey>>
             /\ stream' = [stream EXCEPT ![s] = "refused"]
          \/ /\ stream[s] = "setup" /\ lock' = NoStream /\ cancelKey' = cancelKey
             /\ stream' = [stream EXCEPT ![s] = "failed"]
          \/ /\ stream[s] = "setup" /\ lock' = lock /\ cancelKey' = s
             /\ stream' = [stream EXCEPT ![s] = "polling"]
          \/ /\ stream[s] \in Running /\ lock' = NoStream /\ cancelKey' = NoStream
             /\ stream' = [stream EXCEPT ![s] = "closing"]
          \/ /\ stream[s] \in Running /\ UNCHANGED <<lock, cancelKey>>
             /\ \E p \in Running : stream' = [stream EXCEPT ![s] = p]
          \/ /\ stream[s] = "closing" /\ UNCHANGED <<lock, cancelKey>>
             /\ stream' = [stream EXCEPT ![s] = "closed"]

\* Every step is such a move.
LEMMA LockMoves == TypeOK /\ AskingHasRequest /\ [Next]_vars => LockMove
<1> SUFFICES ASSUME TypeOK, AskingHasRequest, [Next]_vars PROVE LockMove
  OBVIOUS
<1>1. ASSUME NEW s \in Streams, Post(s) PROVE LockMove
  BY <1>1 DEF Post, LockMove
<1>2. ASSUME NEW s \in Streams, SetupFails(s) PROVE LockMove
  BY <1>2 DEF SetupFails, LockMove
<1>3. ASSUME NEW s \in Streams, Start(s) PROVE LockMove
  BY <1>3 DEF Start, LockMove
<1>4. ASSUME NEW s \in Streams, EnterFinally(s), stream[s] \in Running PROVE LockMove
  BY <1>4 DEF EnterFinally, LockMove
<1>5. ASSUME NEW s \in Streams,
             BusClosed(s) \/ LastEventSent(s) \/ Abort(s) \/ StopAfterDisconnect(s)
      PROVE LockMove
  BY <1>4, <1>5 DEF BusClosed, LastEventSent, Abort, StopAfterDisconnect
<1>6. ASSUME NEW s \in Streams, NoticeDisconnect(s) \/ NoticeCancel(s) \/ StopAfterCancel(s)
      PROVE LockMove
  BY <1>6 DEF NoticeDisconnect, NoticeCancel, StopAfterCancel, LockMove
<1>7. ASSUME NEW s \in Streams, Finish(s) PROVE LockMove
  BY <1>7 DEF Finish, LockMove
<1>8. ASSUME NEW s \in Streams, Leave(s) \/ AgentEnds(s) \/ Forward(s) \/ Resume(s)
      PROVE LockMove
  BY <1>8 DEF Leave, AgentEnds, Forward, Resume, LockMove
<1>9. ASSUME NEW s \in Streams, NEW r \in Requests, NEW k \in Kinds, Ask(s, r, k)
      PROVE LockMove
  BY <1>9 DEF Ask, LockMove
<1>10. ASSUME NEW r \in Requests, TimeOut(r) \/ Respond(r, "approve") \/ Respond(r, "deny")
       PROVE LockMove
  BY <1>10 DEF TimeOut, Respond, LockMove
<1>11. CASE CancelChat
  BY <1>11 DEF CancelChat, LockMove
<1>12. CASE UNCHANGED vars
  BY <1>12 DEF vars, LockMove
<1> QED
  BY <1>1, <1>2, <1>3, <1>5, <1>6, <1>7, <1>8, <1>9, <1>10, <1>11, <1>12 DEF Next, Generator

\* The lock, the registry and the streams go together through every move.
LEMMA LockStep == TypeOK /\ StreamHoldsLock /\ LockMove => StreamHoldsLock'
<1> SUFFICES ASSUME TypeOK, StreamHoldsLock, LockMove PROVE StreamHoldsLock'
  OBVIOUS
<1> USE DEF StreamHoldsLock
<1>1. CASE UNCHANGED <<stream, lock, cancelKey>>
  BY <1>1
<1>2. CASE ~UNCHANGED <<stream, lock, cancelKey>>
  <2>1. PICK s \in Streams :
          /\ \A t \in Streams \ {s} : stream'[t] = stream[t]
          /\ \/ stream[s] = "new" /\ lock = NoStream /\ lock' = s /\ cancelKey' = cancelKey /\ stream'[s] = "setup"
             \/ stream[s] = "new" /\ lock' = lock /\ cancelKey' = cancelKey /\ stream'[s] = "refused"
             \/ stream[s] = "setup" /\ lock' = NoStream /\ cancelKey' = cancelKey /\ stream'[s] = "failed"
             \/ stream[s] = "setup" /\ lock' = lock /\ cancelKey' = s /\ stream'[s] = "polling"
             \/ stream[s] \in Running /\ lock' = NoStream /\ cancelKey' = NoStream /\ stream'[s] = "closing"
             \/ stream[s] \in Running /\ lock' = lock /\ cancelKey' = cancelKey /\ stream'[s] \in Running
             \/ stream[s] = "closing" /\ lock' = lock /\ cancelKey' = cancelKey /\ stream'[s] = "closed"
    BY <1>2 DEF LockMove, TypeOK
  <2>2. ASSUME NEW t \in Streams PROVE stream'[t] \in Active <=> lock' = t
    BY <2>1
  <2>3. ASSUME NEW t \in Streams PROVE stream'[t] \in Running <=> cancelKey' = t
    BY <2>1
  <2> QED BY <2>2, <2>3
<1> QED BY <1>1, <1>2

\* What a step does to one request: it is raised once, its future is settled
\* once, and its tool runs on one of four grounds.
RequestMove(r) ==
    /\ \/ asker'[r] = asker[r] /\ kind'[r] = kind[r] /\ reply'[r] = reply[r]
       \/ asker[r] = NoStream /\ asker'[r] \in Streams /\ reply'[r] \in {reply[r], "open"}
       \/ asker'[r] = asker[r] /\ kind'[r] = kind[r] /\ reply[r] = "open" /\ reply'[r] \in Decided
    /\ \/ verdict'[r] = verdict[r]
       \/ /\ asker'[r] # NoStream
          /\ \/ verdict'[r] # "ran"
             \/ viaRuntime
             \/ kind'[r] = "fire_and_continue"
             \/ Allows(r) /\ kind'[r] = kind[r] /\ reply'[r] = reply[r]

\* Every step does that to every request, and leaves the path as it is.
LEMMA RequestMoves ==
    TypeOK /\ AskingHasRequest /\ [Next]_vars
        => viaRuntime' = viaRuntime /\ \A r \in Requests : RequestMove(r)
<1> SUFFICES ASSUME TypeOK, AskingHasRequest, [Next]_vars
             PROVE  viaRuntime' = viaRuntime /\ \A r \in Requests : RequestMove(r)
  OBVIOUS
<1> DEFINE Goal == viaRuntime' = viaRuntime /\ \A r \in Requests : RequestMove(r)
<1>0. /\ asker \in [Requests -> Streams \cup {NoStream}]
      /\ reply \in [Requests -> {"none", "open"} \cup Decided]
      /\ kind \in [Requests -> Kinds \cup {"none"}]
      /\ verdict \in [Requests -> {"none", "ran", "refused", "dropped"}]
  BY DEF TypeOK
<1>1. ASSUME UNCHANGED <<viaRuntime, asker, kind, reply, verdict>> PROVE Goal
  BY <1>1 DEF RequestMove
<1>2. ASSUME NEW s \in Streams,
             \/ Post(s) \/ SetupFails(s) \/ Start(s) \/ Leave(s) \/ Finish(s)
             \/ AgentEnds(s) \/ Forward(s) \/ StopAfterCancel(s)
      PROVE Goal
  BY <1>1, <1>2 DEF Post, SetupFails, Start, Leave, Finish, AgentEnds, Forward, StopAfterCancel
<1>3. ASSUME NEW s \in Streams, NEW rep \in [Requests -> {"none", "open"} \cup Decided],
             \A r \in Requests :
                (rep[r] = reply[r] \/ (reply[r] = "open" /\ rep[r] \in Decided)),
             CancelAgent(s, rep), viaRuntime' = viaRuntime
      PROVE Goal
  <2>1. ASSUME NEW r \in Requests PROVE RequestMove(r)
    <3>1. /\ asker'[r] = asker[r] /\ kind'[r] = kind[r]
          /\ \/ reply'[r] = rep[r]
             \/ rep[r] = "open" /\ reply'[r] = "cancelled"
          /\ \/ verdict'[r] = verdict[r]
             \/ verdict'[r] = "dropped" /\ asker[r] = s
      BY <1>3, CancelAgentMoves
    <3>2. \/ rep[r] = reply[r]
          \/ reply[r] = "open" /\ rep[r] \in Decided
      BY <1>3
    <3> QED BY <1>0, <3>1, <3>2 DEF RequestMove
  <2> QED BY <1>3, <2>1
<1>4. ASSUME NEW s \in Streams,
             BusClosed(s) \/ LastEventSent(s) \/ Abort(s) \/ StopAfterDisconnect(s) \/ NoticeCancel(s)
      PROVE Goal
  <2>1. CancelAgent(s, reply) /\ viaRuntime' = viaRuntime
    BY <1>4 DEF BusClosed, LastEventSent, Abort, StopAfterDisconnect, NoticeCancel, EnterFinally
  <2> QED BY <1>0, <1>3, <2>1
<1>5. ASSUME NEW s \in Streams, NoticeDisconnect(s) PROVE Goal
  <2>1. CancelAgent(s, Disconnected(bridgeOf[s])) /\ viaRuntime' = viaRuntime
    BY <1>5 DEF NoticeDisconnect
  <2> QED BY <1>3, <2>1, DisconnectedType
<1>6. ASSUME NEW s \in Streams, Resume(s) PROVE Goal
  <2>1. Asked(s) \in Requests /\ asker[Asked(s)] = s
    BY <1>6, AskedIsOwn DEF Resume
  <2>2. ASSUME NEW r \in Requests, r = Asked(s) PROVE RequestMove(r)
    <3>1. verdict'[r] = IF Allows(r) THEN "ran" ELSE "refused"
      BY <1>0, <1>6, <2>1, <2>2 DEF Resume
    <3> QED BY <1>6, <2>1, <2>2, <3>1 DEF Resume, RequestMove
  <2>3. ASSUME NEW r \in Requests, r # Asked(s) PROVE RequestMove(r)
    <3>1. verdict'[r] = verdict[r]
      BY <1>0, <1>6, <2>3 DEF Resume
    <3> QED BY <1>6, <3>1 DEF Resume, RequestMove
  <2>4. viaRuntime' = viaRuntime
    BY <1>6 DEF Resume
  <2> QED BY <2>2, <2>3, <2>4
<1>7. ASSUME NEW s \in Streams, NEW q \in Requests, NEW k \in Kinds, Ask(s, q, k) PROVE Goal
  <2>1. asker[q] = NoStream /\ asker' = [asker EXCEPT ![q] = s] /\ kind' = [kind EXCEPT ![q] = k]
    BY <1>7 DEF Ask
  <2>2. /\ (reply' = reply \/ reply' = [reply EXCEPT ![q] = "open"])
        /\ \/ verdict' = verdict
           \/ verdict' = [verdict EXCEPT ![q] = "refused"]
           \/ verdict' = [verdict EXCEPT ![q] = "ran"] /\ (viaRuntime \/ k = "fire_and_continue")
    BY <1>7 DEF Ask
  <2>3. viaRuntime' = viaRuntime
    BY <1>7 DEF Ask
  <2>4. \A r \in Requests : RequestMove(r)
    <3> TAKE r \in Requests
    <3>1. CASE r = q
      BY <1>0, <2>1, <2>2, <3>1 DEF RequestMove
    <3>2. CASE r # q
      BY <1>0, <2>1, <2>2, <3>2 DEF RequestMove
    <3> QED BY <3>1, <3>2
  <2> QED BY <2>3, <2>4
<1>8. ASSUME NEW q \in Requests, TimeOut(q) \/ Respond(q, "approve") \/ Respond(q, "deny")
      PROVE Goal
  BY <1>0, <1>8 DEF TimeOut, Respond, RequestMove
<1>9. CASE CancelChat
  BY <1>1, <1>9 DEF CancelChat
<1>10. CASE UNCHANGED vars
  BY <1>1, <1>10 DEF vars
<1> QED
  BY <1>2, <1>4, <1>5, <1>6, <1>7, <1>8, <1>9, <1>10 DEF Next, Generator

\* A request without a raiser stays untouched until somebody raises it.
LEMMA FreshStep ==
    ASSUME Fresh, \A r \in Requests : RequestMove(r)
    PROVE  Fresh'
  BY DEF Fresh, RequestMove

\* What an agent that waits has raised stays its own and open to a verdict: only
\* its own resumption or cancellation decides it.
LEMMA AskingStep == TypeOK /\ Fresh /\ AskingHasRequest /\ [Next]_vars => AskingHasRequest'
<1> SUFFICES ASSUME TypeOK, Fresh, AskingHasRequest, [Next]_vars,
                    NEW t \in Streams, agent'[t] = "asking"
             PROVE  \E r \in Requests : asker'[r] = t /\ verdict'[r] = "none"
  BY DEF AskingHasRequest
<1> DEFINE Goal == \E r \in Requests : asker'[r] = t /\ verdict'[r] = "none"
<1>0. /\ asker \in [Requests -> Streams \cup {NoStream}]
      /\ agent \in [Streams -> {"none", "running", "asking", "stopping", "done"}]
      /\ reply \in [Requests -> {"none", "open"} \cup Decided]
      /\ verdict \in [Requests -> {"none", "ran", "refused", "dropped"}]
  BY DEF TypeOK
<1>1. ASSUME asker' = asker, verdict' = verdict, agent[t] = "asking" PROVE Goal
  BY <1>1 DEF AskingHasRequest
<1>2. ASSUME NEW s \in Streams,
             \/ Post(s) \/ SetupFails(s) \/ Leave(s) \/ Finish(s) \/ Forward(s)
             \/ StopAfterCancel(s)
      PROVE Goal
  BY <1>1, <1>2 DEF Post, SetupFails, Leave, Finish, Forward, StopAfterCancel
<1>3. ASSUME NEW s \in Streams, Start(s) \/ AgentEnds(s) PROVE Goal
  <2>1. /\ asker' = asker /\ verdict' = verdict
        /\ agent' = [agent EXCEPT ![s] = "running"] \/ agent' = [agent EXCEPT ![s] = "done"]
    BY <1>3 DEF Start, AgentEnds
  <2> QED BY <1>0, <1>1, <2>1
<1>4. ASSUME NEW s \in Streams, NEW rep \in [Requests -> {"none", "open"} \cup Decided],
             CancelAgent(s, rep)
      PROVE Goal
  <2>1. agent[t] = "asking" /\ (t = s => agent'[s] # "stopping")
    BY <1>0, <1>4, CancelAgentMoves
  <2>2. PICK r \in Requests : asker[r] = t /\ verdict[r] = "none"
    BY <2>1 DEF AskingHasRequest
  <2>3. asker'[r] = t /\ verdict'[r] = "none"
    BY <1>4, <2>1, <2>2, CancelAgentMoves
  <2> QED BY <2>3
<1>5. ASSUME NEW s \in Streams,
             BusClosed(s) \/ LastEventSent(s) \/ Abort(s) \/ StopAfterDisconnect(s) \/ NoticeCancel(s)
      PROVE Goal
  <2>1. CancelAgent(s, reply)
    BY <1>5 DEF BusClosed, LastEventSent, Abort, StopAfterDisconnect, NoticeCancel, EnterFinally
  <2> QED BY <1>0, <1>4, <2>1
<1>6. ASSUME NEW s \in Streams, NoticeDisconnect(s) PROVE Goal
  <2>1. CancelAgent(s, Disconnected(bridgeOf[s]))
    BY <1>6 DEF NoticeDisconnect
  <2> QED BY <1>4, <2>1, DisconnectedType
<1>7. ASSUME NEW s \in Streams, Resume(s) PROVE Goal
  <2>1. Asked(s) \in Requests /\ asker[Asked(s)] = s
    BY <1>7, AskedIsOwn DEF Resume
  <2>2. t # s /\ agent[t] = "asking"
    BY <1>0, <1>7 DEF Resume
  <2>3. PICK r \in Requests : asker[r] = t /\ verdict[r] = "none"
    BY <2>2 DEF AskingHasRequest
  <2>4. asker'[r] = t /\ verdict'[r] = "none"
    BY <1>0, <1>7, <2>1, <2>2, <2>3 DEF Resume
  <2> QED BY <2>4
<1>8. ASSUME NEW s \in Streams, NEW q \in Requests, NEW k \in Kinds, Ask(s, q, k) PROVE Goal
  <2>1. asker[q] = NoStream /\ verdict[q] = "none" /\ asker' = [asker EXCEPT ![q] = s]
    BY <1>8 DEF Ask, Fresh
  <2>2. \/ agent' = agent /\ agent[s] = "running"
        \/ agent' = [agent EXCEPT ![s] = "asking"] /\ verdict' = verdict
    BY <1>8 DEF Ask
  <2>3. \A r \in Requests \ {q} : verdict'[r] = verdict[r]
    BY <1>0, <1>8 DEF Ask
  <2>4. CASE t = s
    BY <1>0, <2>1, <2>2, <2>4
  <2>5. CASE t # s
    <3>1. agent[t] = "asking"
      BY <1>0, <2>2, <2>5
    <3>2. PICK r \in Requests : asker[r] = t /\ verdict[r] = "none"
      BY <3>1 DEF AskingHasRequest
    <3>3. asker'[r] = t /\ verdict'[r] = "none"
      BY <1>0, <2>1, <2>3, <3>2
    <3> QED BY <3>3
  <2> QED BY <2>4, <2>5
<1>9. ASSUME NEW q \in Requests, TimeOut(q) \/ Respond(q, "approve") \/ Respond(q, "deny")
      PROVE Goal
  BY <1>1, <1>9 DEF TimeOut, Respond
<1>10. CASE CancelChat
  BY <1>1, <1>10 DEF CancelChat
<1>11. CASE UNCHANGED vars
  BY <1>1, <1>11 DEF vars
<1> QED
  BY <1>2, <1>3, <1>5, <1>6, <1>7, <1>8, <1>9, <1>10, <1>11 DEF Next, Generator

\* What a step does to the workers of one stream: nothing restarts them once the
\* generator runs, and the generator moves on to the end only behind them.
WorkerMove(t) ==
    /\ \/ stream'[t] = "polling"
       \/ /\ agent[t] = "done" => agent'[t] = "done"
          /\ hitl'[t] = hitl[t] \/ hitl'[t] = "done"
    /\ stream'[t] = "closing" => stream[t] = "closing" \/ hitl'[t] = "done"
    /\ stream'[t] = "closed" => \/ stream[t] = "closed"
                                \/ stream[t] = "closing" /\ agent[t] = "done"

\* Every step does that to every stream.
LEMMA WorkerMoves ==
    TypeOK /\ AskingHasRequest /\ [Next]_vars => \A t \in Streams : WorkerMove(t)
<1> SUFFICES ASSUME TypeOK, AskingHasRequest, [Next]_vars
             PROVE  \A t \in Streams : WorkerMove(t)
  OBVIOUS
<1> DEFINE Goal == \A t \in Streams : WorkerMove(t)
<1>0. /\ stream \in [Streams -> StreamStates]
      /\ agent \in [Streams -> {"none", "running", "asking", "stopping", "done"}]
      /\ hitl \in [Streams -> {"none", "running", "done"}]
      /\ reply \in [Requests -> {"none", "open"} \cup Decided]
  BY DEF TypeOK, StreamStates
<1>1. ASSUME UNCHANGED <<stream, agent, hitl>> PROVE Goal
  BY <1>1 DEF WorkerMove
<1>2. ASSUME NEW s \in Streams, Post(s) \/ SetupFails(s) \/ Start(s) \/ StopAfterCancel(s)
      PROVE Goal
  <2>1. /\ UNCHANGED <<agent, hitl>> \/ stream'[s] = "polling"
        /\ \A t \in Streams \ {s} : UNCHANGED <<stream[t], agent[t], hitl[t]>>
        /\ stream'[s] \notin {"closing", "closed"}
    BY <1>0, <1>2 DEF Post, SetupFails, Start, StopAfterCancel
  <2> QED BY <2>1 DEF WorkerMove
<1>3. ASSUME NEW s \in Streams, Finish(s) PROVE Goal
  BY <1>0, <1>3 DEF Finish, WorkerMove
<1>4. ASSUME NEW s \in Streams, NEW rep \in [Requests -> {"none", "open"} \cup Decided],
             CancelAgent(s, rep),
             \/ stream' = [stream EXCEPT ![s] = "closing"] /\ hitl' = [hitl EXCEPT ![s] = "done"]
             \/ stream' = [stream EXCEPT ![s] = "leaving"] /\ hitl' = hitl
             \/ stream' = [stream EXCEPT ![s] = "cancelling"] /\ hitl' = hitl
      PROVE Goal
  <2>1. /\ \A t \in Streams \ {s} : agent'[t] = agent[t]
        /\ agent'[s] = agent[s] \/ agent[s] # "done"
    BY <1>4, CancelAgentMoves
  <2>2. /\ \A t \in Streams \ {s} : stream'[t] = stream[t] /\ hitl'[t] = hitl[t]
        /\ stream'[s] # "closed" /\ (hitl'[s] = hitl[s] \/ hitl'[s] = "done")
        /\ stream'[s] = "closing" => hitl'[s] = "done"
    BY <1>0, <1>4
  <2> QED BY <2>1, <2>2 DEF WorkerMove
<1>5. ASSUME NEW s \in Streams,
             BusClosed(s) \/ LastEventSent(s) \/ Abort(s) \/ StopAfterDisconnect(s)
      PROVE Goal
  <2>1. EnterFinally(s)
    BY <1>5 DEF BusClosed, LastEventSent, Abort, StopAfterDisconnect
  <2> QED BY <1>4, <2>1, FinallyMoves
<1>6. ASSUME NEW s \in Streams, NoticeDisconnect(s) PROVE Goal
  <2>1. /\ CancelAgent(s, Disconnected(bridgeOf[s]))
        /\ stream' = [stream EXCEPT ![s] = "leaving"] /\ hitl' = hitl
    BY <1>6 DEF NoticeDisconnect
  <2> QED BY <1>4, <2>1, DisconnectedType
<1>7. ASSUME NEW s \in Streams, NoticeCancel(s) PROVE Goal
  <2>1. /\ CancelAgent(s, reply)
        /\ stream' = [stream EXCEPT ![s] = "cancelling"] /\ hitl' = hitl
    BY <1>7 DEF NoticeCancel
  <2> QED BY <1>0, <1>4, <2>1
<1>8. ASSUME NEW s \in Streams, Leave(s) \/ AgentEnds(s) \/ Forward(s) \/ Resume(s)
      PROVE Goal
  <2>1. /\ stream' = stream
        /\ \/ agent' = agent
           \/ agent' = [agent EXCEPT ![s] = "done"]
           \/ agent' = [agent EXCEPT ![s] = "running"] /\ agent[s] = "asking"
        /\ hitl' = hitl \/ hitl' = [hitl EXCEPT ![s] = "done"]
    BY <1>8 DEF Leave, AgentEnds, Forward, Resume
  <2> QED BY <1>0, <2>1 DEF WorkerMove
<1>9. ASSUME NEW s \in Streams, NEW r \in Requests, NEW k \in Kinds, Ask(s, r, k) PROVE Goal
  <2>1. /\ stream' = stream /\ hitl' = hitl /\ agent[s] = "running"
        /\ agent' = agent \/ agent' = [agent EXCEPT ![s] = "asking"]
    BY <1>9 DEF Ask
  <2> QED BY <1>0, <2>1 DEF WorkerMove
<1>10. ASSUME NEW r \in Requests, TimeOut(r) \/ Respond(r, "approve") \/ Respond(r, "deny")
       PROVE Goal
  BY <1>1, <1>10 DEF TimeOut, Respond
<1>11. CASE CancelChat
  BY <1>1, <1>11 DEF CancelChat
<1>12. CASE UNCHANGED vars
  BY <1>1, <1>12 DEF vars
<1> QED
  BY <1>2, <1>3, <1>5, <1>6, <1>7, <1>8, <1>9, <1>10, <1>11, <1>12 DEF Next, Generator

\* What the moves of the workers keep.
LEMMA WorkersStep ==
    ASSUME WorkersFollowStream, \A t \in Streams : WorkerMove(t)
    PROVE  WorkersFollowStream'
  BY DEF WorkersFollowStream, WorkerMove

\* A tool that has run keeps its ground: its request is neither raised nor
\* settled again.
LEMMA AllowedStep ==
    ASSUME Fresh, RunsOnlyWhenAllowed, viaRuntime' = viaRuntime,
           \A r \in Requests : RequestMove(r)
    PROVE  RunsOnlyWhenAllowed'
  BY DEF Fresh, RunsOnlyWhenAllowed, RequestMove, Allows

\* The inductive invariant.
IInv ==
    /\ TypeOK
    /\ Fresh
    /\ AskingHasRequest
    /\ StreamHoldsLock
    /\ WorkersFollowStream
    /\ RunsOnlyWhenAllowed

\* The invariant holds at first, and every step keeps it.
LEMMA InitInvariant == Init => IInv
  BY DEF Init, IInv, TypeOK, Fresh, AskingHasRequest, StreamHoldsLock, WorkersFollowStream,
         RunsOnlyWhenAllowed

\* Every step keeps it.
LEMMA StepInvariant == IInv /\ [Next]_vars => IInv'
<1> SUFFICES ASSUME IInv, [Next]_vars PROVE IInv'
  OBVIOUS
<1>1. TypeOK /\ Fresh /\ AskingHasRequest /\ StreamHoldsLock /\ WorkersFollowStream /\ RunsOnlyWhenAllowed
  BY DEF IInv
<1>2. TypeOK'
  BY <1>1, TypeStep
<1>3. viaRuntime' = viaRuntime /\ \A r \in Requests : RequestMove(r)
  BY <1>1, RequestMoves
<1>4. Fresh' /\ RunsOnlyWhenAllowed'
  BY <1>1, <1>3, FreshStep, AllowedStep
<1>5. AskingHasRequest'
  BY <1>1, AskingStep
<1>6. StreamHoldsLock'
  BY <1>1, LockMoves, LockStep
<1>7. WorkersFollowStream'
  BY <1>1, WorkerMoves, WorkersStep
<1> QED BY <1>2, <1>4, <1>5, <1>6, <1>7 DEF IInv

\* The invariant holds of every state of the server.
LEMMA Inductive == Spec => []IInv
  BY InitInvariant, StepInvariant, PTL DEF Spec

\* The state of the thread, of its bridges and of its requests is well-formed.
THEOREM TypeCorrectness == Spec => []TypeOK
  <1>1. IInv => TypeOK
    BY DEF IInv
  <1> QED BY <1>1, Inductive, PTL

\* Single flight: the lock is held exactly by the one stream that is active, and
\* POST /cancel reaches exactly the one whose generator runs.
THEOREM OneStreamHoldsTheThread == Spec => []StreamHoldsLock
  <1>1. IInv => StreamHoldsLock
    BY DEF IInv
  <1> QED BY <1>1, Inductive, PTL

\* When the generator of a stream has returned, its agent and its HITL worker
\* have ended.
THEOREM NoCoroutineOutlivesItsStream == Spec => []NoOrphanedWorker
  <1>1. IInv => NoOrphanedWorker
    BY DEF IInv, WorkersFollowStream, NoOrphanedWorker
  <1> QED BY <1>1, Inductive, PTL

\* On the direct path no order of answers, timeouts, disconnects and cancels lets
\* a tool run that its mode and the user's decision do not allow.
THEOREM ToolsRunOnlyWhenAllowed == Spec => []RunsOnlyWhenAllowed
  <1>1. IInv => RunsOnlyWhenAllowed
    BY DEF IInv
  <1> QED BY <1>1, Inductive, PTL

\* A request is settled once.
THEOREM FirstOutcomeIsFinal == Spec => FirstOutcomeStands
  <1>1. IInv /\ [Next]_vars
           => [\A r \in Requests : reply[r] \in Decided => reply'[r] = reply[r]]_vars
    <2> SUFFICES ASSUME IInv, [Next]_vars, NEW r \in Requests, reply[r] \in Decided
                 PROVE  reply'[r] = reply[r]
      OBVIOUS
    <2>1. TypeOK /\ Fresh /\ AskingHasRequest
      BY DEF IInv
    <2>2. RequestMove(r) /\ asker[r] # NoStream
      BY <2>1, RequestMoves DEF Fresh
    <2> QED BY <2>2 DEF RequestMove
  <1> QED BY <1>1, Inductive, PTL DEF Spec, FirstOutcomeStands

-----------------------------------------------------------------------------
(* Who closes a bus                                                        *)

\* Streams whose client has left or that were cancelled.
Left == gone \cup cancelled

\* Where DONE is in a sequence.
Dones(q) == {i \in DOMAIN q : q[i] = DONE}

\* Another stream on the bridge b was left or cancelled.
Spoilt(b, s) == \E x \in Left \ {s} : bridgeOf[x] = b

\* The one DONE on the bridge, in its queue or behind the closed bus, is s's own.
Own(s) ==
    LET D == Dones(outgoing[bridgeOf[s]]) IN
    /\ \A i, j \in D : i = j
    /\ D # {} => signaled[s] /\ s \notin closed
    /\ s \in closed => signaled[s]

\* No active stream has a DONE that is not its own, unless its bridge is spoilt.
OwnDone ==
    \A s \in Streams : stream[s] \in Active => Own(s) \/ Spoilt(bridgeOf[s], s)

\* No DONE waits in a bridge for the next stream, unless a stream on it was left
\* or cancelled.
NoStaleDone ==
    \A b \in Streams : Dones(outgoing[b]) # {} =>
        \E x \in Streams : bridgeOf[x] = b /\ (stream[x] \in Active \/ x \in Left)

\* An agent that is still stopping behind its stream can signal DONE later: its
\* stream was left or cancelled, or an earlier one on its bridge was.
ClosersAreDone ==
    \A s \in Streams : stream[s] = "closing" /\ agent[s] # "done" =>
        \/ s \in Left
        \/ \E y \in Left \ {s} : bridgeOf[y] = bridgeOf[s] /\ stream[y] \notin Active

\* What the place of a stream says about the rest of its state.
StagedAt(s) ==
    /\ stream[s] \in {"new", "refused"} => bridgeOf[s] = NoStream /\ s \notin Left
    /\ stream[s] \notin {"new", "refused"} => bridgeOf[s] \in Streams
    /\ stream[s] \in {"new", "refused", "setup", "failed"} =>
          agent[s] = "none" /\ hitl[s] = "none" /\ ~signaled[s] /\ s \notin closed
    /\ stream[s] = "leaving" => s \in gone
    /\ stream[s] \in {"cancelling", "last_event"} => s \in cancelled
    /\ stream[s] = "polling" /\ signaled[s] => agent[s] = "done"

Staged == \A s \in Streams : StagedAt(s)

\* The bridge that a new stream may create is not there yet.
OwnBridge ==
    \A s \in Streams : stream[s] = "new" =>
        registered # s /\ outgoing[s] = <<>> /\ \A x \in Streams : bridgeOf[x] # s

\* A request or DONE in the queue of a bridge.
LEMMA DonesAppend ==
    ASSUME NEW S, NEW q \in Seq(S), NEW e
    PROVE  Dones(Append(q, e)) = Dones(q) \cup (IF e = DONE THEN {Len(q) + 1} ELSE {})
  <1>1. Len(q) \in Nat /\ DOMAIN q = 1..Len(q)
    OBVIOUS
  <1>2. /\ DOMAIN Append(q, e) = 1..(Len(q) + 1) /\ Append(q, e)[Len(q) + 1] = e
        /\ \A i \in 1..Len(q) : Append(q, e)[i] = q[i]
    OBVIOUS
  <1> DEFINE a == Append(q, e)
             l == Len(q)
  <1>3. 1..(l + 1) = (1..l) \cup {l + 1}
    BY <1>1
  <1>4. /\ DOMAIN q = 1..l /\ DOMAIN a = (1..l) \cup {l + 1} /\ a[l + 1] = e
        /\ \A i \in 1..l : a[i] = q[i]
    BY <1>1, <1>2, <1>3
  <1> HIDE DEF a, l
  <1>5. Dones(a) = Dones(q) \cup (IF e = DONE THEN {l + 1} ELSE {})
    BY <1>4 DEF Dones
  <1> QED BY <1>5 DEF a, l

\* A worker that takes the only DONE leaves none.
LEMMA DonesTail ==
    ASSUME NEW S, NEW q \in Seq(S), q # <<>>
    PROVE  /\ \A i \in Dones(Tail(q)) : i \in Nat \ {0} /\ i + 1 \in Dones(q)
           /\ Head(q) = DONE => 1 \in Dones(q)
  <1> DEFINE t == Tail(q)
             l == Len(q)
  <1>1. /\ l \in Nat /\ l # 0 /\ DOMAIN q = 1..l /\ DOMAIN t = 1..(l - 1) /\ Head(q) = q[1]
        /\ \A i \in 1..(l - 1) : t[i] = q[i + 1]
    OBVIOUS
  <1> HIDE DEF t, l
  <1>2. /\ \A i \in 1..(l - 1) : i \in Nat \ {0} /\ i + 1 \in 1..l
        /\ 1 \in 1..l
    BY <1>1
  <1> QED BY <1>1, <1>2 DEF Dones, t

\* The finally block does that to the agent.
LEMMA FinallyAgent ==
    ASSUME TypeOK, AskingHasRequest, NEW s \in Streams, EnterFinally(s)
    PROVE  /\ stream' = [stream EXCEPT ![s] = "closing"]
           /\ hitl' = [hitl EXCEPT ![s] = "done"]
           /\ \A t \in Streams \ {s} : agent'[t] = agent[t]
           /\ agent[s] = "done" => agent'[s] = "done"
  <1>1. /\ reply \in [Requests -> {"none", "open"} \cup Decided] /\ CancelAgent(s, reply)
        /\ stream' = [stream EXCEPT ![s] = "closing"] /\ hitl' = [hitl EXCEPT ![s] = "done"]
    BY FinallyMoves
  <1> QED BY <1>1, CancelAgentMoves

\* What a step may do that puts and takes no DONE and lets no stream begin or end.
LEMMA DonesRest ==
    ASSUME TypeOK, OwnDone, NoStaleDone, ClosersAreDone,
           UNCHANGED <<bridgeOf, signaled, closed>>,
           \A b \in Streams : Dones(outgoing'[b]) = Dones(outgoing[b]),
           Left \subseteq Left',
           \A s \in Streams : /\ stream'[s] \in Active <=> stream[s] \in Active
                              /\ stream'[s] = "closing" => stream[s] = "closing"
                              /\ stream[s] = "closing" /\ agent[s] = "done" => agent'[s] = "done",
           \A s \in Streams : stream[s] \in Active => bridgeOf[s] \in Streams
    PROVE  OwnDone' /\ NoStaleDone' /\ ClosersAreDone'
  <1>1. OwnDone'
    <2> SUFFICES ASSUME NEW s \in Streams, stream[s] \in Active
                 PROVE  Own(s)' \/ Spoilt(bridgeOf[s], s)'
      BY DEF OwnDone, Spoilt, Own
    <2>1. Spoilt(bridgeOf[s], s) => Spoilt(bridgeOf[s], s)'
      BY DEF Spoilt
    <2>2. Own(s) => Own(s)'
      BY DEF Own
    <2> QED BY <2>1, <2>2 DEF OwnDone
  <1>2. NoStaleDone'
    BY DEF NoStaleDone
  <1>3. ClosersAreDone'
    <2>1. Left \subseteq Streams
      BY DEF Left, TypeOK
    <2> QED BY <2>1 DEF ClosersAreDone
  <1> QED BY <1>1, <1>2, <1>3

\* When an active stream ends without putting DONE, the bridge stays clean.
LEMMA DonesClose ==
    ASSUME TypeOK, StreamHoldsLock, Staged, OwnDone, NoStaleDone, ClosersAreDone,
           NEW s \in Streams, stream[s] \in Active,
           NEW to \in {"closing", "failed"}, stream' = [stream EXCEPT ![s] = to],
           UNCHANGED <<bridgeOf, gone, cancelled, outgoing>>,
           \A t \in Streams \ {s} : agent'[t] = agent[t],
           \/ s \in Left
           \/ to = "failed" /\ ~signaled[s]
           \/ s \in closed /\ (signaled[s] => agent'[s] = "done")
    PROVE  OwnDone' /\ NoStaleDone' /\ ClosersAreDone'
  <1>1. \A t \in Streams : IF t = s THEN stream'[t] = to
                                     ELSE stream'[t] = stream[t] /\ stream[t] \notin Active
    BY DEF TypeOK, StreamHoldsLock
  <1>2. OwnDone'
    BY <1>1 DEF OwnDone
  <1>l. Left' = Left
    BY DEF Left
  <1>3. \/ s \in Left \/ Spoilt(bridgeOf[s], s)
        \/ Own(s) /\ Dones(outgoing[bridgeOf[s]]) = {} /\ (to = "closing" => agent'[s] = "done")
    BY DEF OwnDone, Own
  <1>4. NoStaleDone'
    <2> SUFFICES ASSUME NEW b \in Streams, Dones(outgoing[b]) # {}
                 PROVE  \E x \in Streams : bridgeOf[x] = b /\ x \in Left
      BY <1>l DEF NoStaleDone
    <2>1. PICK x \in Streams : bridgeOf[x] = b /\ (stream[x] \in Active \/ x \in Left)
      BY DEF NoStaleDone
    <2>2. CASE x = s
      BY <1>3, <2>1, <2>2 DEF Spoilt, Left, TypeOK
    <2> QED BY <1>1, <2>1, <2>2
  <1>5. ClosersAreDone'
    <2> SUFFICES ASSUME NEW t \in Streams, stream'[t] = "closing", agent'[t] # "done", t \notin Left
                 PROVE  \E y \in Left \ {t} : bridgeOf[y] = bridgeOf[t] /\ stream'[y] \notin Active
      BY <1>l DEF ClosersAreDone
    <2>0. to \notin Active
      OBVIOUS
    <2>1. CASE t = s
      <3>1. PICK y \in Left \ {s} : bridgeOf[y] = bridgeOf[s]
        BY <1>1, <1>3, <2>1 DEF Spoilt
      <3> QED BY <1>1, <2>1, <3>1 DEF TypeOK, Left
    <2>2. CASE t # s
      <3>1. PICK y \in Left \ {t} : bridgeOf[y] = bridgeOf[t] /\ stream[y] \notin Active
        BY <1>1, <2>2 DEF ClosersAreDone
      <3> QED BY <1>1, <2>0, <3>1 DEF TypeOK, Left
    <2> QED BY <2>1, <2>2
  <1> QED BY <1>2, <1>4, <1>5

\* What signal_done does to the DONEs.
LEMMA SignalMoves ==
    ASSUME TypeOK, NEW s \in Streams, bridgeOf[s] \in Streams, SignalDone(s)
    PROVE  /\ signaled'[s]
           /\ \A t \in Streams \ {s} : signaled'[t] = signaled[t]
           /\ \A b \in Streams : b # bridgeOf[s] => outgoing'[b] = outgoing[b]
           /\ signaled[s] => outgoing' = outgoing
           /\ ~signaled[s] => \E i \in Nat :
                 Dones(outgoing'[bridgeOf[s]]) = Dones(outgoing[bridgeOf[s]]) \cup {i}
  <1> DEFINE b == bridgeOf[s]
  <1>1. /\ signaled' = [signaled EXCEPT ![s] = TRUE]
        /\ outgoing' = IF signaled[s] THEN outgoing ELSE [outgoing EXCEPT ![b] = Append(@, DONE)]
    BY DEF SignalDone
  <1>2. signaled \in [Streams -> BOOLEAN] /\ outgoing \in [Streams -> Seq(Requests \cup {DONE})]
    BY DEF TypeOK
  <1>3. ASSUME ~signaled[s]
        PROVE  \E i \in Nat : Dones(outgoing'[b]) = Dones(outgoing[b]) \cup {i}
    <2>1. outgoing'[b] = Append(outgoing[b], DONE) /\ outgoing[b] \in Seq(Requests \cup {DONE})
      BY <1>1, <1>2, <1>3
    <2>2. Dones(Append(outgoing[b], DONE)) = Dones(outgoing[b]) \cup {Len(outgoing[b]) + 1}
      BY <2>1, DonesAppend
    <2>3. Len(outgoing[b]) + 1 \in Nat
      BY <2>1
    <2> QED BY <2>1, <2>2, <2>3
  <1> QED BY <1>1, <1>2, <1>3

\* A DONE that s signals while it is active is its own; one that its agent signals
\* behind it spoils nothing that was not spoilt.
LEMMA DonesSignal ==
    ASSUME TypeOK, StreamHoldsLock, Staged, OwnDone, NoStaleDone, ClosersAreDone,
           NEW s \in Streams, bridgeOf[s] \in Streams, SignalDone(s),
           UNCHANGED <<bridgeOf, gone, cancelled, closed>>,
           stream[s] \in Active \/ (stream[s] = "closing" /\ agent[s] # "done"),
           \A t \in Streams \ {s} : stream'[t] = stream[t] /\ agent'[t] = agent[t],
           agent[s] = "done" => agent'[s] = "done",
           \/ stream'[s] = stream[s]
           \/ stream'[s] \in Active /\ stream[s] \in Active
           \/ stream'[s] = "closing" /\ s \in Left
    PROVE  OwnDone' /\ NoStaleDone' /\ ClosersAreDone'
  <1> DEFINE b == bridgeOf[s]
  <1>l. Left' = Left /\ Left \subseteq Streams
    BY DEF Left, TypeOK
  <1>s. /\ signaled'[s]
        /\ \A t \in Streams \ {s} : signaled'[t] = signaled[t]
        /\ \A c \in Streams : c # b => outgoing'[c] = outgoing[c]
        /\ signaled[s] => outgoing' = outgoing
        /\ ~signaled[s] => \E i \in Nat : Dones(outgoing'[b]) = Dones(outgoing[b]) \cup {i}
    BY SignalMoves
  <1>a. stream[s] \in Active => \A t \in Streams \ {s} : stream[t] \notin Active
    BY DEF StreamHoldsLock
  <1>c. stream[s] \notin Active => \/ s \in Left
                                   \/ \E y \in Left \ {s} : bridgeOf[y] = b /\ stream[y] \notin Active
    BY DEF ClosersAreDone
  <1> HIDE DEF b
  <1>1. ASSUME NEW t \in Streams, stream'[t] \in Active
        PROVE  Own(t)' \/ Spoilt(bridgeOf[t], t)'
    <2>1. CASE t = s
      <3>1. stream[s] \in Active
        BY <1>1, <2>1
      <3>2. CASE Spoilt(bridgeOf[s], s)
        BY <1>l, <2>1, <3>2 DEF Spoilt
      <3>3. CASE Own(s) /\ signaled[s]
        BY <1>s, <2>1, <3>3 DEF Own
      <3>4. CASE Own(s) /\ ~signaled[s]
        <4>1. Dones(outgoing[b]) = {} /\ s \notin closed
          BY <3>4 DEF Own, b
        <4>2. PICK i \in Nat : Dones(outgoing'[b]) = {i}
          BY <1>s, <3>4, <4>1
        <4> QED BY <1>s, <2>1, <4>1, <4>2 DEF Own, b
      <3> QED BY <3>1, <3>2, <3>3, <3>4 DEF OwnDone
    <2>2. CASE t # s
      <3>1. stream[t] \in Active /\ stream[s] \notin Active
        BY <1>1, <1>a, <2>2
      <3>2. CASE bridgeOf[t] = b
        <4>1. \E y \in Left \ {t} : bridgeOf[y] = b
          BY <1>c, <2>2, <3>1 DEF b
        <4> QED BY <1>l, <3>2, <4>1 DEF Spoilt
      <3>3. CASE bridgeOf[t] # b
        <4>1. bridgeOf[t] \in Streams
          BY <3>1 DEF Staged, StagedAt
        <4>2. outgoing'[bridgeOf[t]] = outgoing[bridgeOf[t]] /\ signaled'[t] = signaled[t]
          BY <1>s, <2>2, <3>3, <4>1
        <4>3. Own(t) => Own(t)'
          BY <4>2 DEF Own
        <4>4. Spoilt(bridgeOf[t], t) => Spoilt(bridgeOf[t], t)'
          BY <1>l DEF Spoilt
        <4> QED BY <3>1, <4>3, <4>4 DEF OwnDone
      <3> QED BY <3>2, <3>3
    <2> QED BY <2>1, <2>2
  <1>2. NoStaleDone'
    <2> SUFFICES ASSUME NEW c \in Streams, Dones(outgoing'[c]) # {}
                 PROVE  \E x \in Streams : bridgeOf[x] = c /\ (stream'[x] \in Active \/ x \in Left)
      BY <1>l DEF NoStaleDone
    <2>1. CASE c = b
      BY <1>c, <1>l, <2>1 DEF b
    <2>2. CASE c # b
      <3>1. PICK x \in Streams : bridgeOf[x] = c /\ (stream[x] \in Active \/ x \in Left)
        BY <1>s, <2>2 DEF NoStaleDone
      <3> QED BY <2>2, <3>1 DEF b
    <2> QED BY <2>1, <2>2
  <1>3. ClosersAreDone'
    <2> SUFFICES ASSUME NEW t \in Streams, stream'[t] = "closing", agent'[t] # "done", t \notin Left
                 PROVE  \E y \in Left \ {t} : bridgeOf[y] = bridgeOf[t] /\ stream'[y] \notin Active
      BY <1>l DEF ClosersAreDone
    <2>1. stream[t] = "closing" /\ agent[t] # "done"
      OBVIOUS
    <2>2. PICK y \in Left \ {t} : bridgeOf[y] = bridgeOf[t] /\ stream[y] \notin Active
      BY <2>1 DEF ClosersAreDone
    <2> QED BY <1>l, <2>2
  <1> QED BY <1>1, <1>2, <1>3 DEF OwnDone

\* Every step keeps the DONEs where they belong.
LEMMA DonesStep ==
    ASSUME TypeOK, AskingHasRequest, StreamHoldsLock, WorkersFollowStream, Staged, OwnBridge,
           OwnDone, NoStaleDone, ClosersAreDone, [Next]_vars
    PROVE  OwnDone' /\ NoStaleDone' /\ ClosersAreDone'
<1> DEFINE Goal == OwnDone' /\ NoStaleDone' /\ ClosersAreDone'
<1>0. /\ stream \in [Streams -> StreamStates]
      /\ agent \in [Streams -> {"none", "running", "asking", "stopping", "done"}]
      /\ outgoing \in [Streams -> Seq(Requests \cup {DONE})]
      /\ reply \in [Requests -> {"none", "open"} \cup Decided]
  BY DEF TypeOK, StreamStates
<1>b. \A s \in Streams : stream[s] \notin {"new", "refused"} => bridgeOf[s] \in Streams
  BY DEF Staged, StagedAt
<1>r. ASSUME UNCHANGED <<bridgeOf, signaled, closed, outgoing>>, Left \subseteq Left',
             \A s \in Streams : /\ stream'[s] \in Active <=> stream[s] \in Active
                                /\ stream'[s] = "closing" => stream[s] = "closing"
                                /\ stream[s] = "closing" /\ agent[s] = "done" => agent'[s] = "done"
      PROVE Goal
  BY <1>b, <1>r, DonesRest
<1>1. ASSUME NEW s \in Streams, Post(s) PROVE Goal
  <2>1. /\ stream[s] = "new" /\ UNCHANGED <<outgoing, gone, cancelled, signaled, closed, agent>>
    BY <1>1 DEF Post
  <2>2. CASE lock # NoStream
    <3>1. stream' = [stream EXCEPT ![s] = "refused"] /\ UNCHANGED bridgeOf
      BY <1>1, <2>2 DEF Post
    <3> QED BY <1>0, <1>r, <2>1, <3>1 DEF Left
  <2>3. CASE lock = NoStream
    <3>1. /\ stream' = [stream EXCEPT ![s] = "setup"]
          /\ registered' \in Streams /\ bridgeOf' = [bridgeOf EXCEPT ![s] = registered']
      BY <1>1, <2>3 DEF Post, TypeOK
    <3>2. /\ \A t \in Streams : stream[t] \notin Active
          /\ s \notin Left /\ s \notin closed /\ bridgeOf[s] = NoStream
      BY <2>1, <2>3 DEF StreamHoldsLock, Staged, StagedAt
    <3>3. /\ Left' = Left /\ Left \subseteq Streams
          /\ \A t \in Streams : IF t = s THEN stream'[t] = "setup" /\ bridgeOf'[t] = registered'
                                         ELSE stream'[t] = stream[t] /\ bridgeOf'[t] = bridgeOf[t]
      BY <2>1, <3>1 DEF Left, TypeOK
    <3>4. \A b \in Streams : Dones(outgoing[b]) # {} =>
             \E x \in Streams : bridgeOf[x] = b /\ x \in Left /\ x # s
      BY <3>2 DEF NoStaleDone
    <3>5. OwnDone'
      <4> SUFFICES ASSUME NEW t \in Streams, stream'[t] \in Active
                   PROVE  Own(t)' \/ Spoilt(bridgeOf[t], t)'
        BY DEF OwnDone
      <4>1. t = s
        BY <3>2, <3>3
      <4>2. CASE Dones(outgoing[registered']) = {}
        <5>1. Own(t)'
          BY <2>1, <3>2, <3>3, <4>1, <4>2 DEF Own
        <5> QED BY <5>1
      <4>3. CASE Dones(outgoing[registered']) # {}
        <5>1. Spoilt(bridgeOf[t], t)'
          BY <3>1, <3>3, <3>4, <4>1, <4>3 DEF Spoilt
        <5> QED BY <5>1
      <4> QED BY <4>2, <4>3
    <3>6. NoStaleDone'
      BY <2>1, <3>3, <3>4 DEF NoStaleDone
    <3>7. ClosersAreDone'
      BY <2>1, <3>2, <3>3 DEF ClosersAreDone
    <3> QED BY <3>5, <3>6, <3>7
  <2> QED BY <2>2, <2>3
<1>2. ASSUME NEW s \in Streams, SetupFails(s) PROVE Goal
  <2>1. /\ stream[s] = "setup" /\ stream' = [stream EXCEPT ![s] = "failed"]
        /\ UNCHANGED <<bridgeOf, gone, cancelled, outgoing, signaled, closed, agent>>
    BY <1>2 DEF SetupFails
  <2>2. ~signaled[s]
    BY <2>1 DEF Staged, StagedAt
  <2> QED BY <2>1, <2>2, DonesClose
<1>3. ASSUME NEW s \in Streams, Start(s) \/ Finish(s) PROVE Goal
  <2>1. /\ UNCHANGED <<bridgeOf, gone, cancelled, outgoing, signaled, closed>>
        /\ \/ /\ stream[s] = "setup" /\ stream' = [stream EXCEPT ![s] = "polling"]
              /\ agent' = [agent EXCEPT ![s] = "running"]
           \/ stream[s] = "closing" /\ stream' = [stream EXCEPT ![s] = "closed"] /\ agent' = agent
    BY <1>3 DEF Start, Finish
  <2> QED BY <1>0, <1>r, <2>1 DEF Left
<1>4. ASSUME NEW s \in Streams, Leave(s) \/ Resume(s) PROVE Goal
  <2>1. /\ UNCHANGED <<stream, bridgeOf, outgoing, signaled, closed, cancelled>> /\ gone \subseteq gone'
        /\ \/ agent' = agent
           \/ agent' = [agent EXCEPT ![s] = "running"] /\ agent[s] = "asking"
    BY <1>4 DEF Leave, Resume
  <2> QED BY <1>0, <1>r, <2>1 DEF Left
<1>5. CASE CancelChat
  BY <1>r, <1>5 DEF CancelChat, Left
<1>6. ASSUME NEW r \in Requests, TimeOut(r) \/ Respond(r, "approve") \/ Respond(r, "deny")
      PROVE Goal
  BY <1>r, <1>6 DEF TimeOut, Respond, Left
<1>7. ASSUME NEW s \in Streams, NEW r \in Requests, NEW k \in Kinds, Ask(s, r, k) PROVE Goal
  <2>1. /\ UNCHANGED <<stream, bridgeOf, signaled, closed, gone, cancelled>> /\ agent[s] = "running"
        /\ agent' = agent \/ agent' = [agent EXCEPT ![s] = "asking"]
        /\ outgoing' = outgoing \/ outgoing' = [outgoing EXCEPT ![bridgeOf[s]] = Append(@, r)]
    BY <1>7 DEF Ask
  <2>2. ASSUME NEW b \in Streams PROVE Dones(outgoing'[b]) = Dones(outgoing[b])
    <3>1. Dones(Append(outgoing[b], r)) = Dones(outgoing[b])
      <4>1. /\ Dones(Append(outgoing[b], r))
                 = Dones(outgoing[b]) \cup (IF r = DONE THEN {Len(outgoing[b]) + 1} ELSE {})
        BY <1>0, DonesAppend
      <4> QED BY <4>1
    <3>2. outgoing'[b] = outgoing[b] \/ outgoing'[b] = Append(outgoing[b], r)
      BY <1>0, <2>1
    <3> QED BY <3>1, <3>2
  <2>3. \A t \in Streams : agent[t] = "done" => agent'[t] = "done"
    BY <1>0, <2>1
  <2>4. Left' = Left
    BY <2>1 DEF Left
  <2> QED BY <1>b, <2>1, <2>2, <2>3, <2>4, DonesRest
<1>8. ASSUME NEW s \in Streams, AgentEnds(s) PROVE Goal
  <2>1. /\ agent[s] \in {"running", "stopping"} /\ agent' = [agent EXCEPT ![s] = "done"] /\ SignalDone(s)
        /\ UNCHANGED <<stream, bridgeOf, closed, gone, cancelled>>
    BY <1>8 DEF AgentEnds
  <2>2. stream[s] \in Active \cup {"closing"}
    BY <1>0, <2>1 DEF Staged, StagedAt, WorkersFollowStream, StreamStates
  <2>3. bridgeOf[s] \in Streams
    BY <1>b, <2>2
  <2>4. /\ \A t \in Streams \ {s} : stream'[t] = stream[t] /\ agent'[t] = agent[t]
        /\ agent[s] = "done" => agent'[s] = "done"
        /\ stream[s] \in Active \/ (stream[s] = "closing" /\ agent[s] # "done")
    BY <1>0, <2>1, <2>2
  <2> QED BY <2>1, <2>3, <2>4, DonesSignal
<1>9. ASSUME NEW s \in Streams, StopAfterCancel(s) PROVE Goal
  <2>1. /\ stream[s] = "cancelling" /\ stream' = [stream EXCEPT ![s] = "last_event"] /\ SignalDone(s)
        /\ UNCHANGED <<agent, bridgeOf, closed, gone, cancelled>>
    BY <1>9 DEF StopAfterCancel
  <2>2. /\ stream[s] \in Active /\ stream'[s] \in Active /\ bridgeOf[s] \in Streams
        /\ \A t \in Streams \ {s} : stream'[t] = stream[t] /\ agent'[t] = agent[t]
        /\ agent[s] = "done" => agent'[s] = "done"
    BY <1>0, <1>b, <2>1
  <2> QED BY <2>1, <2>2, DonesSignal
<1>10. ASSUME NEW s \in Streams, StopAfterDisconnect(s) PROVE Goal
  <2>1. /\ stream[s] = "leaving" /\ EnterFinally(s) /\ SignalDone(s)
        /\ UNCHANGED <<bridgeOf, closed, gone, cancelled>>
    BY <1>10 DEF StopAfterDisconnect
  <2>2. /\ stream' = [stream EXCEPT ![s] = "closing"]
        /\ \A t \in Streams \ {s} : agent'[t] = agent[t]
        /\ agent[s] = "done" => agent'[s] = "done"
    BY <2>1, FinallyAgent
  <2>3. /\ stream[s] \in Active /\ stream'[s] = "closing" /\ s \in Left /\ bridgeOf[s] \in Streams
        /\ \A t \in Streams \ {s} : stream'[t] = stream[t]
    BY <1>0, <1>b, <2>1, <2>2 DEF Staged, StagedAt, Left
  <2> QED BY <2>1, <2>2, <2>3, DonesSignal
<1>11. ASSUME NEW s \in Streams, BusClosed(s) \/ LastEventSent(s) \/ Abort(s) PROVE Goal
  <2>1. /\ stream[s] \in Active /\ EnterFinally(s)
        /\ UNCHANGED <<bridgeOf, gone, cancelled, outgoing, closed, signaled>>
    BY <1>11 DEF BusClosed, LastEventSent, Abort
  <2>2. /\ stream' = [stream EXCEPT ![s] = "closing"]
        /\ \A t \in Streams \ {s} : agent'[t] = agent[t]
        /\ agent[s] = "done" => agent'[s] = "done"
    BY <2>1, FinallyAgent
  <2>3. s \in Left \/ (s \in closed /\ (signaled[s] => agent[s] = "done"))
    BY <1>11 DEF BusClosed, LastEventSent, Abort, Staged, StagedAt, Left
  <2> QED BY <2>1, <2>2, <2>3, DonesClose
<1>12. ASSUME NEW s \in Streams, NoticeDisconnect(s) \/ NoticeCancel(s) PROVE Goal
  <2>1. /\ stream[s] = "polling"
        /\ \/ stream' = [stream EXCEPT ![s] = "leaving"]
           \/ stream' = [stream EXCEPT ![s] = "cancelling"]
        /\ UNCHANGED <<bridgeOf, gone, cancelled, outgoing, closed, signaled>>
    BY <1>12 DEF NoticeDisconnect, NoticeCancel
  <2>2. \A t \in Streams \ {s} : agent'[t] = agent[t]
    <3>1. CancelAgent(s, Disconnected(bridgeOf[s])) \/ CancelAgent(s, reply)
      BY <1>12 DEF NoticeDisconnect, NoticeCancel
    <3> QED BY <1>0, <3>1, CancelAgentMoves, DisconnectedType
  <2> QED BY <1>0, <1>r, <2>1, <2>2 DEF Left
<1>13. ASSUME NEW s \in Streams, Forward(s) PROVE Goal
  <2> DEFINE b == bridgeOf[s]
             q == outgoing[b]
  <2>1. /\ hitl[s] = "running" /\ q # <<>> /\ outgoing' = [outgoing EXCEPT ![b] = Tail(@)]
        /\ closed' = IF Head(q) = DONE THEN closed \cup {s} ELSE closed
        /\ UNCHANGED <<stream, bridgeOf, gone, cancelled, signaled, agent>>
    BY <1>13 DEF Forward
  <2>2. stream[s] \in Active
    BY <1>0, <2>1 DEF Staged, StagedAt, WorkersFollowStream, StreamStates
  <2>3. b \in Streams /\ q \in Seq(Requests \cup {DONE}) /\ \A t \in Streams \ {s} : stream[t] \notin Active
    BY <1>0, <1>b, <2>2 DEF StreamHoldsLock
  <2>4. outgoing'[b] = Tail(q) /\ \A c \in Streams \ {b} : outgoing'[c] = outgoing[c]
    BY <1>0, <2>1, <2>3
  <2>5. /\ \A i \in Dones(Tail(q)) : i \in Nat \ {0} /\ i + 1 \in Dones(q)
        /\ Head(q) = DONE => 1 \in Dones(q)
    BY <2>1, <2>3, DonesTail
  <2>l. Left' = Left
    BY <2>1 DEF Left
  <2>6. Own(s) => Own(s)'
    <3> SUFFICES ASSUME Own(s) PROVE Own(s)'
      OBVIOUS
    <3>1. /\ \A i, j \in Dones(q) : i = j
          /\ Dones(q) # {} => signaled[s] /\ s \notin closed
          /\ s \in closed => signaled[s]
      BY DEF Own
    <3>2. \A i, j \in Dones(Tail(q)) : i = j
      <4> TAKE i, j \in Dones(Tail(q))
      <4>1. i \in Nat /\ j \in Nat /\ i + 1 = j + 1
        BY <2>5, <3>1
      <4> QED BY <4>1
    <3>3. Head(q) = DONE => Dones(Tail(q)) = {}
      <4> SUFFICES ASSUME Head(q) = DONE, NEW i \in Dones(Tail(q)) PROVE FALSE
        OBVIOUS
      <4>1. i \in Nat \ {0} /\ i + 1 = 1
        BY <2>5, <3>1
      <4> QED BY <4>1
    <3>4. Dones(Tail(q)) # {} => Dones(q) # {}
      BY <2>5
    <3> QED BY <2>1, <2>4, <2>5, <3>1, <3>2, <3>3, <3>4 DEF Own
  <2> HIDE DEF b, q
  <2>7. OwnDone'
    <3>1. Spoilt(bridgeOf[s], s) => Spoilt(bridgeOf[s], s)'
      BY <2>1, <2>l DEF Spoilt
    <3>2. \A t \in Streams : stream'[t] \in Active => t = s
      BY <2>1, <2>3
    <3> QED BY <2>2, <2>6, <3>1, <3>2 DEF OwnDone
  <2>8. NoStaleDone'
    <3> SUFFICES ASSUME NEW c \in Streams, Dones(outgoing'[c]) # {}
                 PROVE  \E x \in Streams : bridgeOf[x] = c /\ (stream[x] \in Active \/ x \in Left)
      BY <2>1, <2>l DEF NoStaleDone
    <3>1. CASE c = b
      BY <2>2, <3>1 DEF b
    <3>2. CASE c # b
      BY <2>4, <3>2 DEF NoStaleDone
    <3> QED BY <3>1, <3>2
  <2>9. ClosersAreDone'
    BY <2>1, <2>l DEF ClosersAreDone
  <2> QED BY <2>7, <2>8, <2>9
<1>14. CASE UNCHANGED vars
  BY <1>r, <1>14 DEF vars, Left
<1> QED
  BY <1>1, <1>2, <1>3, <1>4, <1>5, <1>6, <1>7, <1>8, <1>9, <1>10, <1>11, <1>12, <1>13, <1>14
     DEF Next, Generator

\* Every stream's state goes with its place.
LEMMA StagedStep ==
    ASSUME TypeOK, AskingHasRequest, StreamHoldsLock, Staged, [Next]_vars PROVE Staged'
<1> SUFFICES ASSUME NEW t \in Streams PROVE StagedAt(t)'
  BY DEF Staged
<1>0. /\ stream \in [Streams -> StreamStates]
      /\ agent \in [Streams -> {"none", "running", "asking", "stopping", "done"}]
      /\ hitl \in [Streams -> {"none", "running", "done"}]
      /\ signaled \in [Streams -> BOOLEAN]
      /\ bridgeOf \in [Streams -> Streams \cup {NoStream}]
      /\ reply \in [Requests -> {"none", "open"} \cup Decided]
  BY DEF TypeOK, StreamStates
<1>t. StagedAt(t)
  BY DEF Staged
<1>f. ASSUME NEW s \in Streams, EnterFinally(s), UNCHANGED <<bridgeOf, gone, cancelled, closed>>,
             stream[s] \in Active,
             \A x \in Streams \ {s} : signaled'[x] = signaled[x]
      PROVE  StagedAt(t)'
  <2>1. /\ stream' = [stream EXCEPT ![s] = "closing"] /\ hitl' = [hitl EXCEPT ![s] = "done"]
        /\ \A x \in Streams \ {s} : agent'[x] = agent[x]
    BY <1>f, FinallyAgent
  <2> QED BY <1>0, <1>t, <1>f, <2>1 DEF StagedAt, Left
<1>1. ASSUME NEW s \in Streams, Post(s) PROVE StagedAt(t)'
  <2>1. /\ stream[s] = "new" /\ UNCHANGED <<outgoing, gone, cancelled, signaled, closed, agent, hitl>>
        /\ \/ stream' = [stream EXCEPT ![s] = "refused"] /\ UNCHANGED bridgeOf
           \/ /\ stream' = [stream EXCEPT ![s] = "setup"]
              /\ registered' \in Streams /\ bridgeOf' = [bridgeOf EXCEPT ![s] = registered']
    BY <1>1 DEF Post, TypeOK
  <2> QED BY <1>0, <1>t, <2>1 DEF StagedAt, Left
<1>2. ASSUME NEW s \in Streams, SetupFails(s) \/ Start(s) \/ Finish(s) \/ Leave(s) PROVE StagedAt(t)'
  BY <1>0, <1>t, <1>2 DEF SetupFails, Start, Finish, Leave, StagedAt, Left
<1>3. CASE CancelChat
  BY <1>0, <1>t, <1>3 DEF CancelChat, StagedAt, Left, StreamHoldsLock
<1>4. ASSUME NEW s \in Streams, BusClosed(s) \/ LastEventSent(s) \/ Abort(s) PROVE StagedAt(t)'
  BY <1>f, <1>4 DEF BusClosed, LastEventSent, Abort
<1>5. ASSUME NEW s \in Streams, StopAfterDisconnect(s) PROVE StagedAt(t)'
  BY <1>0, <1>f, <1>5 DEF StopAfterDisconnect, SignalDone
<1>6. ASSUME NEW s \in Streams, StopAfterCancel(s) \/ AgentEnds(s) PROVE StagedAt(t)'
  BY <1>0, <1>t, <1>6 DEF StopAfterCancel, AgentEnds, SignalDone, StagedAt, Left
<1>7. ASSUME NEW s \in Streams, NoticeDisconnect(s) \/ NoticeCancel(s) PROVE StagedAt(t)'
  <2>1. /\ stream[s] = "polling"
        /\ \/ stream' = [stream EXCEPT ![s] = "leaving"] /\ s \in gone
           \/ stream' = [stream EXCEPT ![s] = "cancelling"] /\ s \in cancelled
        /\ UNCHANGED <<bridgeOf, gone, cancelled, closed, signaled, hitl>>
    BY <1>7 DEF NoticeDisconnect, NoticeCancel
  <2>2. \A x \in Streams \ {s} : agent'[x] = agent[x]
    <3>1. CancelAgent(s, Disconnected(bridgeOf[s])) \/ CancelAgent(s, reply)
      BY <1>7 DEF NoticeDisconnect, NoticeCancel
    <3> QED BY <1>0, <3>1, CancelAgentMoves, DisconnectedType
  <2> QED BY <1>0, <1>t, <2>1, <2>2 DEF StagedAt, Left
<1>8. ASSUME NEW s \in Streams, Forward(s) \/ Resume(s) PROVE StagedAt(t)'
  BY <1>0, <1>t, <1>8 DEF Forward, Resume, StagedAt, Left
<1>9. ASSUME NEW s \in Streams, NEW r \in Requests, NEW k \in Kinds, Ask(s, r, k) PROVE StagedAt(t)'
  <2>1. /\ UNCHANGED <<stream, bridgeOf, signaled, closed, gone, cancelled, hitl>> /\ agent[s] = "running"
        /\ agent' = agent \/ agent' = [agent EXCEPT ![s] = "asking"]
    BY <1>9 DEF Ask
  <2> QED BY <1>0, <1>t, <2>1 DEF StagedAt, Left
<1>10. ASSUME NEW r \in Requests, TimeOut(r) \/ Respond(r, "approve") \/ Respond(r, "deny")
       PROVE StagedAt(t)'
  BY <1>t, <1>10 DEF TimeOut, Respond, StagedAt, Left
<1>11. CASE UNCHANGED vars
  BY <1>t, <1>11 DEF vars, StagedAt, Left
<1> QED
  BY <1>1, <1>2, <1>3, <1>4, <1>5, <1>6, <1>7, <1>8, <1>9, <1>10, <1>11 DEF Next, Generator

\* Nobody uses the bridge of a request that has not come.
LEMMA OwnBridgeStep ==
    ASSUME TypeOK, AskingHasRequest, OwnBridge, [Next]_vars PROVE OwnBridge'
<1> SUFFICES ASSUME NEW t \in Streams, stream'[t] = "new"
             PROVE  registered' # t /\ outgoing'[t] = <<>> /\ \A x \in Streams : bridgeOf'[x] # t
  BY DEF OwnBridge
<1>0. stream \in [Streams -> StreamStates] /\ outgoing \in [Streams -> Seq(Requests \cup {DONE})]
  BY DEF TypeOK, StreamStates
<1>1. stream[t] = "new"
  BY <1>0, LockMoves DEF LockMove
<1>2. registered # t /\ outgoing[t] = <<>> /\ \A x \in Streams : bridgeOf[x] # t
  BY <1>1 DEF OwnBridge
<1>3. ASSUME NEW s \in Streams, Post(s)
      PROVE  registered' # t /\ outgoing'[t] = <<>> /\ \A x \in Streams : bridgeOf'[x] # t
  <2>1. outgoing' = outgoing /\ s # t
    BY <1>0, <1>3 DEF Post
  <2>2. \/ UNCHANGED <<registered, bridgeOf>>
        \/ registered' \in {s, registered} /\ bridgeOf' = [bridgeOf EXCEPT ![s] = registered']
    BY <1>3 DEF Post
  <2> QED BY <1>2, <2>1, <2>2 DEF TypeOK
<1>4. CASE /\ bridgeOf' = bridgeOf /\ registered' \in {registered, NoStream}
           /\ \/ outgoing' = outgoing
              \/ \E s \in Streams, e \in Requests \cup {DONE} :
                    outgoing' = [outgoing EXCEPT ![bridgeOf[s]] = Append(@, e)]
              \/ \E s \in Streams : outgoing' = [outgoing EXCEPT ![bridgeOf[s]] = Tail(@)]
  <2>1. outgoing'[t] = outgoing[t]
    BY <1>0, <1>2, <1>4
  <2> QED BY <1>2, <1>4, <2>1
<1>5. ASSUME NEW s \in Streams, NEW r \in Requests, NEW k \in Kinds, Ask(s, r, k)
      PROVE  \/ outgoing' = outgoing
             \/ \E e \in Requests \cup {DONE} :
                    outgoing' = [outgoing EXCEPT ![bridgeOf[s]] = Append(@, e)]
  BY <1>5 DEF Ask
<1>6. ASSUME NEW s \in Streams, SignalDone(s)
      PROVE  \/ outgoing' = outgoing
             \/ \E e \in Requests \cup {DONE} :
                    outgoing' = [outgoing EXCEPT ![bridgeOf[s]] = Append(@, e)]
  BY <1>6 DEF SignalDone
<1>7. ASSUME NEW s \in Streams,
             SetupFails(s) \/ Start(s) \/ Finish(s) \/ Leave(s) \/ BusClosed(s) \/ LastEventSent(s)
             \/ Abort(s) \/ NoticeDisconnect(s) \/ NoticeCancel(s) \/ Resume(s)
      PROVE  outgoing' = outgoing /\ bridgeOf' = bridgeOf /\ registered' \in {registered, NoStream}
  BY <1>7 DEF SetupFails, Start, Finish, Leave, BusClosed, LastEventSent, Abort, NoticeDisconnect,
              NoticeCancel, Resume
<1>8. ASSUME NEW s \in Streams, AgentEnds(s) \/ StopAfterDisconnect(s) \/ StopAfterCancel(s)
      PROVE  SignalDone(s) /\ UNCHANGED <<bridgeOf, registered>>
  BY <1>8 DEF AgentEnds, StopAfterDisconnect, StopAfterCancel
<1>9. ASSUME NEW s \in Streams, Forward(s)
      PROVE  /\ outgoing' = [outgoing EXCEPT ![bridgeOf[s]] = Tail(@)]
             /\ UNCHANGED <<bridgeOf, registered>>
  BY <1>9 DEF Forward
<1>10. CASE \/ CancelChat \/ UNCHANGED vars
            \/ \E r \in Requests : TimeOut(r) \/ \E a \in {"approve", "deny"} : Respond(r, a)
  <2>1. UNCHANGED <<bridgeOf, registered, outgoing>>
    BY <1>10 DEF CancelChat, vars, TimeOut, Respond
  <2> QED BY <1>4, <2>1
<1>11. ASSUME NEW s \in Streams, NEW r \in Requests, NEW k \in Kinds, Ask(s, r, k)
       PROVE  UNCHANGED <<bridgeOf, registered>>
  BY <1>11 DEF Ask
<1> QED
  BY <1>3, <1>4, <1>5, <1>6, <1>7, <1>8, <1>9, <1>10, <1>11 DEF Next, Generator

\* The invariant with the DONEs.
BusInv == IInv /\ Staged /\ OwnBridge /\ OwnDone /\ NoStaleDone /\ ClosersAreDone

\* The invariant about the shared bridges is inductive.
LEMMA BusInductive == Spec => []BusInv
<1>1. Init => BusInv
  <2> SUFFICES ASSUME Init PROVE BusInv
    OBVIOUS
  <2>1. IInv
    BY InitInvariant
  <2>2. Staged /\ OwnBridge
    BY DEF Init, Staged, StagedAt, OwnBridge, Left
  <2>3. OwnDone /\ ClosersAreDone
    BY DEF Init, OwnDone, ClosersAreDone
  <2>4. NoStaleDone
    BY DEF Init, NoStaleDone, Dones
  <2> QED BY <2>1, <2>2, <2>3, <2>4 DEF BusInv
<1>2. BusInv /\ [Next]_vars => BusInv'
  <2> SUFFICES ASSUME BusInv, [Next]_vars PROVE BusInv'
    OBVIOUS
  <2>1. /\ IInv /\ TypeOK /\ AskingHasRequest /\ StreamHoldsLock /\ WorkersFollowStream
        /\ Staged /\ OwnBridge /\ OwnDone /\ NoStaleDone /\ ClosersAreDone
    BY DEF BusInv, IInv
  <2>2. IInv'
    BY <2>1, StepInvariant
  <2>3. Staged' /\ OwnBridge'
    BY <2>1, StagedStep, OwnBridgeStep
  <2>4. OwnDone' /\ NoStaleDone' /\ ClosersAreDone'
    BY <2>1, DonesStep
  <2> QED BY <2>2, <2>3, <2>4 DEF BusInv
<1> QED BY <1>1, <1>2, PTL DEF Spec

\* The bus of a stream that still polls was closed behind the end of its own agent,
\* unless another stream on the same bridge was left or cancelled.
THEOREM BusClosesBehindItsAgent == Spec => []BusClosedByItsAgent
<1>1. BusInv => BusClosedByItsAgent
  <2> SUFFICES ASSUME BusInv, NEW s \in Streams, stream[s] = "polling", s \in closed,
                      agent[s] # "done"
               PROVE  \E x \in Streams \ {s} : bridgeOf[x] = bridgeOf[s] /\ x \in gone \cup cancelled
    BY DEF BusClosedByItsAgent
  <2>1. ~signaled[s]
    BY DEF BusInv, Staged, StagedAt
  <2>2. Spoilt(bridgeOf[s], s)
    BY <2>1 DEF BusInv, OwnDone, Own
  <2> QED BY <2>2 DEF BusInv, IInv, TypeOK, Spoilt, Left
<1> QED BY <1>1, BusInductive, PTL
=============================================================================
