---------------------------- MODULE ChatStream ------------------------------
(***************************************************************************)
(* POST /chat on one thread of the monolithic server: the single-flight     *)
(* lock, the SSE generator with its agent and HITL workers, the WebHITLBridge *)
(* that the BridgeRegistry keeps for the thread, POST /chat/respond, POST    *)
(* /chat/cancel, and the browser that may leave at any moment.               *)
(*                                                                           *)
(* What happens between two awaits is one step.  The text of the agent is    *)
(* not modelled: on the EventBus only the close matters, and the 200 ms poll *)
(* times out whenever the agent is silent.  A bridge is named by the stream  *)
(* that created it.                                                          *)
(***************************************************************************)
EXTENDS Naturals, SequencesExt

CONSTANTS
    Streams,    \* POST /chat requests of the thread
    Requests,   \* HITL requests the agents may raise
    Env,        \* what the environment does in this instance
    NoStream, DONE

\* The hitl_mode of an approval, or "question" for ask_human.
Kinds == {"blocking", "continue_on_timeout", "fire_and_continue", "question"}

ASSUME ChatAssumption ==
    /\ NoStream \notin Streams
    /\ DONE \notin Requests
    /\ Env \subseteq {"setup_error", "cancel", "disconnect"}

VARIABLES
    viaRuntime, \* ctx.runtime is set: tools are executed by its tool_executor
    stream,     \* where chat() and its sse_generator are, for each request
    lock,       \* ctx.thread_locks: the stream that holds the thread's lock
    cancelKey,  \* ctx.cancel_registry: the stream whose event it holds
    cancelled,  \* streams whose cancel_event is set
    registered, \* BridgeRegistry._bridges: the bridge of the thread
    bridgeOf,   \* the bridge that a stream has acquired
    outgoing,   \* _outgoing of each bridge
    pending,    \* _pending of each bridge
    agent,      \* agent_worker of each stream
    hitl,       \* hitl_worker of each stream
    signaled,   \* bridge_signaled of each stream
    closed,     \* streams whose EventBus is closed
    asker,      \* the stream whose agent raised a request
    kind,       \* what kind of request it is
    reply,      \* the future of a request
    verdict,    \* what became of the tool call behind a request
    gone        \* streams whose client has disconnected

httpVars   == <<viaRuntime, stream, lock, cancelKey, cancelled, gone>>
bridgeVars == <<registered, bridgeOf, outgoing, pending>>
taskVars   == <<hitl, signaled, closed>>
agentVars  == <<agent, asker, kind, reply, verdict>>
vars == <<httpVars, bridgeVars, taskVars, agentVars>>

\* From the lock to the finally block; the generator is running in Polling.
Waiting == {"leaving", "cancelling"}     \* up to 3 s for the agent to stop
Running == {"polling", "last_event"} \cup Waiting
Active  == {"setup"} \cup Running
Decided == {"approve", "deny", "disconnected", "timed_out", "cancelled"}

TypeOK ==
    /\ viaRuntime \in BOOLEAN
    /\ stream \in [Streams -> {"new", "refused", "failed", "closing", "closed"} \cup Active]
    /\ {lock, cancelKey, registered} \subseteq Streams \cup {NoStream}
    /\ cancelled \subseteq Streams /\ closed \subseteq Streams /\ gone \subseteq Streams
    /\ bridgeOf \in [Streams -> Streams \cup {NoStream}]
    /\ outgoing \in [Streams -> Seq(Requests \cup {DONE})]
    /\ pending \in [Streams -> SUBSET Requests]
    /\ agent \in [Streams -> {"none", "running", "asking", "stopping", "done"}]
    /\ hitl \in [Streams -> {"none", "running", "done"}]
    /\ signaled \in [Streams -> BOOLEAN]
    /\ asker \in [Requests -> Streams \cup {NoStream}]
    /\ kind \in [Requests -> Kinds \cup {"none"}]
    /\ reply \in [Requests -> {"none", "open"} \cup Decided]
    /\ verdict \in [Requests -> {"none", "ran", "refused", "dropped"}]

Init ==
    /\ viaRuntime \in BOOLEAN
    /\ stream = [s \in Streams |-> "new"]
    /\ lock = NoStream /\ cancelKey = NoStream /\ registered = NoStream
    /\ cancelled = {} /\ closed = {} /\ gone = {}
    /\ bridgeOf = [s \in Streams |-> NoStream]
    /\ outgoing = [s \in Streams |-> <<>>]
    /\ pending = [s \in Streams |-> {}]
    /\ agent = [s \in Streams |-> "none"]
    /\ hitl = [s \in Streams |-> "none"]
    /\ signaled = [s \in Streams |-> FALSE]
    /\ asker = [r \in Requests |-> NoStream]
    /\ kind = [r \in Requests |-> "none"]
    /\ reply = [r \in Requests |-> "none"]
    /\ verdict = [r \in Requests |-> "none"]

(***************************************************************************)
(* chat(): single flight, the thread's bridge, and the set-up of the agent. *)
(***************************************************************************)
\* Neither taking a free lock nor acquiring the bridge suspends.
Post(s) ==
    /\ stream[s] = "new"
    /\ IF lock # NoStream
         THEN /\ stream' = [stream EXCEPT ![s] = "refused"]
              /\ UNCHANGED <<viaRuntime, lock, registered, bridgeOf>>
         ELSE LET b == IF registered = NoStream THEN s ELSE registered IN
              /\ stream' = [stream EXCEPT ![s] = "setup"]
              /\ lock' = s
              /\ registered' = b
              /\ bridgeOf' = [bridgeOf EXCEPT ![s] = b]
    /\ UNCHANGED <<viaRuntime, cancelKey, cancelled, gone, outgoing, pending, taskVars, agentVars>>

SetupFails(s) ==
    /\ "setup_error" \in Env
    /\ stream[s] = "setup"
    /\ stream' = [stream EXCEPT ![s] = "failed"]
    /\ lock' = NoStream
    /\ UNCHANGED <<viaRuntime, cancelKey, cancelled, gone, bridgeVars, taskVars, agentVars>>

Start(s) ==
    /\ stream[s] = "setup"
    /\ stream' = [stream EXCEPT ![s] = "polling"]
    /\ cancelKey' = s
    /\ agent' = [agent EXCEPT ![s] = "running"]
    /\ hitl' = [hitl EXCEPT ![s] = "running"]
    /\ UNCHANGED <<viaRuntime, lock, cancelled, gone, bridgeVars, signaled, closed, asker, kind, reply, verdict>>

(***************************************************************************)
(* The agent.  Called by the runtime, a tool asks nobody: the tool_executor *)
(* has no approval handler and its ask_human no human handler.              *)
(***************************************************************************)
Asked(s) == CHOOSE r \in Requests : asker[r] = s /\ verdict[r] = "none"

\* _execute_tool and, on the direct path, _handle_approval and _handle_human_input.
Ask(s, r, k) ==
    LET b == bridgeOf[s] IN
    /\ agent[s] = "running" /\ asker[r] = NoStream
    /\ asker' = [asker EXCEPT ![r] = s]
    /\ kind' = [kind EXCEPT ![r] = k]
    /\ \/ /\ viaRuntime
          /\ verdict' = [verdict EXCEPT ![r] = IF k = "question" THEN "refused" ELSE "ran"]
          /\ UNCHANGED <<agent, reply, outgoing, pending>>
       \/ /\ ~viaRuntime /\ k = "fire_and_continue"
          /\ outgoing' = [outgoing EXCEPT ![b] = Append(@, r)]
          /\ verdict' = [verdict EXCEPT ![r] = "ran"]
          /\ UNCHANGED <<agent, reply, pending>>
       \/ /\ ~viaRuntime /\ k # "fire_and_continue"
          /\ outgoing' = [outgoing EXCEPT ![b] = Append(@, r)]
          /\ pending' = [pending EXCEPT ![b] = @ \cup {r}]
          /\ reply' = [reply EXCEPT ![r] = "open"]
          /\ agent' = [agent EXCEPT ![s] = "asking"]
          /\ UNCHANGED verdict
    /\ UNCHANGED <<httpVars, registered, bridgeOf, taskVars>>

\* regression: the outcome of a timeout is not one the handlers know.
TimeOut_OtherName(r) ==
    /\ reply[r] = "open"
    /\ IF kind[r] = "question"
         THEN reply' = [reply EXCEPT ![r] = "cancelled"] /\ UNCHANGED pending
         ELSE /\ reply' = [reply EXCEPT ![r] = "timeout"]
              /\ pending' = [b \in Streams |-> pending[b] \ {r}]
    /\ UNCHANGED <<httpVars, registered, bridgeOf, outgoing, taskVars, agent, asker, kind, verdict>>

\* The wait of an approval ends by the bridge's own timeout, that of a question
\* by the tool_timeout of the same length around it, which started first: it
\* cancels _request_and_wait, and the entry stays in _pending.
TimeOut(r) ==
    /\ reply[r] = "open"
    /\ IF kind[r] = "question"
         THEN reply' = [reply EXCEPT ![r] = "cancelled"] /\ UNCHANGED pending
         ELSE /\ reply' = [reply EXCEPT ![r] = "timed_out"]
              /\ pending' = [b \in Streams |-> pending[b] \ {r}]
    /\ UNCHANGED <<httpVars, registered, bridgeOf, outgoing, taskVars, agent, asker, kind, verdict>>

\* regression: a timeout approves in every mode.
Allows_AnyTimeout(r) == reply[r] \in {"approve", "timed_out"}

Allows(r) == reply[r] = "approve" \/ (reply[r] = "timed_out" /\ kind[r] = "continue_on_timeout")

Resume(s) ==
    LET r == Asked(s) IN
    /\ agent[s] = "asking" /\ reply[r] # "open"
    /\ verdict' = [verdict EXCEPT ![r] = IF Allows(r) THEN "ran" ELSE "refused"]
    /\ agent' = [agent EXCEPT ![s] = "running"]
    /\ UNCHANGED <<httpVars, bridgeVars, taskVars, asker, kind, reply>>

\* bridge_signaled and signal_done().
SignalDone(s) ==
    /\ signaled' = [signaled EXCEPT ![s] = TRUE]
    /\ outgoing' = IF signaled[s] THEN outgoing
                   ELSE [outgoing EXCEPT ![bridgeOf[s]] = Append(@, DONE)]

\* regression: DONE is signaled where the cancellation is handled, not in finally.
AgentEnds_SilentReturn(s) ==
    /\ agent[s] \in {"running", "stopping"}
    /\ agent' = [agent EXCEPT ![s] = "done"]
    /\ IF agent[s] = "stopping" THEN SignalDone(s) ELSE UNCHANGED <<signaled, outgoing>>
    /\ UNCHANGED <<httpVars, registered, bridgeOf, pending, hitl, closed, asker, kind, reply, verdict>>

\* agent_worker ends, by itself or by its cancellation.
AgentEnds(s) ==
    /\ agent[s] \in {"running", "stopping"}
    /\ agent' = [agent EXCEPT ![s] = "done"]
    /\ SignalDone(s)
    /\ UNCHANGED <<httpVars, registered, bridgeOf, pending, hitl, closed, asker, kind, reply, verdict>>

\* hitl_worker.
Forward(s) ==
    LET b == bridgeOf[s] IN
    /\ hitl[s] = "running" /\ outgoing[b] # <<>>
    /\ outgoing' = [outgoing EXCEPT ![b] = Tail(@)]
    /\ IF Head(outgoing[b]) = DONE
         THEN /\ hitl' = [hitl EXCEPT ![s] = "done"]
              /\ closed' = closed \cup {s}
         ELSE UNCHANGED <<hitl, closed>>
    /\ UNCHANGED <<httpVars, registered, bridgeOf, pending, signaled, agentVars>>

(***************************************************************************)
(* The SSE generator.                                                       *)
(***************************************************************************)
\* agent_task.cancel(), with the futures being rep: the wait of an open request
\* is cancelled and leaves the entry in _pending; when the request has just been
\* resolved, wait_for of Python 3.11 returns its result and the cancellation is
\* lost, later versions drop the result.
CancelAgent(s, rep) ==
    /\ UNCHANGED <<asker, kind>>
    /\ \/ /\ agent[s] = "running"
          /\ agent' = [agent EXCEPT ![s] = "stopping"]
          /\ reply' = rep /\ UNCHANGED verdict
       \/ /\ agent[s] = "asking"
          /\ agent' = [agent EXCEPT ![s] = "stopping"]
          /\ reply' = IF rep[Asked(s)] = "open" THEN [rep EXCEPT ![Asked(s)] = "cancelled"] ELSE rep
          /\ verdict' = [verdict EXCEPT ![Asked(s)] = "dropped"]
       \/ /\ agent[s] = "asking" /\ rep[Asked(s)] # "open"
          /\ reply' = rep /\ UNCHANGED <<agent, verdict>>
       \/ /\ agent[s] \in {"stopping", "done"}
          /\ reply' = rep /\ UNCHANGED <<agent, verdict>>

\* The finally block up to its gather(): the lock is free before the workers end.
EnterFinally(s) ==
    /\ stream' = [stream EXCEPT ![s] = "closing"]
    /\ cancelKey' = NoStream
    /\ lock' = NoStream
    /\ CancelAgent(s, reply)
    /\ hitl' = [hitl EXCEPT ![s] = "done"]

BusClosed(s) ==
    /\ stream[s] = "polling" /\ s \in closed
    /\ EnterFinally(s)
    /\ UNCHANGED <<viaRuntime, cancelled, gone, bridgeVars, signaled, closed>>

\* cancel_all_pending(): every open future of the bridge.
Disconnected(b) ==
    [r \in Requests |-> IF r \in pending[b] /\ reply[r] = "open" THEN "disconnected" ELSE reply[r]]

NoticeDisconnect(s) ==
    /\ stream[s] = "polling" /\ s \in gone \ closed
    /\ stream' = [stream EXCEPT ![s] = "leaving"]
    /\ pending' = [pending EXCEPT ![bridgeOf[s]] = {}]
    /\ CancelAgent(s, Disconnected(bridgeOf[s]))
    /\ UNCHANGED <<viaRuntime, lock, cancelKey, cancelled, gone, registered, bridgeOf, outgoing, taskVars>>

NoticeCancel(s) ==
    /\ stream[s] = "polling" /\ s \in cancelled \ (gone \cup closed)
    /\ stream' = [stream EXCEPT ![s] = "cancelling"]
    /\ CancelAgent(s, reply)
    /\ UNCHANGED <<viaRuntime, lock, cancelKey, cancelled, gone, bridgeVars, taskVars>>

\* The agent has ended, or 3 s have passed.
StopAfterDisconnect(s) ==
    /\ stream[s] = "leaving"
    /\ SignalDone(s)
    /\ EnterFinally(s)
    /\ UNCHANGED <<viaRuntime, cancelled, gone, registered, bridgeOf, pending, closed>>

StopAfterCancel(s) ==
    /\ stream[s] = "cancelling"
    /\ SignalDone(s)
    /\ stream' = [stream EXCEPT ![s] = "last_event"]
    /\ UNCHANGED <<viaRuntime, lock, cancelKey, cancelled, gone, registered, bridgeOf, pending, hitl, closed, agentVars>>

LastEventSent(s) ==
    /\ stream[s] = "last_event"
    /\ EnterFinally(s)
    /\ UNCHANGED <<viaRuntime, cancelled, gone, bridgeVars, signaled, closed>>

\* StreamingResponse cancels the generator when the client has disconnected; in
\* the wait for the agent the CancelledError counts as the end of that wait.
Abort(s) ==
    /\ s \in gone /\ stream[s] \in {"polling", "last_event"}
    /\ EnterFinally(s)
    /\ UNCHANGED <<viaRuntime, cancelled, gone, bridgeVars, signaled, closed>>

\* regression: cancel_registry is popped after gather().
Finish_PopsCancelKey(s) ==
    /\ stream[s] = "closing" /\ agent[s] = "done"
    /\ stream' = [stream EXCEPT ![s] = "closed"]
    /\ cancelKey' = NoStream
    /\ \/ registered' = IF registered # NoStream /\ pending[registered] = {}
                          THEN NoStream ELSE registered
       \/ s \in gone /\ UNCHANGED registered
    /\ UNCHANGED <<viaRuntime, lock, cancelled, gone, bridgeOf, outgoing, pending, taskVars, agentVars>>

\* regression: the workers are cancelled and not awaited.
Finish_NotGathered(s) ==
    /\ stream[s] = "closing"
    /\ stream' = [stream EXCEPT ![s] = "closed"]
    /\ \/ registered' = IF registered # NoStream /\ pending[registered] = {}
                          THEN NoStream ELSE registered
       \/ s \in gone /\ UNCHANGED registered
    /\ UNCHANGED <<viaRuntime, lock, cancelKey, cancelled, gone, bridgeOf, outgoing, pending, taskVars, agentVars>>

\* regression: the end of the stream signals DONE whether or not it was signaled.
Finish_SignalsAgain(s) ==
    /\ stream[s] = "closing" /\ agent[s] = "done"
    /\ stream' = [stream EXCEPT ![s] = "closed"]
    /\ outgoing' = [outgoing EXCEPT ![bridgeOf[s]] = Append(@, DONE)]
    /\ \/ registered' = IF registered # NoStream /\ pending[registered] = {}
                          THEN NoStream ELSE registered
       \/ s \in gone /\ UNCHANGED registered
    /\ UNCHANGED <<viaRuntime, lock, cancelKey, cancelled, gone, bridgeOf, pending, taskVars, agentVars>>

\* gather() returns and release_if_idle looks at the bridge that the registry has
\* now; in a generator that was cancelled gather() raises and nothing is released.
Finish(s) ==
    /\ stream[s] = "closing" /\ agent[s] = "done"
    /\ stream' = [stream EXCEPT ![s] = "closed"]
    /\ \/ registered' = IF registered # NoStream /\ pending[registered] = {}
                          THEN NoStream ELSE registered
       \/ s \in gone /\ UNCHANGED registered
    /\ UNCHANGED <<viaRuntime, lock, cancelKey, cancelled, gone, bridgeOf, outgoing, pending, taskVars, agentVars>>

(***************************************************************************)
(* The other requests about the thread, and the browser.                    *)
(***************************************************************************)
\* regression: resolve() does not look whether the future is done.
Respond_Overwrites(r, action) ==
    /\ registered # NoStream /\ r \in pending[registered]
    /\ pending' = [pending EXCEPT ![registered] = @ \ {r}]
    /\ reply' = [reply EXCEPT ![r] = action]
    /\ UNCHANGED <<httpVars, registered, bridgeOf, outgoing, taskVars, agent, asker, kind, verdict>>

\* POST /chat/respond/{request_id} that finds the request: resolve().
Respond(r, action) ==
    /\ registered # NoStream /\ r \in pending[registered]
    /\ pending' = [pending EXCEPT ![registered] = @ \ {r}]
    /\ reply' = IF reply[r] = "open" THEN [reply EXCEPT ![r] = action] ELSE reply
    /\ UNCHANGED <<httpVars, registered, bridgeOf, outgoing, taskVars, agent, asker, kind, verdict>>

\* POST /chat/{thread_id}/cancel.
CancelChat ==
    /\ "cancel" \in Env
    /\ cancelKey # NoStream /\ cancelKey \notin cancelled
    /\ cancelled' = cancelled \cup {cancelKey}
    /\ UNCHANGED <<viaRuntime, stream, lock, cancelKey, gone, bridgeVars, taskVars, agentVars>>

Leave(s) ==
    /\ "disconnect" \in Env
    /\ stream[s] \in Active \cup {"closing"} /\ s \notin gone
    /\ gone' = gone \cup {s}
    /\ UNCHANGED <<viaRuntime, stream, lock, cancelKey, cancelled, bridgeVars, taskVars, agentVars>>

Generator(s) ==
    \/ Start(s) \/ BusClosed(s) \/ NoticeDisconnect(s) \/ NoticeCancel(s)
    \/ StopAfterDisconnect(s) \/ StopAfterCancel(s) \/ LastEventSent(s) \/ Finish(s)

Next ==
    \/ \E s \in Streams :
         \/ Post(s) \/ SetupFails(s) \/ Generator(s) \/ Abort(s) \/ Leave(s)
         \/ AgentEnds(s) \/ Forward(s) \/ Resume(s)
         \/ \E r \in Requests, k \in Kinds : Ask(s, r, k)
    \/ \E r \in Requests : TimeOut(r) \/ \E a \in {"approve", "deny"} : Respond(r, a)
    \/ CancelChat

Spec == Init /\ [][Next]_vars

\* The event loop runs what is ready, timers fire, and an agent ends after at
\* most max_iterations steps.
FairSpec ==
    /\ Spec
    /\ \A s \in Streams :
         WF_vars(Generator(s)) /\ WF_vars(AgentEnds(s)) /\ WF_vars(Forward(s)) /\ WF_vars(Resume(s))
    /\ \A r \in Requests : WF_vars(TimeOut(r))
-----------------------------------------------------------------------------
\* The lock, the cancel registry and the generator agree: one stream of the
\* thread is active, POST /cancel reaches the one that is running and no other,
\* whatever older streams of the thread are still closing.
StreamHoldsLock ==
    /\ \A s \in Streams : stream[s] \in Active <=> lock = s
    /\ \A s \in Streams : stream[s] \in Running <=> cancelKey = s

\* No coroutine of a stream outlives it: when the generator has returned, its
\* agent and its HITL worker have ended, however the stream came to its end.
NoOrphanedWorker ==
    \A s \in Streams : stream[s] = "closed" => agent[s] = "done" /\ hitl[s] = "done"

\* On the direct path a tool that waits for approval runs only if the user has
\* approved it or its mode lets a timeout approve: a late answer, a disconnect,
\* a cancel or a timeout in any other order means no.
RunsOnlyWhenAllowed ==
    \A r \in Requests : verdict[r] = "ran" /\ ~viaRuntime =>
        \/ kind[r] = "fire_and_continue"
        \/ reply[r] = "approve"
        \/ kind[r] = "continue_on_timeout" /\ reply[r] = "timed_out"

\* The first outcome of a request stands: an answer, a timeout, a disconnect and
\* a cancellation that race settle its future once.
FirstOutcomeStands ==
    [][\A r \in Requests : reply[r] \in Decided => reply'[r] = reply[r]]_vars

\* Every accepted request ends and frees the thread, although its agent may wait
\* for a user who never answers, be cancelled or lose its client.
EveryStreamEnds ==
    \A s \in Streams : stream[s] \in Active ~> stream[s] \in {"closed", "failed"}

\* A bus is closed by the end of its own agent, and by nothing else, unless an
\* earlier stream on the same bridge was left or cancelled (chat.py: "Bus closed =
\* both workers finished normally"): a stream that ends by itself leaves no DONE in
\* a bridge that its successor may already share.
BusClosedByItsAgent ==
    \A s \in Streams : stream[s] = "polling" /\ s \in closed =>
        \/ agent[s] = "done"
        \/ \E x \in Streams \ {s} : bridgeOf[x] = bridgeOf[s] /\ x \in gone \cup cancelled
=============================================================================
