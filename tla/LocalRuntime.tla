---------------------------- MODULE LocalRuntime ----------------------------
(***************************************************************************)
(* raavan.core.runtime.LocalRuntime with the parts it composes: BaseRuntime *)
(* (registration), Dispatcher (routing), Mailbox (bounded queue with a      *)
(* close signal) and the supervised message loop of every agent.            *)
(*                                                                          *)
(* All coroutines run on one asyncio event loop, so an action is the code   *)
(* between two awaits that can really suspend.  send_message suspends in    *)
(* Mailbox.put when the mailbox is full, and then on its future;            *)
(* publish_message never suspends; a message loop suspends in Mailbox.get,  *)
(* once more between the inner get task taking an item and the loop being   *)
(* resumed with it, and in the handler; stop suspends while it gathers the  *)
(* cancelled loops.                                                         *)
(***************************************************************************)
EXTENDS Integers, Sequences, FiniteSets

CONSTANTS
    Types,      \* agent types (AgentId.type)
    AgentIds,   \* the AgentIds that callers address
    TypeOf,     \* the type of each AgentId
    Default,    \* type |-> AgentId(type, key = topic.source), used by publish
    Reqs,       \* the send_message calls, one correlation_id each
    Pubs,       \* the publish_message calls
    MaxBoxes,   \* bound: Mailbox objects ever created
    MaxSubs,    \* bound: subscribe calls
    MaxStops,   \* bound: completed calls of stop
    Capacity,   \* mailbox_capacity
    Timeouts,   \* send_timeout is not None
    Env,        \* what the environment does in this instance
    CLOSED,     \* the _MAILBOX_CLOSED sentinel
    NoMsg       \* a loop that holds no envelope

EnvActions == {"token", "caller_cancel", "nested", "handler_error",
               "stop", "stop_when_idle"}

ASSUME RuntimeAssumption ==
    /\ TypeOf \in [AgentIds -> Types]
    /\ Default \in [Types -> AgentIds]
    /\ \A t \in Types : TypeOf[Default[t]] = t
    /\ IsFiniteSet(AgentIds)
    /\ MaxBoxes \in Nat /\ MaxSubs \in Nat /\ MaxStops \in Nat
    /\ Capacity \in Nat \ {0}
    /\ Timeouts \in BOOLEAN
    /\ Env \subseteq EnvActions
    /\ Reqs \cap Pubs = {}
    /\ CLOSED \notin Reqs \cup Pubs
    /\ NoMsg \notin Reqs \cup Pubs \cup {CLOSED}

Msgs  == Reqs \cup Pubs
Boxes == 1..MaxBoxes
Outside == 0            \* a caller that is not a handler; also "no mailbox"

VARIABLES
    registered,  \* BaseRuntime._factories and ._handlers
    bindings,    \* BaseRuntime._topic_bindings, mirrored by the Dispatcher
    started,     \* LocalRuntime._agents_started
    boxOf,       \* Dispatcher._mailboxes
    made,        \* Mailbox objects created so far
    queue,       \* Mailbox._queue
    closed,      \* Mailbox._closed and ._close_event
    loop,        \* where the message loop of each mailbox is
    cur,         \* the envelope that loop took from its mailbox
    raised,      \* loops in whose handler a nested call raised CancelledError
    cancelled,   \* loops that stop_all has called cancel() on
    active,      \* LocalRuntime._active_handlers
    call,        \* where each send_message call is
    target,      \* the mailbox the call was dispatched to
    by,          \* the loop whose handler made the call
    fut,         \* the response future
    pend,        \* keys of LocalRuntime._pending_responses
    out,         \* how the call returned
    ran,         \* how the handler ended on each request
    published,   \* publish_message calls made
    phase,       \* progress of LocalRuntime.stop
    stops        \* completed stops

table == <<registered, bindings>>
boxes == <<started, boxOf, made>>
loops == <<loop, cur, raised, cancelled, active, ran>>
calls == <<call, target, by, fut, pend, out>>
vars  == <<table, boxes, queue, closed, loops, calls, published, phase, stops>>

LoopStates == {"none", "get", "got", "handle", "ended"}
CallStates == {"idle", "putting", "waiting", "returned"}
FutStates  == {"none", "pending", "value", "silent", "error", "cancelled"}
Outcomes   == {"none", "value", "silent", "error", "timeout", "cancelled",
               "not_found", "closed"}
RunStates  == {"no", "running", "ok", "error", "aborted"}

TypeOK ==
    /\ registered \subseteq Types
    /\ bindings \in Seq(Types)
    /\ started \subseteq AgentIds
    /\ boxOf \in [AgentIds -> 0..MaxBoxes]
    /\ made \in 0..MaxBoxes
    /\ queue \in [Boxes -> Seq(Msgs \cup {CLOSED})]
    /\ closed \in [Boxes -> BOOLEAN]
    /\ loop \in [Boxes -> LoopStates]
    /\ cur \in [Boxes -> Msgs \cup {CLOSED, NoMsg}]
    /\ raised \subseteq Boxes
    /\ cancelled \subseteq Boxes
    /\ active \in Int
    /\ call \in [Reqs -> CallStates]
    /\ target \in [Reqs -> 0..MaxBoxes]
    /\ by \in [Reqs -> 0..MaxBoxes]
    /\ fut \in [Reqs -> FutStates]
    /\ pend \subseteq Reqs
    /\ out \in [Reqs -> Outcomes]
    /\ ran \in [Reqs -> RunStates]
    /\ published \subseteq Pubs
    /\ phase \in {"running", "cancelling", "stopped"}
    /\ stops \in Nat

Init ==
    /\ registered = {} /\ bindings = <<>>
    /\ started = {} /\ boxOf = [a \in AgentIds |-> 0] /\ made = 0
    /\ queue = [b \in Boxes |-> <<>>] /\ closed = [b \in Boxes |-> FALSE]
    /\ loop = [b \in Boxes |-> "none"] /\ cur = [b \in Boxes |-> NoMsg]
    /\ raised = {} /\ cancelled = {} /\ active = 0
    /\ call = [r \in Reqs |-> "idle"] /\ target = [r \in Reqs |-> 0]
    /\ by = [r \in Reqs |-> Outside] /\ fut = [r \in Reqs |-> "none"]
    /\ pend = {} /\ out = [r \in Reqs |-> "none"]
    /\ ran = [r \in Reqs |-> "no"]
    /\ published = {} /\ phase = "running" /\ stops = 0

-----------------------------------------------------------------------------
(* Registration                                                            *)

Register(t) ==
    /\ t \notin registered
    /\ registered' = registered \cup {t}
    /\ UNCHANGED <<bindings, boxes, queue, closed, loops, calls, published,
                   phase, stops>>

\* A repeated subscribe appends a second binding: deliveries are per binding.
Subscribe(t) ==
    /\ t \in registered
    /\ Len(bindings) < MaxSubs
    /\ bindings' = Append(bindings, t)
    /\ UNCHANGED <<registered, boxes, queue, closed, loops, calls, published,
                   phase, stops>>

-----------------------------------------------------------------------------
(* Mailboxes and lazy agents                                               *)

IsFull(b) == Len(queue[b]) >= Capacity

\* _ensure_agent for the AgentIds of As that are not started: a Mailbox and a
\* supervised loop each.
EnsureAgents(As) ==
    LET new == As \ started
        n   == Cardinality(new)
    IN  /\ made + n <= MaxBoxes
        /\ made' = made + n
        /\ started' = started \cup As
        /\ \E f \in [new -> (made + 1)..(made + n)] :
              /\ \A a1, a2 \in new : f[a1] = f[a2] => a1 = a2
              /\ boxOf' = [a \in AgentIds |->
                              IF a \in new THEN f[a] ELSE boxOf[a]]
        /\ loop' = [b \in Boxes |->
                       IF b \in (made + 1)..(made + n) THEN "get" ELSE loop[b]]

-----------------------------------------------------------------------------
(* send_message                                                            *)

\* A call is made from outside the runtime or by a handler that is not itself
\* waiting for a nested call.
Awaiting(b) == \E r \in Reqs : by[r] = b /\ call[r] \in {"putting", "waiting"}

Callers == {Outside} \cup
           {b \in Boxes : "nested" \in Env /\ loop[b] = "handle" /\ ~Awaiting(b)}

Send(r, a, c) ==
    /\ call[r] = "idle" /\ c \in Callers
    /\ TypeOf[a] \in registered
    /\ EnsureAgents({a})
    /\ LET b == boxOf'[a] IN
       /\ target' = [target EXCEPT ![r] = b]
       /\ IF closed[b]
          THEN \* Mailbox.put raises: the pending entry is removed again
               /\ call' = [call EXCEPT ![r] = "returned"]
               /\ out'  = [out EXCEPT ![r] = "closed"]
               /\ fut'  = [fut EXCEPT ![r] = "cancelled"]
               /\ UNCHANGED <<queue, pend>>
          ELSE /\ fut'  = [fut EXCEPT ![r] = "pending"]
               /\ pend' = pend \cup {r}
               /\ IF IsFull(b)
                  THEN call' = [call EXCEPT ![r] = "putting"] /\ UNCHANGED queue
                  ELSE /\ call'  = [call EXCEPT ![r] = "waiting"]
                       /\ queue' = [queue EXCEPT ![b] = Append(@, r)]
               /\ UNCHANGED out
    /\ by' = [by EXCEPT ![r] = c]
    /\ UNCHANGED <<table, closed, cur, raised, cancelled, active, ran,
                   published, phase, stops>>

SendNotFound(r, a) ==
    /\ call[r] = "idle"
    /\ TypeOf[a] \notin registered
    /\ a \notin started
    /\ call' = [call EXCEPT ![r] = "returned"]
    /\ out'  = [out EXCEPT ![r] = "not_found"]
    /\ UNCHANGED <<table, boxes, queue, closed, loops, target, by, fut, pend,
                   published, phase, stops>>

\* The token fired before the call: CancelledError before anything is created.
SendPreCancelled(r, c) ==
    /\ "token" \in Env
    /\ call[r] = "idle" /\ c \in Callers
    /\ call' = [call EXCEPT ![r] = "returned"]
    /\ out'  = [out EXCEPT ![r] = "cancelled"]
    /\ by'   = [by EXCEPT ![r] = c]
    /\ raised' = raised \cup ({c} \ {Outside})
    /\ UNCHANGED <<table, boxes, queue, closed, loop, cur, cancelled, active,
                   ran, target, fut, pend, published, phase, stops>>

\* A sender blocked in asyncio.Queue.put finds a free slot.  _closed is not
\* looked at again.
PutUnblocked(r) ==
    /\ call[r] = "putting"
    /\ ~IsFull(target[r])
    /\ queue' = [queue EXCEPT ![target[r]] = Append(@, r)]
    /\ call'  = [call EXCEPT ![r] = "waiting"]
    /\ UNCHANGED <<table, boxes, closed, loops, target, by, fut, pend, out,
                   published, phase, stops>>

\* CancellationToken.cancel: only the linked future is told.
TokenCancel(r) ==
    /\ "token" \in Env
    /\ fut[r] = "pending"
    /\ fut' = [fut EXCEPT ![r] = "cancelled"]
    /\ UNCHANGED <<table, boxes, queue, closed, loops, call, target, by, pend,
                   out, published, phase, stops>>

Return_Early(r) ==      \* regression: result() without waiting for it
    /\ call[r] = "waiting"
    /\ call' = [call EXCEPT ![r] = "returned"]
    /\ out'  = [out EXCEPT ![r] = fut[r]]
    /\ UNCHANGED <<table, boxes, queue, closed, loops, target, by, fut, pend,
                   published, phase, stops>>

\* The awaited future is done: the caller resumes with its result.
Return(r) ==
    /\ call[r] = "waiting"
    /\ fut[r] # "pending"
    /\ call' = [call EXCEPT ![r] = "returned"]
    /\ out'  = [out EXCEPT ![r] = fut[r]]
    /\ raised' = IF fut[r] = "cancelled" THEN raised \cup ({by[r]} \ {Outside})
                                         ELSE raised
    /\ UNCHANGED <<table, boxes, queue, closed, loop, cur, cancelled, active,
                   ran, target, by, fut, pend, published, phase, stops>>

\* asyncio.wait_for expires: the future is cancelled and its entry removed.
Timeout(r) ==
    /\ Timeouts
    /\ call[r] = "waiting"
    /\ call' = [call EXCEPT ![r] = "returned"]
    /\ out'  = [out EXCEPT ![r] = "timeout"]
    /\ pend' = pend \ {r}
    /\ fut'  = [fut EXCEPT ![r] = IF @ = "pending" THEN "cancelled" ELSE @]
    /\ UNCHANGED <<table, boxes, queue, closed, loops, target, by, published,
                   phase, stops>>

\* CancelledError delivered to the calling task: "except Exception" around
\* dispatch does not see it, so the pending entry stays, and in Mailbox.put the
\* future is not even cancelled.
Abandoned(r) ==
    IF call[r] = "waiting" /\ fut[r] = "pending" THEN "cancelled" ELSE fut[r]

CallerCancelled(r) ==
    /\ "caller_cancel" \in Env
    /\ call[r] \in {"putting", "waiting"} /\ by[r] = Outside
    /\ call' = [call EXCEPT ![r] = "returned"]
    /\ out'  = [out EXCEPT ![r] = "cancelled"]
    /\ fut'  = [fut EXCEPT ![r] = Abandoned(r)]
    /\ UNCHANGED <<table, boxes, queue, closed, loops, target, by, pend,
                   published, phase, stops>>

-----------------------------------------------------------------------------
(* publish_message                                                         *)

Copies(t) == Cardinality({i \in DOMAIN bindings : bindings[i] = t})

Publish_EvictOldest(p) ==      \* regression: a full mailbox drops its oldest entry
    /\ p \notin published
    /\ EnsureAgents({Default[bindings[i]] : i \in DOMAIN bindings})
    /\ queue' = [b \in Boxes |->
          IF bindings # <<>> /\ b \in {boxOf'[a] : a \in AgentIds} /\ ~closed[b]
          THEN Append(IF IsFull(b) THEN Tail(queue[b]) ELSE queue[b], p)
          ELSE queue[b]]
    /\ published' = published \cup {p}
    /\ UNCHANGED <<table, closed, cur, raised, cancelled, active, ran, calls,
                   phase, stops>>

Publish(p) ==
    /\ p \notin published
    /\ EnsureAgents({Default[bindings[i]] : i \in DOMAIN bindings})
    /\ LET room(b) == IF closed[b] THEN 0 ELSE Capacity - Len(queue[b])
           wanted(b) == IF \E a \in AgentIds : boxOf'[a] = b
                        THEN Copies(TypeOf[CHOOSE a \in AgentIds : boxOf'[a] = b])
                        ELSE 0
           put(b) == IF wanted(b) <= room(b) THEN wanted(b) ELSE room(b)
       IN  queue' = [b \in Boxes |-> queue[b] \o [i \in 1..put(b) |-> p]]
    /\ published' = published \cup {p}
    /\ UNCHANGED <<table, closed, cur, raised, cancelled, active, ran, calls,
                   phase, stops>>

-----------------------------------------------------------------------------
(* _agent_loop                                                             *)

\* The inner get task of Mailbox.get dequeues; the loop is not yet resumed.
Take(b) ==
    /\ loop[b] = "get" /\ queue[b] # <<>>
    /\ cur'   = [cur EXCEPT ![b] = Head(queue[b])]
    /\ queue' = [queue EXCEPT ![b] = Tail(@)]
    /\ loop'  = [loop EXCEPT ![b] = "got"]
    /\ UNCHANGED <<table, boxes, closed, raised, cancelled, active, ran, calls,
                   published, phase, stops>>

\* Mailbox.get returns the envelope and the handler starts on it.
Begin(b) ==
    /\ loop[b] = "got" /\ cur[b] # CLOSED /\ b \notin cancelled
    /\ loop'   = [loop EXCEPT ![b] = "handle"]
    /\ active' = active + 1
    /\ ran'    = [r \in Reqs |-> IF r = cur[b] THEN "running" ELSE ran[r]]
    /\ UNCHANGED <<table, boxes, queue, closed, cur, raised, cancelled, calls,
                   published, phase, stops>>

\* Mailbox.get finds the sentinel, puts it back if there is room, and stops.
SeeSentinel(b) ==
    /\ loop[b] = "got" /\ cur[b] = CLOSED /\ b \notin cancelled
    /\ queue' = [queue EXCEPT ![b] = IF IsFull(b) THEN @ ELSE Append(@, CLOSED)]
    /\ loop'  = [loop EXCEPT ![b] = "ended"]
    /\ cur'   = [cur EXCEPT ![b] = NoMsg]
    /\ UNCHANGED <<table, boxes, closed, raised, cancelled, active, ran, calls,
                   published, phase, stops>>

\* Mailbox.get on a closed, drained mailbox that has no sentinel.
SeeClosed(b) ==
    /\ loop[b] = "get" /\ closed[b] /\ queue[b] = <<>> /\ b \notin cancelled
    /\ loop' = [loop EXCEPT ![b] = "ended"]
    /\ UNCHANGED <<table, boxes, queue, closed, cur, raised, cancelled, active,
                   ran, calls, published, phase, stops>>

Resolve_NoError(m, res) ==      \* regression: a failed handler answers None
    /\ pend' = pend \ {m}
    /\ fut'  = [r \in Reqs |->
                   IF r = m /\ r \in pend /\ fut[r] = "pending"
                   THEN "value" ELSE fut[r]]

\* The finally block of _agent_loop: pop the pending entry, resolve the future.
Resolve(m, res) ==
    /\ pend' = pend \ {m}
    /\ fut'  = [r \in Reqs |->
                   IF r = m /\ r \in pend /\ fut[r] = "pending"
                   THEN res ELSE fut[r]]

Finish_ErrorEndsLoop(b, how) ==      \* regression: an exception ends the loop
    /\ loop[b] = "handle" /\ ~Awaiting(b) /\ b \notin cancelled
    /\ \/ how = "value"
       \/ how = "error" /\ "handler_error" \in Env
    /\ active' = active - 1
    /\ Resolve(cur[b], how)
    /\ ran'  = [r \in Reqs |-> IF r = cur[b]
                   THEN IF how = "value" THEN "ok" ELSE "error" ELSE ran[r]]
    /\ loop' = [loop EXCEPT ![b] = IF how = "value" THEN "get" ELSE "ended"]
    /\ cur'  = [cur EXCEPT ![b] = NoMsg]
    /\ raised' = raised \ {b}
    /\ UNCHANGED <<table, boxes, queue, closed, cancelled, call, target, by,
                   out, published, phase, stops>>

Finish(b, how) ==
    /\ loop[b] = "handle" /\ ~Awaiting(b) /\ b \notin cancelled
    /\ \/ how = "value"
       \/ how = "error" /\ "handler_error" \in Env
    /\ active' = active - 1
    /\ Resolve(cur[b], how)
    /\ ran'  = [r \in Reqs |-> IF r = cur[b]
                   THEN IF how = "value" THEN "ok" ELSE "error" ELSE ran[r]]
    /\ loop' = [loop EXCEPT ![b] = "get"]
    /\ cur'  = [cur EXCEPT ![b] = NoMsg]
    /\ raised' = raised \ {b}
    /\ UNCHANGED <<table, boxes, queue, closed, cancelled, call, target, by,
                   out, published, phase, stops>>

\* CancelledError leaves the handler: the loop ends without a restart, and its
\* finally block resolves the future with the initial None.
Abort(b) ==
    /\ active' = active - 1
    /\ ran'  = [r \in Reqs |-> IF r = cur[b] THEN "aborted" ELSE ran[r]]
    /\ loop' = [loop EXCEPT ![b] = "ended"]
    /\ cur'  = [cur EXCEPT ![b] = NoMsg]
    /\ raised' = raised \ {b}

\* ... because a nested send_message raised it.
HandlerRaisesCancelled(b) ==
    /\ loop[b] = "handle" /\ b \in raised /\ ~Awaiting(b)
    /\ b \notin cancelled
    /\ Abort(b)
    /\ Resolve(cur[b], "silent")
    /\ UNCHANGED <<table, boxes, queue, closed, cancelled, call, target, by,
                   out, published, phase, stops>>

\* ... because stop_all cancelled the task.  A nested call in progress is
\* abandoned by the same exception.
CancelHandler(b) ==
    /\ loop[b] = "handle" /\ b \in cancelled
    /\ Abort(b)
    /\ LET nested == {r \in Reqs : by[r] = b /\ call[r] \in {"putting", "waiting"}}
           m == cur[b]
       IN  /\ call' = [r \in Reqs |-> IF r \in nested THEN "returned" ELSE call[r]]
           /\ out'  = [r \in Reqs |-> IF r \in nested THEN "cancelled" ELSE out[r]]
           /\ pend' = pend \ {m}
           /\ fut'  = [r \in Reqs |->
                 IF r \in nested THEN Abandoned(r)
                 ELSE IF r = m /\ r \in pend /\ fut[r] = "pending" THEN "silent"
                 ELSE fut[r]]
    /\ UNCHANGED <<table, boxes, queue, closed, cancelled, target, by,
                   published, phase, stops>>

\* The cancelled loop is in Mailbox.get: what the get task already took is lost.
CancelGet(b) ==
    /\ loop[b] \in {"get", "got"} /\ b \in cancelled
    /\ loop' = [loop EXCEPT ![b] = "ended"]
    /\ cur'  = [cur EXCEPT ![b] = NoMsg]
    /\ UNCHANGED <<table, boxes, queue, closed, raised, cancelled, active, ran,
                   calls, published, phase, stops>>

-----------------------------------------------------------------------------
(* stop and stop_when_idle                                                 *)

\* Supervisor._tasks: one task per started agent.
Supervised == {boxOf[a] : a \in started}

BeginStop ==
    /\ phase # "cancelling" /\ stops < MaxStops
    /\ phase' = "cancelling"
    /\ cancelled' = cancelled \cup {b \in Boxes \cap Supervised : loop[b] # "ended"}
    /\ UNCHANGED <<table, boxes, queue, closed, loop, cur, raised, active, ran,
                   calls, published, stops>>

Stop == "stop" \in Env /\ BeginStop

Idle_NoPending ==      \* regression: the mailboxes alone decide
    /\ \A a \in AgentIds : boxOf[a] # 0 => queue[boxOf[a]] = <<>>
    /\ active = 0

Idle ==
    /\ \A a \in AgentIds : boxOf[a] # 0 => queue[boxOf[a]] = <<>>
    /\ pend = {}
    /\ active = 0

StopWhenIdle == "stop_when_idle" \in Env /\ Idle /\ BeginStop

FinishStop_NoCancel ==      \* regression: the futures are dropped, not cancelled
    /\ phase = "cancelling"
    /\ \A b \in cancelled : loop[b] = "ended"
    /\ LET shut == {boxOf[a] : a \in AgentIds} \ {0} IN
       /\ closed' = [b \in Boxes |-> closed[b] \/ b \in shut]
       /\ queue'  = [b \in Boxes |->
                        IF b \in shut /\ ~closed[b] /\ ~IsFull(b)
                        THEN Append(queue[b], CLOSED) ELSE queue[b]]
    /\ pend' = {} /\ started' = {}
    /\ phase' = "stopped" /\ stops' = stops + 1
    /\ UNCHANGED <<table, boxOf, made, loops, call, target, by, fut, out, published>>

\* gather returned: close the mailboxes, cancel the futures, forget the agents.
FinishStop ==
    /\ phase = "cancelling"
    /\ \A b \in cancelled : loop[b] = "ended"
    /\ LET shut == {boxOf[a] : a \in AgentIds} \ {0} IN
       /\ closed' = [b \in Boxes |-> closed[b] \/ b \in shut]
       /\ queue'  = [b \in Boxes |->
                        IF b \in shut /\ ~closed[b] /\ ~IsFull(b)
                        THEN Append(queue[b], CLOSED) ELSE queue[b]]
    /\ fut' = [r \in Reqs |-> IF r \in pend /\ fut[r] = "pending"
                              THEN "cancelled" ELSE fut[r]]
    /\ pend' = {}
    /\ started' = {}
    /\ phase' = "stopped" /\ stops' = stops + 1
    /\ UNCHANGED <<table, boxOf, made, loops, call, target, by, out, published>>

-----------------------------------------------------------------------------
LoopStep(b) ==
    \/ Take(b) \/ Begin(b) \/ SeeSentinel(b) \/ SeeClosed(b)
    \/ \E how \in {"value", "error"} : Finish(b, how)
    \/ HandlerRaisesCancelled(b) \/ CancelHandler(b) \/ CancelGet(b)

CallStep(r) == PutUnblocked(r) \/ Return(r) \/ Timeout(r)

Next ==
    \/ \E t \in Types : Register(t) \/ Subscribe(t)
    \/ \E r \in Reqs, a \in AgentIds, c \in {Outside} \cup Boxes : Send(r, a, c)
    \/ \E r \in Reqs, a \in AgentIds : SendNotFound(r, a)
    \/ \E r \in Reqs, c \in {Outside} \cup Boxes : SendPreCancelled(r, c)
    \/ \E r \in Reqs : CallStep(r) \/ TokenCancel(r) \/ CallerCancelled(r)
    \/ \E p \in Pubs : Publish(p)
    \/ \E b \in Boxes : LoopStep(b)
    \/ Stop \/ StopWhenIdle \/ FinishStop

Spec == Init /\ [][Next]_vars

\* The event loop runs every ready callback and timer; handlers terminate
\* unless they wait for a nested call.
Fairness ==
    /\ \A r \in Reqs : WF_vars(CallStep(r))
    /\ \A b \in Boxes : WF_vars(LoopStep(b))
    /\ WF_vars(FinishStop)

FairSpec == Spec /\ Fairness

-----------------------------------------------------------------------------
(* Properties                                                              *)

\* How often the envelope of r sits in a mailbox or in the hands of a loop.
Places(r) ==
    Cardinality({x \in Boxes \X (1..(Capacity + 1)) :
                    x[2] \in DOMAIN queue[x[1]] /\ queue[x[1]][x[2]] = r})
  + Cardinality({b \in Boxes : cur[b] = r})

\* An envelope is in one place at a time, and nowhere once its handler has
\* ended: no interleaving of put, get, sentinel and stop duplicates a request.
DeliveredOnce ==
    \A r \in Reqs : /\ Places(r) <= 1
                    /\ ran[r] \in {"ok", "error", "aborted"} => Places(r) = 0
                    /\ ran[r] = "running" => \E b \in Boxes :
                                                cur[b] = r /\ loop[b] = "handle"

\* While the runtime is not in the middle of stop, a caller whose future is
\* still open has an envelope that a mailbox or a loop holds, and a pending
\* entry through which the loop will find the future.
WaitingCallIsHeld ==
    \A r \in Reqs :
        call[r] = "waiting" /\ fut[r] = "pending" /\ phase # "cancelling"
            => r \in pend /\ Places(r) = 1

\* An open future is always reachable from _pending_responses, so that stop can
\* cancel it.
OpenFutureIsPending == \A r \in Reqs : fut[r] = "pending" => r \in pend

\* _active_handlers is the number of loops inside a handler, on every path out
\* of it; stop_when_idle relies on it.
ActiveHandlersCounted ==
    active = Cardinality({b \in Boxes : loop[b] = "handle"})

\* An agent that _ensure_agent takes for started has an open mailbox of its
\* own, shared with no other agent, with at most Capacity entries.
StartedAgentHasMailbox ==
    /\ \A a \in started : boxOf[a] \in 1..made /\ ~closed[boxOf[a]]
    /\ \A a1, a2 \in AgentIds : boxOf[a1] = boxOf[a2] => a1 = a2 \/ boxOf[a1] = 0
    /\ \A b \in Boxes : Len(queue[b]) <= Capacity

\* An entry of _pending_responses whose call has returned goes away with an
\* envelope that is still held: nothing is left behind that would keep
\* stop_when_idle polling for ever.  (Test comment: "C3: if dispatch() raises,
\* future is cleaned up", "No futures should remain".)
NoLingeringEntry ==
    \A r \in Reqs : call[r] = "returned" /\ r \in pend /\ phase # "cancelling"
                        => Places(r) = 1

\* When stop_when_idle decides to stop, every call made so far has an answer.
IdleStopAnswersEveryCall ==
    [][StopWhenIdle => \A r \in Reqs : \/ call[r] \in {"idle", "returned"}
                                       \/ fut[r] # "pending"]_vars

\* Once stop has returned, the loop of every mailbox it closed ends.
StoppedLoopsEnd == \A b \in Boxes : closed[b] ~> loop[b] = "ended"

\* send_timeout bounds a call: every call that was made returns.  (A sender that
\* waits for a slot of a full mailbox when stop comes is woken by nobody.)
EverySendReturns ==
    \A r \in Reqs : call[r] \in {"putting", "waiting"}
                        ~> call[r] = "returned" \/ (call[r] = "putting" /\ phase = "stopped")

\* Every call is answered as CallPromise demands.
Promise == INSTANCE CallPromise WITH
    life <- [r \in Reqs |->
                [call |-> CASE call[r] = "idle"     -> "new"
                            [] call[r] = "returned" -> "answered"
                            [] OTHER                -> "open",
                 ran  |-> ran[r],
                 out  |-> out[r]]]

KeepsPromise == Promise!Spec

\* Envelopes, callers, handlers and mailboxes agree through every interleaving of calls,
\* timeouts, cancellations and stop.
NothingIsMislaid ==
    DeliveredOnce /\ WaitingCallIsHeld /\ ActiveHandlersCounted /\ StartedAgentHasMailbox

\* Calls return, leave nothing behind, and loops end with their mailboxes.
EveryCallIsClosed == []NoLingeringEntry /\ EverySendReturns /\ StoppedLoopsEnd
=============================================================================
