--------------------------- MODULE JobController ---------------------------
(***************************************************************************)
(* The job controller service with the two services on either side of it:  *)
(* the gateway's POST /chat, which cancels a stale run and retries, and the *)
(* agent runtime's POST /agent/run, which executes what is dispatched.      *)
(*                                                                          *)
(* The replicas of the service share one PostgreSQL table (READ COMMITTED), *)
(* so a step is one SQL statement, or the statements up to a commit when    *)
(* they touch one row.  The session of an endpoint comes from               *)
(* get_db_session, which commits after the response has been sent: an       *)
(* UPDATE of cancel_run holds its row lock, and stays invisible to the      *)
(* others, until then.                                                      *)
(*                                                                          *)
(* _cancel_signals is not a variable: cancel sets an event that nothing     *)
(* awaits and drops it in the same step.  workflow.run_started,             *)
(* agent.run_command and workflow.run_failed have no consumer.              *)
(***************************************************************************)
EXTENDS Naturals, FiniteSets

CONSTANTS
    Posts,        \* requests to start a run; a run is named by its request
    Cancels,      \* cancel requests that users send
    Threads,
    ThreadOf,     \* the thread a request is about
    Chats,        \* the Posts that come through the gateway
    KeyOf,        \* client_request_id of a request
    NoKey,        \* no client_request_id
    NoRun,
    MaxCrashes,   \* bound: restarts of the service
    Serial,       \* a thread's next request starts when the previous has ended
    Env           \* what the environment does in this instance

Actors == Posts \cup Cancels

ASSUME JobAssumption ==
    /\ Posts \cap Cancels = {}
    /\ NoRun \notin Posts
    /\ ThreadOf \in [Actors -> Threads]
    /\ Chats \subseteq Posts
    /\ \A p \in Chats : KeyOf[p] = NoKey
    /\ MaxCrashes \in Nat
    /\ Serial \in BOOLEAN
    /\ Env \subseteq {"dispatch_error", "runtime_error", "slow_runtime"}

Active == {"pending", "running"}
Final  == {"completed", "failed", "cancelled"}
InFlight == {"check", "find", "insert", "cancel", "cancelling"}

VARIABLES
    status,   \* committed JobRun.status; "none": no row
    locked,   \* rows with an uncommitted UPDATE to "cancelled"
    pc,       \* where each request is in the gateway and create_run_endpoint
    tries,    \* start_run calls that the gateway made for it
    runOf,    \* the run create_run returned
    aim,      \* the run a cancel endpoint has read
    cancel,   \* where each user's cancel request is
    disp,     \* where the dispatch_run task of each request is
    exec,     \* the agent execution started for that task
    crashes

rows == <<status, locked>>
asks == <<pc, tries, runOf, aim, cancel>>
work == <<disp, exec>>
vars == <<rows, asks, work, crashes>>

TypeOK ==
    /\ status \in [Posts -> Active \cup Final \cup {"none"}]
    /\ locked \subseteq Posts
    /\ pc \in [Posts -> InFlight \cup {"new", "created", "refused", "error"}]
    /\ tries \in [Posts -> 0..2]
    /\ runOf \in [Posts -> Posts \cup {NoRun}]
    /\ aim \in [Actors -> Posts \cup {NoRun}]
    /\ cancel \in [Cancels -> {"new", "update", "done"}]
    /\ disp \in [Posts -> {"none", "start", "post", "waiting", "fail", "done", "lost"}]
    /\ exec \in [Posts -> {"none", "loading", "running", "ended"}]
    /\ crashes \in Nat

Init ==
    /\ status = [p \in Posts |-> "none"]
    /\ locked = {}
    /\ pc = [p \in Posts |-> "new"]
    /\ tries = [p \in Posts |-> 0]
    /\ runOf = [p \in Posts |-> NoRun]
    /\ aim = [x \in Actors |-> NoRun]
    /\ cancel = [c \in Cancels |-> "new"]
    /\ disp = [p \in Posts |-> "none"]
    /\ exec = [p \in Posts |-> "none"]
    /\ crashes = 0

\* get_active_run_for_thread: what a SELECT sees now.  With several active runs
\* the newest created_at wins, which says nothing about the order of the
\* commits of overlapping transactions: any of them.
ActiveRuns(t) == {r \in Posts : ThreadOf[r] = t /\ status[r] \in Active}

-----------------------------------------------------------------------------
(* The gateway's chat and create_run_endpoint.                             *)

Arrive(p) ==
    /\ pc[p] = "new"
    /\ Serial => \A q \in Posts : ThreadOf[q] = ThreadOf[p] => pc[q] \notin InFlight
    /\ pc' = [pc EXCEPT ![p] = "check"]
    /\ tries' = [tries EXCEPT ![p] = 1]
    /\ UNCHANGED <<rows, runOf, aim, cancel, work, crashes>>

\* The single-flight check.  The gateway answers the first 409 by cancelling.
Check(p) ==
    /\ pc[p] = "check"
    /\ pc' = [pc EXCEPT ![p] =
                 IF ActiveRuns(ThreadOf[p]) # {}
                 THEN IF p \in Chats /\ tries[p] = 1 THEN "cancel" ELSE "refused"
                 ELSE IF KeyOf[p] = NoKey THEN "insert" ELSE "find"]
    /\ UNCHANGED <<rows, tries, runOf, aim, cancel, work, crashes>>

\* The endpoint answers with run r and leaves dispatch_run behind as a task.
Respond(p, r) ==
    /\ pc' = [pc EXCEPT ![p] = "created"]
    /\ runOf' = [runOf EXCEPT ![p] = r]
    /\ disp' = [disp EXCEPT ![p] = "start"]

SameKey(p) == {r \in Posts : status[r] # "none" /\ KeyOf[r] = KeyOf[p]}

\* create_run: look the client_request_id up.
Find(p) ==
    /\ pc[p] = "find"
    /\ IF SameKey(p) = {}
       THEN /\ pc' = [pc EXCEPT ![p] = "insert"]
            /\ UNCHANGED <<runOf, disp>>
       ELSE \E r \in SameKey(p) : Respond(p, r)
    /\ UNCHANGED <<rows, tries, aim, cancel, exec, crashes>>

\* create_run: INSERT, flush and commit.  client_request_id is UNIQUE: against
\* a row of another transaction the flush waits for its commit and then raises
\* IntegrityError.
Insert(p) ==
    /\ pc[p] = "insert"
    /\ IF KeyOf[p] # NoKey /\ SameKey(p) # {}
       THEN /\ pc' = [pc EXCEPT ![p] = "error"]
            /\ UNCHANGED <<status, runOf, disp>>
       ELSE /\ status' = [status EXCEPT ![p] = "pending"]
            /\ Respond(p, p)
    /\ UNCHANGED <<locked, tries, aim, cancel, exec, crashes>>

-----------------------------------------------------------------------------
(* The cancel endpoints, for the users and for the gateway's auto-cancel.   *)

\* Users cancel a run or a thread; a run that is not active is 409, a thread
\* without one is "not_found".
CancelRead(c) ==
    /\ cancel[c] = "new"
    /\ \/ \E r \in ActiveRuns(ThreadOf[c]) :
            /\ aim' = [aim EXCEPT ![c] = r]
            /\ cancel' = [cancel EXCEPT ![c] = "update"]
       \/ /\ ActiveRuns(ThreadOf[c]) = {}
          /\ cancel' = [cancel EXCEPT ![c] = "done"]
          /\ UNCHANGED aim
    /\ UNCHANGED <<rows, pc, tries, runOf, work, crashes>>

\* cancel_run: the guarded UPDATE, once the row is free; no commit yet.
UpdateCancelled(r) ==
    /\ r \notin locked
    /\ locked' = IF status[r] \in Active THEN locked \cup {r} ELSE locked

CancelUpdate(c) ==
    /\ cancel[c] = "update"
    /\ UpdateCancelled(aim[c])
    /\ cancel' = [cancel EXCEPT ![c] = "done"]
    /\ UNCHANGED <<status, pc, tries, runOf, aim, work, crashes>>

CommitCancel_Never(r) ==      \* regression: the session is never closed
    FALSE /\ r \in locked /\ UNCHANGED vars

\* The session of a cancel endpoint commits, after its response.
CommitCancel(r) ==
    /\ r \in locked
    /\ status' = [status EXCEPT ![r] = "cancelled"]
    /\ locked' = locked \ {r}
    /\ UNCHANGED <<asks, work, crashes>>

\* The gateway retries start_run whatever the cancel endpoint answered.
Retry(p) ==
    /\ pc' = [pc EXCEPT ![p] = "check"]
    /\ tries' = [tries EXCEPT ![p] = 2]

GatewayCancelRead(p) ==
    /\ pc[p] = "cancel"
    /\ \/ \E r \in ActiveRuns(ThreadOf[p]) :
            /\ aim' = [aim EXCEPT ![p] = r]
            /\ pc' = [pc EXCEPT ![p] = "cancelling"]
            /\ UNCHANGED tries
       \/ /\ ActiveRuns(ThreadOf[p]) = {}
          /\ Retry(p)
          /\ UNCHANGED aim
    /\ UNCHANGED <<rows, runOf, cancel, work, crashes>>

GatewayCancelUpdate(p) ==
    /\ pc[p] = "cancelling"
    /\ UpdateCancelled(aim[p])
    /\ Retry(p)
    /\ UNCHANGED <<status, runOf, aim, cancel, work, crashes>>

-----------------------------------------------------------------------------
(* dispatch_run, the agent runtime and restarts.                           *)

StartRun_AnyStatus(p) ==      \* regression: UPDATE ... WHERE id = run_id only
    /\ disp[p] = "start"
    /\ runOf[p] \notin locked
    /\ status' = [status EXCEPT ![runOf[p]] = "running"]
    /\ disp' = [disp EXCEPT ![p] = "post"]
    /\ UNCHANGED <<locked, asks, exec, crashes>>

StartRun_NoCommit(p) ==      \* regression: start_run's session is not committed
    /\ disp[p] = "start"
    /\ disp' = [disp EXCEPT ![p] = "post"]
    /\ UNCHANGED <<rows, asks, exec, crashes>>

\* start_run and its commit.  get_run finds the row whatever its status, so a
\* run that is not pending goes on to the agent runtime too.
StartRun(p) ==
    /\ disp[p] = "start"
    /\ runOf[p] \notin locked
    /\ status' = IF status[runOf[p]] = "pending"
                 THEN [status EXCEPT ![runOf[p]] = "running"] ELSE status
    /\ disp' = [disp EXCEPT ![p] = "post"]
    /\ UNCHANGED <<locked, asks, exec, crashes>>

\* POST /agent/run reaches the agent runtime, which loads the thread's memory.
PostRun(p) ==
    /\ disp[p] = "post"
    /\ disp' = [disp EXCEPT ![p] = "waiting"]
    /\ exec' = [exec EXCEPT ![p] = "loading"]
    /\ UNCHANGED <<rows, asks, crashes>>

\* The agent runtime starts execute_agent_run and answers 202.
AgentStarts(p) ==
    /\ exec[p] = "loading"
    /\ exec' = [exec EXCEPT ![p] = "running"]
    /\ disp' = [disp EXCEPT ![p] = IF @ = "waiting" THEN "done" ELSE @]
    /\ UNCHANGED <<rows, asks, crashes>>

\* The agent publishes agent.run_completed or agent.run_failed.  Nothing in the
\* job controller consumes either, and complete_run has no caller.
AgentEnds(p) ==
    /\ exec[p] = "running"
    /\ exec' = [exec EXCEPT ![p] = "ended"]
    /\ UNCHANGED <<rows, asks, disp, crashes>>

\* An exception in dispatch_run: from the database or Redis, from the agent
\* runtime answering 5xx, or the 30 s timeout while it is still loading.
DispatchRaises(p) ==
    /\ \/ "dispatch_error" \in Env /\ disp[p] \in {"start", "post"} /\ UNCHANGED exec
       \/ /\ "runtime_error" \in Env /\ disp[p] = "waiting" /\ exec[p] = "loading"
          /\ exec' = [exec EXCEPT ![p] = "ended"]
       \/ /\ "slow_runtime" \in Env /\ disp[p] = "waiting" /\ exec[p] = "loading"
          /\ UNCHANGED exec
    /\ disp' = [disp EXCEPT ![p] = "fail"]
    /\ UNCHANGED <<rows, asks, crashes>>

FailRun_OtherName(p) ==      \* regression: a status the readers do not know
    /\ disp[p] = "fail"
    /\ runOf[p] \notin locked
    /\ status' = [status EXCEPT ![runOf[p]] = "error"]
    /\ disp' = [disp EXCEPT ![p] = "done"]
    /\ UNCHANGED <<locked, asks, exec, crashes>>

\* fail_run and its commit: an UPDATE with no condition on the status.
FailRun(p) ==
    /\ disp[p] = "fail"
    /\ runOf[p] \notin locked
    /\ status' = [status EXCEPT ![runOf[p]] = "failed"]
    /\ disp' = [disp EXCEPT ![p] = "done"]
    /\ UNCHANGED <<locked, asks, exec, crashes>>

\* The job controller restarts: its requests fail, open transactions roll back
\* and dispatch tasks are gone.  The gateway, which swallows an error of its
\* auto-cancel, still retries.
Crash ==
    /\ crashes < MaxCrashes
    /\ crashes' = crashes + 1
    /\ locked' = {}
    /\ pc' = [p \in Posts |->
                 IF pc[p] \in {"cancel", "cancelling"} THEN "check"
                 ELSE IF pc[p] \in {"check", "find", "insert"} THEN "error" ELSE pc[p]]
    /\ tries' = [p \in Posts |-> IF pc[p] \in {"cancel", "cancelling"} THEN 2 ELSE tries[p]]
    /\ cancel' = [c \in Cancels |-> IF cancel[c] = "update" THEN "done" ELSE cancel[c]]
    /\ disp' = [p \in Posts |-> IF disp[p] \in {"none", "done"} THEN disp[p] ELSE "lost"]
    /\ UNCHANGED <<status, runOf, aim, exec>>

-----------------------------------------------------------------------------
Request(p) == \/ Check(p) \/ Find(p) \/ Insert(p)
              \/ GatewayCancelRead(p) \/ GatewayCancelUpdate(p)

Dispatch(p) == StartRun(p) \/ PostRun(p) \/ FailRun(p)

Next ==
    \/ \E p \in Posts : \/ Arrive(p) \/ Request(p) \/ Dispatch(p) \/ DispatchRaises(p)
                        \/ AgentStarts(p) \/ AgentEnds(p) \/ CommitCancel(p)
    \/ \E c \in Cancels : CancelRead(c) \/ CancelUpdate(c)
    \/ Crash

Spec == Init /\ [][Next]_vars

\* The event loops of the services run every task, PostgreSQL answers, and an
\* agent ends (ReActAgent stops after max_iterations).
FairSpec ==
    /\ Spec
    /\ \A p \in Posts : /\ WF_vars(Request(p)) /\ WF_vars(Dispatch(p))
                        /\ WF_vars(CommitCancel(p))
                        /\ WF_vars(AgentStarts(p)) /\ WF_vars(AgentEnds(p))
    /\ \A c \in Cancels : WF_vars(CancelUpdate(c))
-----------------------------------------------------------------------------
\* Single-flight: a thread has at most one run that is pending or running
\* (docstring of create_run_endpoint: "Single-flight: returns 409 if a run is
\* already active for this thread").
OneActiveRun ==
    \A r1, r2 \in Posts :
        /\ ThreadOf[r1] = ThreadOf[r2]
        /\ status[r1] \in Active /\ status[r2] \in Active
        => r1 = r2

\* A run that is completed, failed or cancelled is never active again, however
\* late its dispatch task, a duplicate of it or a cancel commits.
FinalStaysFinal ==
    [][\A r \in Posts : status[r] \in Final => status'[r] \in Final]_vars

\* An agent works only for runs that left "pending", also when one run is
\* dispatched by two tasks.
PendingRunHasNoAgent ==
    \A p \in Posts : exec[p] # "none" => status[runOf[p]] \notin {"none", "pending"}

\* Every request gets its response, those waiting for a row lock included.
EveryRequestIsAnswered ==
    \A p \in Posts : pc[p] \in InFlight ~> pc[p] \in {"created", "refused", "error"}

\* While the service stays up, no run stays pending.
PendingRunIsDispatched ==
    \A r \in Posts : status[r] = "pending" ~> status[r] # "pending" \/ crashes > 0

\* Neither requests nor runs hang in the job controller.
NothingHangs == EveryRequestIsAnswered /\ PendingRunIsDispatched
=============================================================================
