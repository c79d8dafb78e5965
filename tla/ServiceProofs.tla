--------------------------- MODULE ServiceProofs ---------------------------
(***************************************************************************)
(* What holds of the two services between a chat request and its events.    *)
(* Of JobController, for every set of requests, assignment of threads and   *)
(* keys, and number of restarts; of LiveStream, for every set of            *)
(* executions, runs and connections, every capacity and number of events.   *)
(***************************************************************************)
EXTENDS JobController, LiveStream, TLAPS

-----------------------------------------------------------------------------
(* JobController.                                                          *)

\* A cancel that is about to update a row has read which.
Aimed ==
    /\ \A p \in Posts : pc[p] = "cancelling" => aim[p] \in Posts
    /\ \A c \in Cancels : cancel[c] = "update" => aim[c] \in Posts

\* The row of a request appears when the request inserts it, and not before.
NoRowYet == \A p \in Posts : pc[p] \in InFlight \cup {"new"}
                                => status[p] = "none" /\ runOf[p] = NoRun

\* A row locked by a cancel is still active: the task that would move it waits.
LockedActive == \A r \in locked : status[r] \in Active

\* A dispatch task, and an agent, are about a run that has a row.
RunHasRow ==
    \A p \in Posts : /\ runOf[p] # NoRun => status[runOf[p]] # "none"
                     /\ disp[p] # "none" => runOf[p] # NoRun
                     /\ exec[p] # "none" => disp[p] # "none"

\* From the POST to the agent runtime on, the run has left "pending".
HandedOver ==
    \A p \in Posts : disp[p] \in {"post", "waiting"} \/ exec[p] # "none"
                        => status[runOf[p]] # "pending"

\* One request of a thread at a time is being served, and one that has passed
\* the single-flight check finds it still true when it inserts.
Alone ==
    /\ \A p, q \in Posts : /\ ThreadOf[p] = ThreadOf[q]
                           /\ pc[p] \in InFlight /\ pc[q] \in InFlight
                           => p = q
    /\ \A p, r \in Posts : /\ pc[p] \in {"find", "insert"}
                           /\ ThreadOf[r] = ThreadOf[p]
                           => status[r] \notin Active

IInv == /\ TypeOK /\ Aimed /\ NoRowYet /\ LockedActive /\ RunHasRow /\ HandedOver
        /\ Serial => Alone /\ OneActiveRun

USE DEF Active, Final, InFlight, Actors, rows, asks, work

\* The types, and what a cancel has read, are kept by every endpoint and task.
LEMMA TypeStep == TypeOK /\ Aimed /\ [Next]_vars => TypeOK' /\ Aimed'
<1> SUFFICES ASSUME TypeOK, Aimed, [Next]_vars PROVE TypeOK' /\ Aimed'
  OBVIOUS
<1> USE JobAssumption DEF TypeOK, Aimed
<1>1. ASSUME NEW p \in Posts, Arrive(p) \/ Request(p) PROVE TypeOK' /\ Aimed'
  <2>1. CASE Arrive(p)
    BY <2>1 DEF Arrive
  <2>2. CASE Check(p)
    BY <2>2 DEF Check
  <2>3. CASE Find(p)
    BY <2>3 DEF Find, Respond, SameKey
  <2>4. CASE Insert(p)
    BY <2>4 DEF Insert, Respond
  <2>5. CASE GatewayCancelRead(p)
    BY <2>5 DEF GatewayCancelRead, ActiveRuns, Retry
  <2>6. CASE GatewayCancelUpdate(p)
    BY <2>6 DEF GatewayCancelUpdate, UpdateCancelled, Retry
  <2> QED
    BY <1>1, <2>1, <2>2, <2>3, <2>4, <2>5, <2>6 DEF Request
<1>2. ASSUME NEW p \in Posts, Dispatch(p) \/ DispatchRaises(p)
      PROVE TypeOK' /\ Aimed'
  <2>1. CASE StartRun(p)
    BY <2>1 DEF StartRun
  <2>2. CASE PostRun(p)
    BY <2>2 DEF PostRun
  <2>3. CASE FailRun(p)
    BY <2>3 DEF FailRun
  <2>4. CASE DispatchRaises(p)
    BY <2>4 DEF DispatchRaises
  <2> QED
    BY <1>2, <2>1, <2>2, <2>3, <2>4 DEF Dispatch
<1>3. ASSUME NEW p \in Posts, AgentStarts(p) \/ AgentEnds(p) \/ CommitCancel(p)
      PROVE TypeOK' /\ Aimed'
  <2>1. CASE AgentStarts(p)
    BY <2>1 DEF AgentStarts
  <2>2. CASE AgentEnds(p)
    BY <2>2 DEF AgentEnds
  <2>3. CASE CommitCancel(p)
    BY <2>3 DEF CommitCancel
  <2> QED
    BY <1>3, <2>1, <2>2, <2>3
<1>4. ASSUME NEW c \in Cancels, CancelRead(c) PROVE TypeOK' /\ Aimed'
  BY <1>4 DEF CancelRead, ActiveRuns
<1>5. ASSUME NEW c \in Cancels, CancelUpdate(c) PROVE TypeOK' /\ Aimed'
  BY <1>5 DEF CancelUpdate, UpdateCancelled
<1>6. CASE Crash
  BY <1>6 DEF Crash
<1>7. CASE UNCHANGED vars
  BY <1>7 DEF vars
<1> QED
  BY <1>1, <1>2, <1>3, <1>4, <1>5, <1>6, <1>7 DEF Next

\* The table is written in four ways only: a request inserts its own row, and a
\* row that exists goes to running, to failed or to cancelled.
RowStep(r) ==
    \/ status'[r] = status[r]
    \/ Insert(r) /\ status[r] = "none" /\ status'[r] = "pending"
    \/ status[r] = "pending" /\ status'[r] = "running"
    \/ status[r] # "none" /\ status'[r] = "failed"
    \/ status[r] \in Active /\ status'[r] = "cancelled"

USE DEF RowStep

\* Every step is one of these.
LEMMA RowSteps ==
  ASSUME TypeOK, NoRowYet, LockedActive, RunHasRow, [Next]_vars, NEW r \in Posts
  PROVE  RowStep(r)
<1>1. ASSUME NEW p \in Posts, Arrive(p) \/ Request(p) PROVE RowStep(r)
  <2>1. CASE Insert(p)
    BY <2>1 DEF Insert, Respond, TypeOK, NoRowYet
  <2>2. CASE ~Insert(p)
    <3>1. status' = status
      BY <1>1, <2>2 DEF Request, Arrive, Check, Find, GatewayCancelRead,
                        GatewayCancelUpdate
    <3> QED
      BY <3>1
  <2> QED
    BY <2>1, <2>2
<1>2. ASSUME NEW p \in Posts, Dispatch(p) PROVE RowStep(r)
  <2>1. CASE StartRun(p)
    BY <2>1 DEF StartRun, TypeOK
  <2>2. CASE PostRun(p)
    BY <2>2 DEF PostRun
  <2>3. CASE FailRun(p)
    BY <2>3 DEF FailRun, RunHasRow, TypeOK
  <2> QED
    BY <1>2, <2>1, <2>2, <2>3 DEF Dispatch
<1>3. ASSUME NEW p \in Posts, DispatchRaises(p) \/ AgentStarts(p) \/ AgentEnds(p)
      PROVE RowStep(r)
  <2>1. status' = status
    BY <1>3 DEF DispatchRaises, AgentStarts, AgentEnds
  <2> QED
    BY <2>1
<1>4. ASSUME NEW p \in Posts, CommitCancel(p) PROVE RowStep(r)
  BY <1>4 DEF CommitCancel, LockedActive, TypeOK
<1>5. ASSUME NEW c \in Cancels, CancelRead(c) \/ CancelUpdate(c) PROVE RowStep(r)
  <2>1. status' = status
    BY <1>5 DEF CancelRead, CancelUpdate
  <2> QED
    BY <2>1
<1>6. CASE Crash \/ UNCHANGED vars
  <2>1. status' = status
    BY <1>6 DEF Crash, vars
  <2> QED
    BY <2>1
<1> QED
  BY <1>1, <1>2, <1>3, <1>4, <1>5, <1>6 DEF Next

\* A request moves from "new" through the states of a request that is being
\* served, entered only by Arrive, and never comes back once it has ended.
PcStep(p) ==
    /\ pc'[p] \in InFlight \cup {"new"} => pc[p] \in InFlight \cup {"new"}
    /\ pc'[p] \in InFlight => pc[p] \in InFlight \/ Arrive(p)
    /\ pc'[p] \in {"find", "insert"} =>
          \/ pc[p] \in {"find", "insert"}
          \/ ActiveRuns(ThreadOf[p]) = {} /\ Check(p)

USE DEF PcStep

\* Every step is one of these.
LEMMA PcSteps ==
  ASSUME TypeOK, [Next]_vars, NEW p \in Posts
  PROVE  PcStep(p)
<1>1. ASSUME NEW q \in Posts, Arrive(q) \/ Request(q) PROVE PcStep(p)
  <2>1. CASE Arrive(q)
    BY <2>1 DEF Arrive, TypeOK
  <2>2. CASE Check(q)
    BY <2>2 DEF Check, TypeOK
  <2>3. CASE Find(q)
    BY <2>3 DEF Find, Respond, TypeOK
  <2>4. CASE Insert(q)
    BY <2>4 DEF Insert, Respond, TypeOK
  <2>5. CASE GatewayCancelRead(q)
    BY <2>5 DEF GatewayCancelRead, Retry, TypeOK
  <2>6. CASE GatewayCancelUpdate(q)
    BY <2>6 DEF GatewayCancelUpdate, Retry, TypeOK
  <2> QED
    BY <1>1, <2>1, <2>2, <2>3, <2>4, <2>5, <2>6 DEF Request
<1>2. ASSUME Crash PROVE PcStep(p)
  BY <1>2 DEF Crash, TypeOK
<1>3. ASSUME pc' = pc PROVE PcStep(p)
  BY <1>3
<1>4. ASSUME NEW q \in Posts, \/ Dispatch(q) \/ DispatchRaises(q)
                              \/ AgentStarts(q) \/ AgentEnds(q) \/ CommitCancel(q)
      PROVE pc' = pc
  BY <1>4 DEF Dispatch, StartRun, PostRun, FailRun, DispatchRaises, AgentStarts,
              AgentEnds, CommitCancel
<1>5. ASSUME NEW c \in Cancels, CancelRead(c) \/ CancelUpdate(c) PROVE pc' = pc
  BY <1>5 DEF CancelRead, CancelUpdate
<1>6. ASSUME UNCHANGED vars PROVE PcStep(p)
  BY <1>6, <1>3 DEF vars
<1> QED
  BY <1>1, <1>2, <1>3, <1>4, <1>5, <1>6 DEF Next

\* The request that inserts has been answered.
LEMMA InsertEnds ==
  ASSUME TypeOK, NEW p \in Posts, Insert(p)
  PROVE  pc[p] = "insert" /\ pc'[p] \notin InFlight \cup {"new"}
BY DEF Insert, Respond, TypeOK

\* A request that has not been answered has neither a row nor a run.
LEMMA NoRowStep ==
  ASSUME TypeOK, NoRowYet, LockedActive, RunHasRow, [Next]_vars
  PROVE  NoRowYet'
<1> SUFFICES ASSUME NEW p \in Posts, pc'[p] \in InFlight \cup {"new"}
             PROVE  status'[p] = "none" /\ runOf'[p] = NoRun
  BY DEF NoRowYet
<1>1. status[p] = "none" /\ runOf[p] = NoRun
  BY PcSteps DEF NoRowYet
<1>2. status'[p] = "none"
  BY <1>1, RowSteps, PcSteps, InsertEnds
<1>3. runOf'[p] = NoRun
  <2>1. CASE \E q \in Posts : Find(q) \/ Insert(q)
    BY <1>1, <2>1 DEF Find, Insert, Respond, TypeOK
  <2>2. CASE ~ \E q \in Posts : Find(q) \/ Insert(q)
    <3>1. ASSUME NEW q \in Posts, Arrive(q) \/ Request(q) PROVE runOf' = runOf
      BY <2>2, <3>1 DEF Arrive, Request, Check, GatewayCancelRead, GatewayCancelUpdate
    <3>2. ASSUME NEW q \in Posts, \/ Dispatch(q) \/ DispatchRaises(q)
                                  \/ AgentStarts(q) \/ AgentEnds(q) \/ CommitCancel(q)
          PROVE runOf' = runOf
      BY <3>2 DEF Dispatch, StartRun, PostRun, FailRun, DispatchRaises, AgentStarts,
                  AgentEnds, CommitCancel
    <3>3. ASSUME \/ Crash \/ UNCHANGED vars
                 \/ \E c \in Cancels : CancelRead(c) \/ CancelUpdate(c)
          PROVE runOf' = runOf
      BY <3>3 DEF Crash, CancelRead, CancelUpdate, vars
    <3> QED
      BY <1>1, <3>1, <3>2, <3>3 DEF Next
  <2> QED
    BY <2>1, <2>2
<1> QED
  BY <1>2, <1>3

\* A row stays active for as long as a cancel holds its lock.
LEMMA LockStep ==
  ASSUME TypeOK, NoRowYet, LockedActive, [Next]_vars
  PROVE  LockedActive'
<1> USE DEF TypeOK, LockedActive
<1>1. ASSUME NEW p \in Posts, Arrive(p) \/ Request(p) PROVE LockedActive'
  <2>1. CASE Insert(p)
    BY <2>1 DEF Insert, Respond, NoRowYet
  <2>2. CASE GatewayCancelUpdate(p)
    BY <2>2 DEF GatewayCancelUpdate, UpdateCancelled
  <2>3. CASE Arrive(p) \/ Check(p) \/ Find(p) \/ GatewayCancelRead(p)
    <3>1. status' = status /\ locked' = locked
      BY <2>3 DEF Arrive, Check, Find, GatewayCancelRead
    <3> QED
      BY <3>1
  <2> QED
    BY <1>1, <2>1, <2>2, <2>3 DEF Request
<1>2. ASSUME NEW p \in Posts, Dispatch(p) PROVE LockedActive'
  <2>1. CASE StartRun(p)
    BY <2>1 DEF StartRun
  <2>2. CASE PostRun(p)
    BY <2>2 DEF PostRun
  <2>3. CASE FailRun(p)
    BY <2>3 DEF FailRun
  <2> QED
    BY <1>2, <2>1, <2>2, <2>3 DEF Dispatch
<1>3. ASSUME NEW p \in Posts, DispatchRaises(p) \/ AgentStarts(p) \/ AgentEnds(p)
      PROVE LockedActive'
  <2>1. status' = status /\ locked' = locked
    BY <1>3 DEF DispatchRaises, AgentStarts, AgentEnds
  <2> QED
    BY <2>1
<1>4. ASSUME NEW p \in Posts, CommitCancel(p) PROVE LockedActive'
  BY <1>4 DEF CommitCancel
<1>5. ASSUME NEW c \in Cancels, CancelRead(c) \/ CancelUpdate(c) PROVE LockedActive'
  BY <1>5 DEF CancelRead, CancelUpdate, UpdateCancelled
<1>6. CASE Crash
  BY <1>6 DEF Crash
<1>7. CASE UNCHANGED vars
  BY <1>7 DEF vars
<1> QED
  BY <1>1, <1>2, <1>3, <1>4, <1>5, <1>6, <1>7 DEF Next

\* How the dispatch task of a request, its agent and its run change together.
TaskStep(p) ==
    \/ runOf'[p] = runOf[p] /\ disp'[p] = "none" /\ disp[p] = "none"
          /\ exec'[p] = exec[p]
    \/ /\ pc[p] \in {"find", "insert"} /\ disp'[p] = "start" /\ exec'[p] = exec[p]
       /\ \/ Find(p) /\ runOf'[p] \in SameKey(p)
          \/ Insert(p) /\ runOf'[p] = p /\ status'[p] = "pending"
    \/ runOf'[p] = runOf[p] /\ StartRun(p)
    \/ /\ runOf'[p] = runOf[p] /\ disp[p] # "none" /\ disp'[p] # "none"
       /\ disp'[p] \in {"post", "waiting"} => disp[p] \in {"post", "waiting"}
       /\ exec[p] = "none" => exec'[p] = "none" \/ disp[p] = "post"
    \/ /\ runOf'[p] = runOf[p] /\ disp'[p] = disp[p]
       /\ exec[p] = "none" => exec'[p] = "none"

USE DEF TaskStep

\* Every step is one of these.
LEMMA TaskSteps ==
  ASSUME TypeOK, NoRowYet, [Next]_vars, NEW p \in Posts
  PROVE  TaskStep(p)
<1> USE DEF TypeOK
<1>1. ASSUME UNCHANGED <<runOf, disp, exec>> PROVE TaskStep(p)
  BY <1>1
<1>2. ASSUME NEW q \in Posts, Arrive(q) \/ Request(q) PROVE TaskStep(p)
  <2>1. CASE Find(q)
    BY <2>1 DEF Find, Respond
  <2>2. CASE Insert(q)
    BY <2>2 DEF Insert, Respond
  <2>3. CASE Arrive(q) \/ Check(q) \/ GatewayCancelRead(q) \/ GatewayCancelUpdate(q)
    BY <1>1, <2>3 DEF Arrive, Check, GatewayCancelRead, GatewayCancelUpdate
  <2> QED
    BY <1>2, <2>1, <2>2, <2>3 DEF Request
<1>3. ASSUME NEW q \in Posts, Dispatch(q) PROVE TaskStep(p)
  <2>1. CASE StartRun(q)
    BY <2>1 DEF StartRun
  <2>2. CASE PostRun(q)
    BY <2>2 DEF PostRun
  <2>3. CASE FailRun(q)
    BY <2>3 DEF FailRun
  <2> QED
    BY <1>3, <2>1, <2>2, <2>3 DEF Dispatch
<1>4. ASSUME NEW q \in Posts, DispatchRaises(q) PROVE TaskStep(p)
  BY <1>4 DEF DispatchRaises
<1>5. ASSUME NEW q \in Posts, AgentStarts(q) \/ AgentEnds(q) PROVE TaskStep(p)
  BY <1>5 DEF AgentStarts, AgentEnds
<1>6. ASSUME \/ UNCHANGED vars \/ \E q \in Posts : CommitCancel(q)
             \/ \E c \in Cancels : CancelRead(c) \/ CancelUpdate(c)
      PROVE TaskStep(p)
  BY <1>1, <1>6 DEF vars, CommitCancel, CancelRead, CancelUpdate
<1>7. ASSUME Crash PROVE TaskStep(p)
  BY <1>7 DEF Crash
<1> QED
  BY <1>2, <1>3, <1>4, <1>5, <1>6, <1>7 DEF Next

\* A dispatch task keeps pointing at a row, and an agent comes from a task.
LEMMA RunHasRowStep ==
  ASSUME TypeOK, NoRowYet, LockedActive, RunHasRow, [Next]_vars
  PROVE  RunHasRow'
<1> SUFFICES ASSUME NEW p \in Posts
             PROVE  /\ runOf'[p] # NoRun => status'[runOf'[p]] # "none"
                    /\ disp'[p] # "none" => runOf'[p] # NoRun
                    /\ exec'[p] # "none" => disp'[p] # "none"
  BY DEF RunHasRow
<1>1. \A r \in Posts : status[r] # "none" => status'[r] # "none"
  BY RowSteps
<1>2. /\ runOf[p] # NoRun => status[runOf[p]] # "none"
      /\ disp[p] # "none" => runOf[p] # NoRun
      /\ exec[p] # "none" => disp[p] # "none"
  BY DEF RunHasRow
<1>3. runOf[p] \in Posts \cup {NoRun} /\ NoRun \notin Posts
  BY JobAssumption DEF TypeOK
<1>4. runOf'[p] = runOf[p] \/ (runOf'[p] \in Posts /\ status'[runOf'[p]] # "none")
  BY <1>1, TaskSteps DEF SameKey
<1>5. disp'[p] # "none" => runOf'[p] # NoRun
  BY <1>2, <1>3, TaskSteps DEF StartRun, SameKey
<1>6. exec'[p] # "none" => disp'[p] # "none"
  BY <1>2, TaskSteps DEF StartRun, TypeOK
<1> QED
  BY <1>1, <1>2, <1>3, <1>4, <1>5, <1>6

\* start_run comes before the POST, and no row goes back to pending.
LEMMA HandedOverStep ==
  ASSUME TypeOK, NoRowYet, LockedActive, RunHasRow, HandedOver, [Next]_vars
  PROVE  HandedOver'
<1> SUFFICES ASSUME NEW p \in Posts, disp'[p] \in {"post", "waiting"} \/ exec'[p] # "none"
             PROVE  status'[runOf'[p]] # "pending"
  BY DEF HandedOver
<1>1. \A r \in Posts : status[r] # "none" /\ status[r] # "pending" => status'[r] # "pending"
  BY RowSteps
<1>2. CASE StartRun(p)
  BY <1>2 DEF StartRun, TypeOK, RunHasRow
<1>3. CASE ~StartRun(p)
  <2>1. pc[p] \in {"find", "insert"} => exec[p] = "none"
    BY DEF NoRowYet, RunHasRow
  <2>2. /\ runOf'[p] = runOf[p]
        /\ disp[p] \in {"post", "waiting"} \/ exec[p] # "none"
    BY <1>3, <2>1, TaskSteps
  <2>3. runOf[p] \in Posts /\ status[runOf[p]] # "none" /\ status[runOf[p]] # "pending"
    BY <2>2 DEF HandedOver, RunHasRow, TypeOK
  <2> QED
    BY <1>1, <2>2, <2>3
<1> QED
  BY <1>2, <1>3

\* With one request of a thread at a time, the answer of the single-flight
\* check is still true at the INSERT: nothing else makes a run active.
LEMMA AloneStep ==
  ASSUME IInv, [Next]_vars, Serial
  PROVE  Alone' /\ OneActiveRun'
<1> USE DEF IInv
<1>1. ASSUME NEW r \in Posts, status'[r] \in Active
      PROVE status[r] \in Active \/ (Insert(r) /\ pc[r] = "insert")
  BY <1>1, RowSteps, PcSteps, InsertEnds
<1>2. ASSUME NEW p \in Posts, NEW q \in Posts, ThreadOf[p] = ThreadOf[q],
             pc'[p] \in InFlight, pc'[q] \in InFlight
      PROVE p = q
  <2>1. CASE Arrive(p)
    BY <1>2, <2>1, PcSteps DEF Arrive, TypeOK
  <2>2. CASE Arrive(q)
    BY <1>2, <2>2, PcSteps DEF Arrive, TypeOK
  <2> QED
    BY <1>2, <2>1, <2>2, PcSteps DEF Alone
<1>3. ASSUME NEW p \in Posts, NEW r \in Posts, pc'[p] \in {"find", "insert"},
             ThreadOf[r] = ThreadOf[p]
      PROVE status'[r] \notin Active
  <2>1. pc[p] \in InFlight
    BY <1>3, PcSteps DEF Check
  <2>2. status[r] \notin Active
    BY <1>3, PcSteps DEF Alone, ActiveRuns
  <2>3. ~Insert(r)
    BY <1>3, <2>1, PcSteps, InsertEnds DEF Alone
  <2> QED
    BY <1>1, <2>2, <2>3
<1>4. ASSUME NEW r1 \in Posts, NEW r2 \in Posts, ThreadOf[r1] = ThreadOf[r2],
             status'[r1] \in Active, status'[r2] \in Active
      PROVE r1 = r2
  BY <1>1, <1>4 DEF Alone, OneActiveRun
<1> QED
  BY <1>2, <1>3, <1>4 DEF Alone, OneActiveRun

\* The invariant holds initially and is kept by every step.
LEMMA Inductive == Spec => []IInv
<1>1. Init => IInv
  BY JobAssumption DEF Init, IInv, TypeOK, Aimed, NoRowYet, LockedActive, RunHasRow,
                       HandedOver, Alone, OneActiveRun
<1>2. IInv /\ [Next]_vars => IInv'
  BY TypeStep, NoRowStep, LockStep, RunHasRowStep, HandedOverStep, AloneStep DEF IInv
<1> QED
  BY <1>1, <1>2, PTL DEF Spec

\* Every reachable state of the job controller is well typed, for any requests,
\* threads, keys, restarts and failures.
THEOREM TypeCorrectness == Spec => []TypeOK
<1>1. IInv => TypeOK
  BY DEF IInv
<1> QED
  BY <1>1, Inductive, PTL

\* Single-flight: when the requests of a thread do not overlap, the thread never
\* has two active runs, whatever dispatch tasks, cancels, restarts and failures
\* do meanwhile.
THEOREM SingleFlight == ASSUME Serial PROVE Spec => []OneActiveRun
<1>1. IInv => OneActiveRun
  BY DEF IInv
<1> QED
  BY <1>1, Inductive, PTL

\* An agent works only for runs that exist and have left "pending".
THEOREM AgentsRunStartedRuns == Spec => []PendingRunHasNoAgent
<1>1. IInv => PendingRunHasNoAgent
  BY DEF IInv, RunHasRow, HandedOver, PendingRunHasNoAgent
<1> QED
  BY <1>1, Inductive, PTL

\* No run comes back to life: late dispatch tasks, failures and commits only
\* move a finished run to another final status.
THEOREM FinishedRunsStayFinished == Spec => FinalStaysFinal
<1>1. IInv /\ [Next]_vars => [\A r \in Posts : status[r] \in Final => status'[r] \in Final]_vars
  <2> SUFFICES ASSUME IInv, [Next]_vars, NEW r \in Posts, status[r] \in Final
               PROVE status'[r] \in Final
    OBVIOUS
  <2> QED
    BY RowSteps DEF IInv
<1> QED
  BY <1>1, Inductive, PTL DEF Spec, FinalStaysFinal

-----------------------------------------------------------------------------
(* LiveStream.                                                             *)

\* Of one execution, x was published before y.
Before(x, y) == x.exec = y.exec => x.n < y.n

Increasing(q) == \A i, j \in DOMAIN q : i < j => Before(q[i], q[j])
Ahead(S, T) == \A x \in S, y \in T : Before(x, y)

\* What has been published has a number that was given.
Published(ev) == ev \in Events /\ ev.n <= sent[ev.exec]

\* ns has all numbers from its first one up to n.
UpTo(ns, n) == \A a \in ns : a..n \subseteq ns
Contiguous(ns) == \A a, b \in ns : a..b \subseteq ns

\* The listener's channel holds the last events published, in their order.
ChannelOK ==
    /\ Increasing(channel)
    /\ \A ev \in ToSet(channel) : Published(ev)
    /\ \A e \in Execs : /\ agent[e] = "running" => sent[e] <= MaxDeltas
                        /\ breaks = 0 => UpTo(NumbersOf(e, ToSet(channel)), sent[e])

\* What a connection has is in order, and ahead of the channel.
InLine(s) ==
    /\ Increasing(got[s]) /\ Increasing(queue[s])
    /\ Ahead(ToSet(got[s]), ToSet(queue[s])) /\ Ahead(Come(s), ToSet(channel))

\* It is what was asked for, and nothing after a terminal event.
Filtered(s) ==
    /\ \A ev \in Come(s) : Published(ev) /\ ThreadOfEvent(ev) = OnThread[s]
    /\ \A ev \in ToSet(got[s]) : Passes(s, ev) /\ (stream[s] # "closed" => ev.kind = "delta")
    /\ \A i \in 1..Len(got[s])-1 : got[s][i].kind = "delta"
    /\ stream[s] = "new" => got[s] = <<>>

\* It is kept for an open stream, within the capacity.
Served(s) ==
    /\ s \in subs => stream[s] = "open"
    /\ Len(queue[s]) <= Capacity
    /\ stream[s] # "open" => queue[s] = <<>>

Wants(s, e) == Wanted[s] \in {AnyRun, RunOf[e]} /\ OnThread[s] = RunThread[RunOf[e]]

\* It has no gap, up to the last event as long as the connection is subscribed.
Gapless(s) ==
    \A e \in Execs : breaks = 0 /\ Wants(s, e) =>
        /\ Contiguous(NumbersOf(e, Come(s)))
        /\ s \in subs => UpTo(NumbersOf(e, Reach(s)), sent[e])

StreamOK(s) == InLine(s) /\ Filtered(s) /\ Served(s) /\ Gapless(s)

StreamInv == StreamTypeOK /\ ChannelOK /\ \A s \in Streams : StreamOK(s)

\* The elements of a sequence that gains one at the end.
LEMMA AppendSet ==
  ASSUME NEW S, NEW q \in Seq(S), NEW x \in S
  PROVE  ToSet(Append(q, x)) = ToSet(q) \cup {x}
<1>1. /\ Len(q) \in Nat /\ DOMAIN q = 1..Len(q) /\ DOMAIN Append(q, x) = 1..Len(q)+1
      /\ \A i \in 1..Len(q) : Append(q, x)[i] = q[i]
      /\ Append(q, x)[Len(q) + 1] = x
  OBVIOUS
<1>2. ToSet(Append(q, x)) = {Append(q, x)[i] : i \in 1..Len(q)+1}
  BY <1>1 DEF ToSet
<1>3. 1..Len(q)+1 = (1..Len(q)) \cup {Len(q) + 1}
  BY <1>1
<1>4. ToSet(q) = {q[i] : i \in 1..Len(q)}
  BY <1>1 DEF ToSet
<1> QED BY <1>1, <1>2, <1>3, <1>4

\* ... and of one that loses its first.
LEMMA TailSet ==
  ASSUME NEW S, NEW q \in Seq(S), q # <<>>
  PROVE  /\ Head(q) \in S /\ Tail(q) \in Seq(S)
         /\ ToSet(q) = {Head(q)} \cup ToSet(Tail(q))
<1>1. /\ Len(q) \in Nat /\ Len(q) > 0 /\ Tail(q) \in Seq(S) /\ Len(Tail(q)) = Len(q) - 1
      /\ Head(q) = q[1] /\ \A i \in 1..Len(q)-1 : Tail(q)[i] = q[i + 1]
  OBVIOUS
<1>2. DOMAIN q = 1..Len(q) /\ DOMAIN Tail(q) = 1..Len(q)-1
  BY <1>1
<1>3. \A i \in 1..Len(q) : i = 1 \/ (i - 1 \in 1..Len(q)-1 /\ i = (i - 1) + 1)
  BY <1>1
<1>4. \A i \in 1..Len(q)-1 : i + 1 \in 1..Len(q)
  BY <1>1
<1>5. ToSet(q) \subseteq {Head(q)} \cup ToSet(Tail(q))
  <2> SUFFICES ASSUME NEW i \in 1..Len(q) PROVE q[i] \in {Head(q)} \cup ToSet(Tail(q))
    BY <1>2 DEF ToSet
  <2>1. CASE i = 1
    BY <1>1, <2>1
  <2>2. CASE i # 1
    <3>1. i - 1 \in 1..Len(q)-1 /\ q[i] = Tail(q)[i - 1]
      BY <1>1, <1>3, <2>2
    <3> QED BY <1>2, <3>1 DEF ToSet
  <2> QED BY <2>1, <2>2
<1>6. {Head(q)} \cup ToSet(Tail(q)) \subseteq ToSet(q)
  BY <1>1, <1>2, <1>4 DEF ToSet
<1> QED BY <1>1, <1>5, <1>6

\* Order survives an append of something later.
LEMMA AppendIncreasing ==
  ASSUME NEW S, NEW q \in Seq(S), NEW x \in S, Increasing(q), Ahead(ToSet(q), {x})
  PROVE  Increasing(Append(q, x))
<1>1. /\ Len(q) \in Nat /\ DOMAIN q = 1..Len(q) /\ DOMAIN Append(q, x) = 1..Len(q)+1
      /\ \A i \in 1..Len(q) : Append(q, x)[i] = q[i]
      /\ Append(q, x)[Len(q) + 1] = x
  OBVIOUS
<1>2. \A i \in DOMAIN q : Before(q[i], x)
  BY DEF Ahead, ToSet
<1>3. SUFFICES ASSUME NEW i \in 1..Len(q)+1, NEW j \in 1..Len(q)+1, i < j
               PROVE  Before(Append(q, x)[i], Append(q, x)[j])
  BY <1>1 DEF Increasing
<1>4. i \in 1..Len(q)
  BY <1>1, <1>3
<1>5. CASE j = Len(q) + 1
  BY <1>1, <1>2, <1>4, <1>5
<1>6. CASE j # Len(q) + 1
  BY <1>1, <1>3, <1>4, <1>6 DEF Increasing
<1> QED BY <1>5, <1>6

\* ... and the loss of the first, which was ahead of the others.
LEMMA TailIncreasing ==
  ASSUME NEW S, NEW q \in Seq(S), q # <<>>, Increasing(q)
  PROVE  Increasing(Tail(q)) /\ Ahead({Head(q)}, ToSet(Tail(q)))
<1>1. /\ Len(q) \in Nat /\ Len(q) > 0 /\ Tail(q) \in Seq(S) /\ Len(Tail(q)) = Len(q) - 1
      /\ Head(q) = q[1] /\ \A i \in 1..Len(q)-1 : Tail(q)[i] = q[i + 1]
  OBVIOUS
<1>2. DOMAIN q = 1..Len(q) /\ DOMAIN Tail(q) = 1..Len(q)-1
  BY <1>1
<1>3. \A i, j \in 1..Len(q)-1 : i < j => i + 1 \in 1..Len(q) /\ j + 1 \in 1..Len(q) /\ i + 1 < j + 1
  BY <1>1
<1>4. Increasing(Tail(q))
  BY <1>1, <1>2, <1>3 DEF Increasing
<1>5. \A j \in 1..Len(q)-1 : 1 \in 1..Len(q) /\ j + 1 \in 1..Len(q) /\ 1 < j + 1
  BY <1>1
<1>6. Ahead({Head(q)}, ToSet(Tail(q)))
  BY <1>1, <1>2, <1>5 DEF Increasing, Ahead, ToSet
<1> QED BY <1>4, <1>6

LEMMA StreamTypeStep == StreamTypeOK /\ ChannelOK /\ [StreamNext]_streamVars => StreamTypeOK'
<1> SUFFICES ASSUME StreamTypeOK, ChannelOK, [StreamNext]_streamVars PROVE StreamTypeOK'
  OBVIOUS
<1> USE StreamAssumption DEF StreamTypeOK
<1>1. ASSUME NEW e \in Execs, NEW kind \in Kinds, agent[e] = "running", sent[e] <= MaxDeltas,
             Publish(e, kind)
      PROVE  channel' \in Seq(Events) /\ sent' \in [Execs -> 0..(MaxDeltas + 1)]
  <2>1. sent[e] + 1 \in 1..(MaxDeltas + 1) /\ sent[e] + 1 \in 0..(MaxDeltas + 1)
    BY <1>1
  <2>2. [exec |-> e, n |-> sent[e] + 1, kind |-> kind] \in Events
    BY <1>1, <2>1 DEF Events
  <2> QED BY <1>1, <2>1, <2>2 DEF Publish
<1>2. ASSUME NEW e \in Execs, Delta(e) PROVE StreamTypeOK'
  BY <1>1, <1>2 DEF Delta, Kinds
<1>3. ASSUME NEW e \in Execs, Finish(e) PROVE StreamTypeOK'
  <2>1. PICK kind \in Terminal : Publish(e, kind) /\ agent' = [agent EXCEPT ![e] = kind]
    BY <1>3 DEF Finish
  <2>2. kind \in Kinds /\ agent[e] = "running" /\ sent[e] <= MaxDeltas
    BY <1>3 DEF Finish, Terminal, Kinds, ChannelOK
  <2>3. channel' \in Seq(Events) /\ sent' \in [Execs -> 0..(MaxDeltas + 1)]
    BY <1>1, <2>1, <2>2
  <2> QED BY <1>3, <2>1, <2>3 DEF Finish, Terminal
<1>4. ASSUME NEW e \in Execs, Lose(e) PROVE StreamTypeOK'
  BY <1>4 DEF Lose
<1>5. ASSUME NEW s \in Streams, Connect(s) PROVE StreamTypeOK'
  BY <1>5 DEF Connect
<1>6. ASSUME NEW s \in Streams, Emit(s) PROVE StreamTypeOK'
  <2>1. Head(queue[s]) \in Events /\ Tail(queue[s]) \in Seq(Events) /\ <<>> \in Seq(Events)
    BY <1>6, TailSet DEF Emit
  <2>2. Append(got[s], Head(queue[s])) \in Seq(Events)
    BY <2>1
  <2>3. /\ \/ got' = got
           \/ got' = [got EXCEPT ![s] = Append(got[s], Head(queue[s]))]
        /\ \/ queue' = [queue EXCEPT ![s] = Tail(queue[s])] /\ UNCHANGED <<stream, subs>>
           \/ Close(s)
        /\ UNCHANGED <<agent, sent, breaks, channel>>
    BY <1>6 DEF Emit
  <2>4. got' \in [Streams -> Seq(Events)]
    BY <2>2, <2>3
  <2>5. /\ queue' \in [Streams -> Seq(Events)] /\ subs' \subseteq Streams
        /\ stream' \in [Streams -> {"new", "open", "closed"}]
    <3>1. CASE queue' = [queue EXCEPT ![s] = Tail(queue[s])] /\ UNCHANGED <<stream, subs>>
      BY <2>1, <3>1
    <3>2. CASE Close(s)
      BY <2>1, <3>2 DEF Close
    <3> QED BY <2>3, <3>1, <3>2
  <2> QED BY <2>3, <2>4, <2>5
<1>7. ASSUME NEW s \in Streams, Disconnect(s) PROVE StreamTypeOK'
  BY <1>7 DEF Disconnect, Close
<1>8. CASE Listen
  <2>1. Head(channel) \in Events /\ Tail(channel) \in Seq(Events)
    BY <1>8, TailSet DEF Listen
  <2>2. \A s \in Streams : Append(queue[s], Head(channel)) \in Seq(Events)
    BY <2>1
  <2> QED BY <1>8, <2>1, <2>2 DEF Listen, Broadcast
<1>9. CASE Reconnect
  BY <1>9 DEF Reconnect
<1>10. CASE UNCHANGED streamVars
  BY <1>10 DEF streamVars
<1> QED BY <1>2, <1>3, <1>4, <1>5, <1>6, <1>7, <1>8, <1>9, <1>10 DEF StreamNext

\* The numbers of a set with one event more.
LEMMA NumbersAdd ==
  ASSUME NEW e, NEW S, NEW ev
  PROVE  /\ ev.exec = e => NumbersOf(e, S \cup {ev}) = NumbersOf(e, S) \cup {ev.n}
         /\ ev.exec # e => NumbersOf(e, S \cup {ev}) = NumbersOf(e, S)
BY DEF NumbersOf

\* What reached n reaches n + 1 with it.
LEMMA UpToNext ==
  ASSUME NEW n \in Nat, NEW ns, UpTo(ns, n), \A a \in ns : a \in Nat /\ a <= n
  PROVE  /\ UpTo(ns \cup {n + 1}, n + 1)
         /\ \A a \in ns \cup {n + 1} : a <= n + 1
<1>1. SUFFICES ASSUME NEW a \in ns \cup {n + 1} PROVE a..n+1 \subseteq ns \cup {n + 1} /\ a <= n + 1
  BY DEF UpTo
<1>2. CASE a = n + 1
  BY <1>2
<1>3. CASE a # n + 1
  <2>1. a..n \subseteq ns /\ a \in Nat /\ a <= n
    BY <1>1, <1>3 DEF UpTo
  <2>2. \A b \in a..n+1 : b = n + 1 \/ b \in a..n
    BY <2>1
  <2>3. a <= n + 1
    BY <2>1
  <2> QED BY <2>1, <2>2, <2>3
<1> QED BY <1>2, <1>3

\* An event that is published is behind all others.
LEMMA PublishStep ==
  ASSUME StreamInv, NEW e \in Execs, NEW kind \in Kinds, sent[e] <= MaxDeltas,
         Publish(e, kind),
         agent'[e] = "running" => sent[e] < MaxDeltas,
         \A x \in Execs : x # e => agent'[x] = agent[x],
         UNCHANGED <<breaks, stream, subs, queue, got>>
  PROVE  ChannelOK' /\ \A s \in Streams : StreamOK(s)'
<1>0. /\ StreamTypeOK /\ ChannelOK /\ \A s \in Streams : StreamOK(s)
      /\ MaxDeltas \in Nat /\ sent \in [Execs -> Nat] /\ channel \in Seq(Events)
  BY StreamAssumption DEF StreamInv, StreamTypeOK
<1>1. PICK ev \in Events : /\ ev.exec = e /\ ev.n = sent[e] + 1
                           /\ channel' = Append(channel, ev)
                           /\ sent' = [sent EXCEPT ![e] = sent[e] + 1]
  <2>1. [exec |-> e, n |-> sent[e] + 1, kind |-> kind] \in Events
    BY <1>0 DEF Events
  <2> QED BY <1>0, <2>1 DEF Publish
<1>2. /\ ToSet(channel') = ToSet(channel) \cup {ev}
      /\ \A s \in Streams : Come(s)' = Come(s) /\ Reach(s)' = Reach(s) \cup {ev}
  BY <1>0, <1>1, AppendSet DEF Come, Reach
<1>3. /\ \A x \in Execs : sent'[x] \in Nat /\ sent[x] <= sent'[x] /\ (x # e => sent'[x] = sent[x])
      /\ sent'[e] = sent[e] + 1
  BY <1>0, <1>1
<1>4. /\ \A x : Published(x) => Published(x)' /\ Before(x, ev)
      /\ ev \in Events /\ ev.n <= sent'[ev.exec]
  BY <1>0, <1>1, <1>3 DEF Published, Events, Before
<1>5. ASSUME NEW x \in Execs, NEW S, UpTo(NumbersOf(x, S), sent[x]), \A y \in S : Published(y)
      PROVE  UpTo(NumbersOf(x, S \cup {ev}), sent'[x])
  <2>1. \A a \in NumbersOf(x, S) : a \in Nat /\ a <= sent[x]
    BY <1>5 DEF NumbersOf, Published, Events
  <2>2. CASE x = e
    <3>1. NumbersOf(x, S \cup {ev}) = NumbersOf(x, S) \cup {sent[e] + 1}
      BY <1>1, <2>2, NumbersAdd
    <3>2. sent'[x] = sent[e] + 1 /\ sent[e] \in Nat
      BY <1>0, <1>3, <2>2
    <3> QED BY <1>5, <2>1, <2>2, <3>1, <3>2, UpToNext
  <2>3. CASE x # e
    BY <1>1, <1>3, <1>5, <2>3, NumbersAdd
  <2> QED BY <2>2, <2>3
<1>6. ChannelOK'
  <2>1. Increasing(channel')
    BY <1>0, <1>1, <1>4, AppendIncreasing DEF ChannelOK, Ahead
  <2>2. \A x \in ToSet(channel') : Published(x)'
    BY <1>0, <1>2, <1>4 DEF ChannelOK, Published
  <2>3. \A x \in Execs : agent'[x] = "running" => sent'[x] <= MaxDeltas
    BY <1>0, <1>3 DEF ChannelOK
  <2>4. \A x \in Execs : breaks' = 0 => UpTo(NumbersOf(x, ToSet(channel')), sent'[x])
    BY <1>0, <1>2, <1>5 DEF ChannelOK
  <2> QED BY <2>1, <2>2, <2>3, <2>4 DEF ChannelOK
<1>7. ASSUME NEW s \in Streams PROVE StreamOK(s)'
  <2>0. InLine(s) /\ Filtered(s) /\ Served(s) /\ Gapless(s)
    BY <1>0 DEF StreamOK
  <2>1. InLine(s)'
    BY <1>2, <1>4, <2>0 DEF InLine, Filtered, Ahead
  <2>2. Filtered(s)'
    BY <1>2, <1>4, <2>0 DEF Filtered, Passes, ThreadOfEvent
  <2>3. Served(s)'
    BY <2>0 DEF Served
  <2>4. Gapless(s)'
    <3>1. \A x \in Reach(s) : Published(x)
      BY <1>0, <2>0 DEF Reach, Filtered, ChannelOK
    <3> QED BY <1>2, <1>5, <2>0, <3>1 DEF Gapless, Wants
  <2> QED BY <2>1, <2>2, <2>3, <2>4 DEF StreamOK
<1> QED BY <1>6, <1>7

\* The part of a contiguous set that is ahead of the rest is contiguous.
LEMMA FirstPart ==
  ASSUME NEW e, NEW S, NEW T, Ahead(S, T), \A x \in S \cup T : x.n \in Nat,
         Contiguous(NumbersOf(e, S \cup T))
  PROVE  Contiguous(NumbersOf(e, S))
<1> SUFFICES ASSUME NEW a \in NumbersOf(e, S), NEW b \in NumbersOf(e, S), NEW c \in a..b
             PROVE  c \in NumbersOf(e, S)
  BY DEF Contiguous
<1>1. PICK y \in S : y.exec = e /\ y.n = b
  BY DEF NumbersOf
<1>2. a \in NumbersOf(e, S \cup T) /\ b \in NumbersOf(e, S \cup T)
  BY DEF NumbersOf
<1>3. PICK z \in S \cup T : z.exec = e /\ z.n = c
  BY <1>2 DEF NumbersOf, Contiguous
<1>4. CASE z \in S
  BY <1>3, <1>4 DEF NumbersOf
<1>5. CASE z \in T
  <2>1. b < c
    BY <1>1, <1>3, <1>5 DEF Ahead, Before
  <2>2. a \in Nat /\ b \in Nat
    BY DEF NumbersOf
  <2> QED BY <2>1, <2>2
<1> QED BY <1>3, <1>4, <1>5

\* ... and what follows its first reaches as far as all did.
LEMMA LastPart ==
  ASSUME NEW e, NEW h, NEW T, Ahead({h}, T), \A x \in {h} \cup T : x.n \in Nat, NEW n \in Nat,
         UpTo(NumbersOf(e, {h} \cup T), n)
  PROVE  UpTo(NumbersOf(e, T), n)
<1> SUFFICES ASSUME NEW a \in NumbersOf(e, T), NEW c \in a..n
             PROVE  c \in NumbersOf(e, T)
  BY DEF UpTo
<1>1. PICK y \in T : y.exec = e /\ y.n = a
  BY DEF NumbersOf
<1>2. a \in NumbersOf(e, {h} \cup T) /\ a \in Nat
  BY DEF NumbersOf
<1>3. PICK z \in {h} \cup T : z.exec = e /\ z.n = c
  BY <1>2 DEF NumbersOf, UpTo
<1>4. CASE z \in T
  BY <1>3, <1>4 DEF NumbersOf
<1>5. CASE z = h
  <2>1. c < a
    BY <1>1, <1>3, <1>5 DEF Ahead, Before
  <2> QED BY <1>2, <2>1
<1> QED BY <1>3, <1>4, <1>5

\* A step that touches neither the channel nor a connection keeps what they hold.
LEMMA Untouched ==
  ASSUME StreamInv, NEW s \in Streams, UNCHANGED <<sent, breaks, channel>>,
         stream'[s] = stream[s], s \in subs' <=> s \in subs, queue'[s] = queue[s], got'[s] = got[s]
  PROVE  StreamOK(s)'
<1>0. InLine(s) /\ Filtered(s) /\ Served(s) /\ Gapless(s)
  BY DEF StreamInv, StreamOK
<1>1. Come(s)' = Come(s) /\ Reach(s)' = Reach(s)
  BY DEF Come, Reach
<1>2. InLine(s)'
  BY <1>0, <1>1 DEF InLine
<1>3. Filtered(s)'
  BY <1>0, <1>1 DEF Filtered, Passes, ThreadOfEvent, Published
<1>4. Served(s)'
  BY <1>0 DEF Served
<1>5. Gapless(s)'
  BY <1>0, <1>1 DEF Gapless, Wants
<1> QED BY <1>2, <1>3, <1>4, <1>5 DEF StreamOK

\* A client that connects has nothing yet.
LEMMA ConnectStep ==
  ASSUME StreamInv, NEW s \in Streams, Connect(s)
  PROVE  StreamOK(s)'
<1>0. InLine(s) /\ Filtered(s) /\ Served(s) /\ Gapless(s) /\ ChannelOK /\ StreamTypeOK
  BY DEF StreamInv, StreamOK
<1>1. /\ stream[s] = "new" /\ stream'[s] = "open" /\ got'[s] = <<>> /\ queue'[s] = <<>>
      /\ UNCHANGED <<got, queue, sent, breaks, channel>>
  BY <1>0 DEF Connect, StreamTypeOK, Filtered, Served
<1>2. Come(s)' = {} /\ Reach(s)' = ToSet(channel)
  BY <1>1 DEF Come, Reach, ToSet
<1>3. InLine(s)'
  BY <1>0, <1>1, <1>2 DEF InLine, Ahead
<1>4. Filtered(s)'
  BY <1>0, <1>1, <1>2 DEF Filtered, Come
<1>5. Served(s)'
  BY <1>0, <1>1, StreamAssumption DEF Served
<1>6. Gapless(s)'
  <2>1. \A e : NumbersOf(e, {}) = {}
    BY DEF NumbersOf
  <2> QED BY <1>0, <1>1, <1>2, <2>1 DEF Gapless, Contiguous, ChannelOK
<1> QED BY <1>3, <1>4, <1>5, <1>6 DEF StreamOK

\* A stream that is closed keeps what its client has got.
LEMMA CloseStep ==
  ASSUME StreamInv, NEW s \in Streams, Close(s), UNCHANGED <<sent, breaks, channel>>, stream[s] = "open",
         \/ got' = got
         \/ /\ queue[s] # <<>> /\ got' = [got EXCEPT ![s] = Append(got[s], Head(queue[s]))]
            /\ Passes(s, Head(queue[s]))
  PROVE  StreamOK(s)'
<1>0. InLine(s) /\ Filtered(s) /\ Served(s) /\ Gapless(s) /\ ChannelOK /\ StreamTypeOK
  BY DEF StreamInv, StreamOK
<1>1. /\ stream'[s] = "closed" /\ queue'[s] = <<>> /\ s \notin subs' /\ got[s] \in Seq(Events)
      /\ got'[s] \in Seq(Events) /\ queue[s] \in Seq(Events)
  <2>1. got[s] \in Seq(Events) /\ queue[s] \in Seq(Events)
    BY <1>0 DEF StreamTypeOK
  <2>2. queue[s] # <<>> => Append(got[s], Head(queue[s])) \in Seq(Events)
    BY <2>1, TailSet
  <2>3. got'[s] \in Seq(Events)
    BY <1>0, <2>1, <2>2 DEF StreamTypeOK
  <2> QED BY <1>0, <2>1, <2>3 DEF Close, StreamTypeOK
<1>2. /\ Increasing(got'[s])
      /\ \A i \in 1..Len(got'[s])-1 : got'[s][i].kind = "delta"
      /\ \A x \in ToSet(got'[s]) : Passes(s, x)
      /\ \E T : Come(s) = ToSet(got'[s]) \cup T /\ Ahead(ToSet(got'[s]), T)
  <2>1. CASE got' = got
    BY <1>0, <2>1 DEF InLine, Filtered, Come
  <2>2. CASE got' # got
    <3> DEFINE ev == Head(queue[s])  rest == Tail(queue[s])
    <3>1. /\ got'[s] = Append(got[s], ev) /\ Passes(s, ev) /\ queue[s] # <<>>
          /\ ev \in Events /\ ToSet(queue[s]) = {ev} \cup ToSet(rest)
      BY <1>0, <1>1, <2>2, TailSet DEF StreamTypeOK
    <3>2. Ahead({ev}, ToSet(rest))
      BY <1>0, <1>1, <3>1, TailIncreasing DEF InLine
    <3> HIDE DEF ev, rest
    <3>3. ToSet(got'[s]) = ToSet(got[s]) \cup {ev}
      BY <1>1, <3>1, AppendSet
    <3>4. Increasing(got'[s])
      BY <1>0, <1>1, <3>1, AppendIncreasing DEF InLine, Ahead
    <3>5. Come(s) = ToSet(got'[s]) \cup ToSet(rest) /\ Ahead(ToSet(got'[s]), ToSet(rest))
      BY <1>0, <3>1, <3>2, <3>3 DEF Come, InLine, Ahead
    <3>6. \A x \in ToSet(got'[s]) : Passes(s, x)
      BY <1>0, <3>1, <3>3 DEF Filtered
    <3>7. \A i \in 1..Len(got'[s])-1 : got'[s][i].kind = "delta"
      <4>1. /\ Len(got'[s])-1 = Len(got[s]) /\ DOMAIN got[s] = 1..Len(got[s])
            /\ \A i \in 1..Len(got[s]) : got'[s][i] = got[s][i]
        BY <1>1, <3>1
      <4> QED BY <1>0, <4>1 DEF Filtered, ToSet
    <3> QED BY <3>4, <3>5, <3>6, <3>7
  <2> QED BY <2>1, <2>2
<1>3. Come(s)' = ToSet(got'[s]) /\ ToSet(<<>>) = {}
  BY <1>1 DEF Come, ToSet
<1>4. InLine(s)'
  BY <1>0, <1>1, <1>2, <1>3 DEF InLine, Ahead, Increasing
<1>5. Filtered(s)'
  BY <1>0, <1>1, <1>2, <1>3 DEF Filtered, Passes, ThreadOfEvent, Published
<1>6. Served(s)'
  BY <1>1, StreamAssumption DEF Served
<1>7. Gapless(s)'
  <2>1. PICK T : Come(s) = ToSet(got'[s]) \cup T /\ Ahead(ToSet(got'[s]), T)
    BY <1>2
  <2>2. \A x \in Come(s) : x.n \in Nat
    BY <1>0 DEF Filtered, Published, Events
  <2> QED BY <1>0, <1>1, <1>3, <2>1, <2>2, FirstPart DEF Gapless, Wants
<1> QED BY <1>4, <1>5, <1>6, <1>7 DEF StreamOK

\* stream_events takes an event: it skips it, sends it, or ends with it.
LEMMA EmitStep ==
  ASSUME StreamInv, NEW s \in Streams, Emit(s)
  PROVE  StreamOK(s)'
<1> DEFINE ev == Head(queue[s])  rest == Tail(queue[s])
<1>0. InLine(s) /\ Filtered(s) /\ Served(s) /\ Gapless(s) /\ ChannelOK /\ StreamTypeOK
  BY DEF StreamInv, StreamOK
<1>1. /\ stream[s] = "open" /\ queue[s] # <<>> /\ UNCHANGED <<sent, breaks, channel>>
      /\ got[s] \in Seq(Events) /\ queue[s] \in Seq(Events)
  BY <1>0 DEF Emit, StreamTypeOK
<1>2. /\ ev \in Events /\ rest \in Seq(Events) /\ ToSet(queue[s]) = {ev} \cup ToSet(rest)
      /\ Increasing(rest) /\ Ahead({ev}, ToSet(rest)) /\ Len(rest) <= Capacity
  <2>1. Len(rest) <= Len(queue[s]) /\ Len(rest) \in Nat /\ Len(queue[s]) \in Nat
    BY <1>1
  <2>2. Len(rest) <= Capacity
    BY <1>0, <2>1, StreamAssumption DEF Served
  <2> QED BY <1>0, <1>1, <2>2, TailSet, TailIncreasing DEF InLine
<1>3. CASE Passes(s, ev) /\ ev.kind \in Terminal
  <2>1. Close(s) /\ got' = [got EXCEPT ![s] = Append(got[s], ev)]
    BY <1>3 DEF Emit
  <2> QED BY <1>1, <1>3, <2>1, CloseStep
<1>4. CASE ~Passes(s, ev)
  <2>1. /\ got' = got /\ queue'[s] = rest /\ UNCHANGED <<stream, subs>>
    BY <1>0, <1>4 DEF Emit, StreamTypeOK
  <2> HIDE DEF ev, rest
  <2>2. Come(s) = Come(s)' \cup {ev} /\ Reach(s) = Reach(s)' \cup {ev}
    BY <1>1, <1>2, <2>1 DEF Come, Reach
  <2>3. InLine(s)'
    BY <1>0, <1>1, <1>2, <2>1, <2>2 DEF InLine, Ahead
  <2>4. Filtered(s)'
    BY <1>0, <1>1, <2>1, <2>2 DEF Filtered, Passes, ThreadOfEvent, Published
  <2>5. Served(s)'
    BY <1>0, <1>1, <1>2, <2>1 DEF Served
  <2>6. ASSUME NEW e \in Execs, Wants(s, e)
        PROVE  /\ NumbersOf(e, Come(s)) = NumbersOf(e, Come(s)')
               /\ NumbersOf(e, Reach(s)) = NumbersOf(e, Reach(s)')
    <3>1. ev.exec # e
      BY <1>4, <2>6 DEF Wants, Passes
    <3> QED BY <2>2, <3>1, NumbersAdd
  <2>7. Gapless(s)'
    BY <1>0, <1>1, <2>1, <2>6 DEF Gapless, Wants
  <2> QED BY <2>3, <2>4, <2>5, <2>7 DEF StreamOK
<1>5. CASE Passes(s, ev) /\ ev.kind \notin Terminal
  <2>1. /\ got'[s] = Append(got[s], ev) /\ queue'[s] = rest /\ UNCHANGED <<stream, subs>>
    BY <1>0, <1>5 DEF Emit, StreamTypeOK
  <2>2. ev.kind = "delta"
    BY <1>2, <1>5 DEF Events, Kinds, Terminal
  <2> HIDE DEF ev, rest
  <2>3. ToSet(got'[s]) = ToSet(got[s]) \cup {ev}
    BY <1>1, <1>2, <2>1, AppendSet
  <2>4. Come(s) = Come(s)' /\ Reach(s) = Reach(s)'
    BY <1>1, <1>2, <2>1, <2>3 DEF Come, Reach
  <2>5. InLine(s)'
    <3>1. Increasing(got'[s])
      BY <1>0, <1>1, <1>2, <2>1, AppendIncreasing DEF InLine, Ahead
    <3> QED BY <1>0, <1>1, <1>2, <2>1, <2>3, <2>4, <3>1 DEF InLine, Ahead
  <2>6. Filtered(s)'
    <3>1. /\ Len(got'[s])-1 = Len(got[s]) /\ DOMAIN got[s] = 1..Len(got[s])
          /\ \A i \in 1..Len(got[s]) : got'[s][i] = got[s][i]
      BY <1>1, <2>1
    <3>2. \A i \in 1..Len(got'[s])-1 : got'[s][i].kind = "delta"
      BY <1>0, <1>1, <3>1 DEF Filtered, ToSet
    <3> QED BY <1>0, <1>1, <1>5, <2>1, <2>2, <2>3, <2>4, <3>2
            DEF Filtered, Passes, ThreadOfEvent, Published
  <2>7. Served(s)'
    BY <1>0, <1>1, <1>2, <2>1 DEF Served
  <2>8. Gapless(s)'
    BY <1>0, <1>1, <2>1, <2>4 DEF Gapless, Wants
  <2> QED BY <2>5, <2>6, <2>7, <2>8 DEF StreamOK
<1> QED BY <1>3, <1>4, <1>5

\* The listener takes an event: each connection gains it, is not concerned, or is
\* no more subscribed.
LEMMA ListenStep ==
  ASSUME StreamInv, Listen
  PROVE  ChannelOK' /\ \A s \in Streams : StreamOK(s)'
<1> DEFINE ev == Head(channel)  rest == Tail(channel)
<1>0. /\ StreamTypeOK /\ ChannelOK /\ \A s \in Streams : StreamOK(s)
      /\ channel \in Seq(Events) /\ channel # <<>> /\ Capacity \in Nat
      /\ UNCHANGED <<agent, sent, breaks, stream, got>>
  BY StreamAssumption DEF StreamInv, StreamTypeOK, Listen
<1>1. /\ ev \in Events /\ rest \in Seq(Events) /\ ToSet(channel) = {ev} \cup ToSet(rest)
      /\ Increasing(rest) /\ Ahead({ev}, ToSet(rest)) /\ channel' = rest
  BY <1>0, TailSet, TailIncreasing DEF ChannelOK, Listen
<1>2. ASSUME NEW s \in Streams
      PROVE  \/ /\ queue'[s] = Append(queue[s], ev) /\ s \in subs /\ s \in subs'
                /\ OnThread[s] = ThreadOfEvent(ev) /\ Len(queue[s]) # Capacity
             \/ /\ queue'[s] = queue[s]
                /\ s \in subs' => s \in subs /\ OnThread[s] # ThreadOfEvent(ev)
  BY <1>0 DEF Listen, Broadcast, StreamTypeOK
<1> HIDE DEF ev, rest
<1>3. ChannelOK'
  <2>1. ASSUME NEW e \in Execs, breaks = 0 PROVE UpTo(NumbersOf(e, ToSet(rest)), sent[e])
    <3>1. UpTo(NumbersOf(e, ToSet(channel)), sent[e])
      BY <1>0, <2>1 DEF ChannelOK
    <3>2. sent[e] \in Nat
      BY <1>0, StreamAssumption DEF StreamTypeOK
    <3>3. \A x \in {ev} \cup ToSet(rest) : x.n \in Nat
      BY <1>0, <1>1 DEF ChannelOK, Published, Events
    <3> QED BY <1>1, <3>1, <3>2, <3>3, LastPart
  <2>2. \A x \in ToSet(rest) : Published(x)
    BY <1>0, <1>1 DEF ChannelOK
  <2> QED BY <1>0, <1>1, <2>1, <2>2 DEF ChannelOK, Published
<1>4. ASSUME NEW s \in Streams PROVE StreamOK(s)'
  <2>0. InLine(s) /\ Filtered(s) /\ Served(s) /\ Gapless(s) /\ queue[s] \in Seq(Events)
    BY <1>0 DEF StreamOK, StreamTypeOK
  <2>1. CASE queue'[s] = Append(queue[s], ev) /\ s \in subs /\ s \in subs'
             /\ OnThread[s] = ThreadOfEvent(ev) /\ Len(queue[s]) # Capacity
    <3>1. ToSet(queue'[s]) = ToSet(queue[s]) \cup {ev}
      BY <1>1, <2>0, <2>1, AppendSet
    <3>2. Come(s)' = Come(s) \cup {ev} /\ Reach(s)' = Reach(s) /\ Reach(s) = Come(s)' \cup ToSet(rest)
      BY <1>0, <1>1, <3>1 DEF Come, Reach
    <3>3. Ahead(Come(s)', ToSet(rest))
      BY <1>1, <2>0, <3>2 DEF InLine, Ahead
    <3>4. InLine(s)'
      <4>1. Increasing(queue'[s])
        BY <1>1, <2>0, <2>1, AppendIncreasing DEF InLine, Ahead, Come
      <4>2. Ahead(ToSet(got[s]), ToSet(queue'[s]))
        BY <1>1, <2>0, <3>1 DEF InLine, Ahead, Come
      <4> QED BY <1>0, <1>1, <2>0, <3>3, <4>1, <4>2 DEF InLine
    <3>5. Filtered(s)'
      BY <1>0, <1>1, <2>0, <2>1, <3>2 DEF Filtered, ChannelOK, Passes, ThreadOfEvent, Published
    <3>6. Served(s)'
      BY <1>0, <2>0, <2>1 DEF Served
    <3>7. ASSUME NEW e \in Execs, breaks = 0, Wants(s, e) PROVE Contiguous(NumbersOf(e, Come(s)'))
      <4>1. UpTo(NumbersOf(e, Reach(s)), sent[e])
        BY <2>0, <2>1, <3>7 DEF Gapless
      <4>2. \A x \in Reach(s) : Published(x)
        BY <1>0, <2>0 DEF Reach, Filtered, ChannelOK
      <4>3. Contiguous(NumbersOf(e, Reach(s)))
        <5>1. \A a \in NumbersOf(e, Reach(s)) : a \in Nat /\ a <= sent[e]
          BY <4>2 DEF NumbersOf, Published, Events
        <5>2. sent[e] \in Nat
          BY <1>0, StreamAssumption DEF StreamTypeOK
        <5>3. \A a, b \in NumbersOf(e, Reach(s)) : a..b \subseteq a..sent[e]
          BY <5>1, <5>2
        <5> QED BY <4>1, <5>3 DEF UpTo, Contiguous
      <4>4. \A x \in Come(s)' \cup ToSet(rest) : x.n \in Nat
        BY <3>2, <4>2 DEF Published, Events
      <4> QED BY <3>2, <3>3, <4>3, <4>4, FirstPart
    <3>8. Gapless(s)'
      BY <1>0, <2>0, <2>1, <3>2, <3>7 DEF Gapless, Wants
    <3> QED BY <3>4, <3>5, <3>6, <3>8 DEF StreamOK
  <2>2. CASE /\ queue'[s] = queue[s]
             /\ s \in subs' => s \in subs /\ OnThread[s] # ThreadOfEvent(ev)
    <3>1. Come(s)' = Come(s) /\ Reach(s) = Reach(s)' \cup {ev}
      BY <1>0, <1>1, <2>2 DEF Come, Reach
    <3>2. InLine(s)'
      BY <1>0, <1>1, <2>0, <2>2, <3>1 DEF InLine, Ahead
    <3>3. Filtered(s)'
      BY <1>0, <2>0, <3>1 DEF Filtered, Passes, ThreadOfEvent, Published
    <3>4. Served(s)'
      BY <1>0, <2>0, <2>2 DEF Served
    <3>5. ASSUME NEW e \in Execs, Wants(s, e), s \in subs'
          PROVE  NumbersOf(e, Reach(s)) = NumbersOf(e, Reach(s)')
      <4>1. ev.exec # e
        BY <2>2, <3>5 DEF Wants, ThreadOfEvent
      <4> QED BY <3>1, <4>1, NumbersAdd
    <3>6. Gapless(s)'
      BY <1>0, <2>0, <2>2, <3>1, <3>5 DEF Gapless, Wants
    <3> QED BY <3>2, <3>3, <3>4, <3>6 DEF StreamOK
  <2> QED BY <1>2, <2>1, <2>2
<1> QED BY <1>3, <1>4

\* A broken connection loses what is on the way, and the promise of no gaps.
LEMMA ReconnectStep ==
  ASSUME StreamInv, Reconnect
  PROVE  ChannelOK' /\ \A s \in Streams : StreamOK(s)'
<1>0. /\ StreamTypeOK /\ ChannelOK /\ \A s \in Streams : StreamOK(s)
      /\ channel' = <<>> /\ UNCHANGED <<agent, sent, stream, subs, queue, got>>
  BY DEF StreamInv, Reconnect
<1>1. breaks' # 0
  BY <1>0, StreamAssumption DEF StreamTypeOK, Reconnect
<1>2. ToSet(channel') = {}
  BY <1>0 DEF ToSet
<1>3. ChannelOK'
  BY <1>0, <1>1, <1>2 DEF ChannelOK, Increasing
<1>4. ASSUME NEW s \in Streams PROVE StreamOK(s)'
  <2>0. InLine(s) /\ Filtered(s) /\ Served(s) /\ Gapless(s)
    BY <1>0 DEF StreamOK
  <2>1. Come(s)' = Come(s)
    BY <1>0 DEF Come
  <2>2. InLine(s)'
    BY <1>0, <1>2, <2>0, <2>1 DEF InLine, Ahead
  <2>3. Filtered(s)'
    BY <1>0, <2>0, <2>1 DEF Filtered, Passes, ThreadOfEvent, Published
  <2>4. Served(s)' /\ Gapless(s)'
    BY <1>0, <1>1, <2>0 DEF Served, Gapless
  <2> QED BY <2>2, <2>3, <2>4 DEF StreamOK
<1> QED BY <1>3, <1>4

LEMMA StreamStep == StreamInv /\ [StreamNext]_streamVars => StreamInv'
<1> SUFFICES ASSUME StreamInv, [StreamNext]_streamVars PROVE StreamInv'
  OBVIOUS
<1>0. StreamTypeOK /\ ChannelOK
  BY DEF StreamInv
<1>1. StreamTypeOK'
  BY <1>0, StreamTypeStep
<1>2. ASSUME NEW e \in Execs, Delta(e) PROVE ChannelOK' /\ \A s \in Streams : StreamOK(s)'
  <2>1. /\ Publish(e, "delta") /\ "delta" \in Kinds /\ sent[e] < MaxDeltas
        /\ UNCHANGED <<agent, breaks, stream, subs, queue, got>>
    BY <1>2 DEF Delta, Kinds
  <2>2. sent[e] <= MaxDeltas
    BY <1>0, <2>1, StreamAssumption DEF StreamTypeOK
  <2> QED BY <2>1, <2>2, PublishStep
<1>3. ASSUME NEW e \in Execs, Finish(e) PROVE ChannelOK' /\ \A s \in Streams : StreamOK(s)'
  <2>1. PICK kind \in Terminal : Publish(e, kind) /\ agent' = [agent EXCEPT ![e] = kind]
    BY <1>3 DEF Finish
  <2>2. /\ kind \in Kinds /\ sent[e] <= MaxDeltas /\ UNCHANGED <<breaks, stream, subs, queue, got>>
        /\ agent'[e] # "running" /\ \A x \in Execs : x # e => agent'[x] = agent[x]
    BY <1>0, <1>3, <2>1 DEF Finish, Terminal, Kinds, ChannelOK, StreamTypeOK
  <2> QED BY <2>1, <2>2, PublishStep
<1>4. ASSUME NEW e \in Execs, Lose(e) PROVE ChannelOK' /\ \A s \in Streams : StreamOK(s)'
  <2>1. UNCHANGED <<sent, breaks, channel, stream, subs, queue, got>>
    BY <1>4 DEF Lose
  <2>2. \A x \in Execs : agent'[x] = "running" => agent[x] = "running"
    BY <1>0, <1>4 DEF Lose, StreamTypeOK
  <2>3. ChannelOK'
    BY <1>0, <2>1, <2>2 DEF ChannelOK, Published
  <2> QED BY <2>1, <2>3, Untouched
<1>5. ASSUME NEW s \in Streams, Connect(s) \/ Emit(s) \/ Disconnect(s)
      PROVE  ChannelOK' /\ \A r \in Streams : StreamOK(r)'
  <2>1. UNCHANGED <<agent, sent, breaks, channel>>
    BY <1>5 DEF Connect, Emit, Disconnect
  <2>2. ChannelOK'
    BY <1>0, <2>1 DEF ChannelOK, Published
  <2>3. StreamOK(s)'
    <3>1. CASE Disconnect(s)
      BY <3>1, CloseStep DEF Disconnect
    <3> QED BY <1>5, <3>1, ConnectStep, EmitStep
  <2>4. ASSUME NEW r \in Streams, r # s PROVE StreamOK(r)'
    <3>1. /\ stream'[r] = stream[r] /\ queue'[r] = queue[r] /\ got'[r] = got[r]
          /\ r \in subs' <=> r \in subs
      BY <1>0, <1>5, <2>4 DEF Connect, Emit, Disconnect, Close, StreamTypeOK
    <3> QED BY <2>1, <3>1, Untouched
  <2> QED BY <2>2, <2>3, <2>4
<1>6. ASSUME Listen PROVE ChannelOK' /\ \A s \in Streams : StreamOK(s)'
  BY <1>6, ListenStep
<1>7. ASSUME Reconnect PROVE ChannelOK' /\ \A s \in Streams : StreamOK(s)'
  BY <1>7, ReconnectStep
<1>8. ASSUME UNCHANGED streamVars PROVE ChannelOK' /\ \A s \in Streams : StreamOK(s)'
  <2>1. UNCHANGED <<agent, sent, breaks, channel, stream, subs, queue, got>>
    BY <1>8 DEF streamVars
  <2>2. ChannelOK'
    BY <1>0, <2>1 DEF ChannelOK, Published
  <2> QED BY <2>1, <2>2, Untouched
<1>9. ChannelOK' /\ \A s \in Streams : StreamOK(s)'
  BY <1>2, <1>3, <1>4, <1>5, <1>6, <1>7, <1>8 DEF StreamNext
<1> QED BY <1>1, <1>9 DEF StreamInv

LEMMA StreamStart == StreamInit => StreamInv
<1> SUFFICES ASSUME StreamInit PROVE StreamInv
  OBVIOUS
<1>1. StreamTypeOK
  BY StreamAssumption DEF StreamInit, StreamTypeOK, Terminal
<1>2. ToSet(<<>>) = {} /\ \A e : NumbersOf(e, {}) = {}
  BY DEF ToSet, NumbersOf
<1>3. ChannelOK
  <2>1. channel = <<>> /\ ToSet(channel) = {} /\ \A e \in Execs : sent[e] = 0
    BY <1>2 DEF StreamInit
  <2>2. Increasing(channel)
    BY <2>1 DEF Increasing
  <2>3. \A e \in Execs : UpTo(NumbersOf(e, ToSet(channel)), sent[e])
    BY <1>2, <2>1 DEF UpTo
  <2> QED BY <2>1, <2>2, <2>3, StreamAssumption DEF ChannelOK
<1>4. ASSUME NEW s \in Streams PROVE StreamOK(s)
  <2>1. Come(s) = {} /\ Reach(s) = {} /\ got[s] = <<>> /\ queue[s] = <<>> /\ s \notin subs
        /\ channel = <<>> /\ stream[s] = "new"
    BY <1>2 DEF StreamInit, Come, Reach
  <2>2. InLine(s)
    BY <1>2, <2>1 DEF InLine, Ahead, Increasing
  <2>3. Filtered(s)
    BY <1>2, <2>1 DEF Filtered
  <2>4. Served(s)
    BY <2>1, StreamAssumption DEF Served
  <2>5. Gapless(s)
    BY <1>2, <2>1 DEF Gapless, Contiguous
  <2> QED BY <2>2, <2>3, <2>4, <2>5 DEF StreamOK
<1> QED BY <1>1, <1>3, <1>4 DEF StreamInv

\* Two sequences, each in order and the first ahead of the second, are in order as one.
LEMMA ConcatIncreasing ==
  ASSUME NEW S, NEW p \in Seq(S), NEW q \in Seq(S), Increasing(p), Increasing(q),
         Ahead(ToSet(p), ToSet(q))
  PROVE  Increasing(p \o q) /\ ToSet(p \o q) = ToSet(p) \cup ToSet(q)
<1>1. /\ Len(p) \in Nat /\ Len(q) \in Nat /\ DOMAIN p = 1..Len(p) /\ DOMAIN q = 1..Len(q)
      /\ DOMAIN (p \o q) = 1..Len(p)+Len(q)
      /\ \A i \in 1..Len(p)+Len(q) : (p \o q)[i] = IF i <= Len(p) THEN p[i] ELSE q[i - Len(p)]
  OBVIOUS
<1>2. \A i \in 1..Len(p)+Len(q) : \/ (i \in 1..Len(p) /\ i <= Len(p))
                                 \/ (i > Len(p) /\ ~(i <= Len(p)) /\ i - Len(p) \in 1..Len(q))
  BY <1>1
<1>3. \A i \in 1..Len(p)+Len(q) :
         \/ /\ i \in DOMAIN p /\ i <= Len(p)
            /\ (p \o q)[i] = p[i] /\ p[i] \in ToSet(p)
         \/ /\ i > Len(p) /\ i - Len(p) \in DOMAIN q
            /\ (p \o q)[i] = q[i - Len(p)] /\ q[i - Len(p)] \in ToSet(q)
  BY <1>1, <1>2 DEF ToSet
<1>4. ToSet(p \o q) \subseteq ToSet(p) \cup ToSet(q)
  BY <1>1, <1>3 DEF ToSet
<1>5. \A i \in 1..Len(p) : i \in 1..Len(p)+Len(q) /\ (p \o q)[i] = p[i]
  BY <1>1
<1>6. \A i \in 1..Len(q) : Len(p) + i \in 1..Len(p)+Len(q) /\ (p \o q)[Len(p) + i] = q[i]
  <2> TAKE i \in 1..Len(q)
  <2>1. Len(p) + i \in 1..Len(p)+Len(q) /\ ~(Len(p) + i <= Len(p)) /\ Len(p) + i - Len(p) = i
    BY <1>1
  <2> QED BY <1>1, <2>1
<1>7. ToSet(p) \cup ToSet(q) \subseteq ToSet(p \o q)
  <2>1. ASSUME NEW i \in 1..Len(p) PROVE p[i] \in ToSet(p \o q)
    BY <1>1, <1>5 DEF ToSet
  <2>2. ASSUME NEW i \in 1..Len(q) PROVE q[i] \in ToSet(p \o q)
    BY <1>1, <1>6 DEF ToSet
  <2> QED BY <1>1, <2>1, <2>2 DEF ToSet
<1>8. Increasing(p \o q)
  <2> SUFFICES ASSUME NEW i \in 1..Len(p)+Len(q), NEW j \in 1..Len(p)+Len(q), i < j
               PROVE  Before((p \o q)[i], (p \o q)[j])
    BY <1>1 DEF Increasing
  <2>1. CASE /\ i \in DOMAIN p /\ (p \o q)[i] = p[i] /\ p[i] \in ToSet(p)
    <3>1. CASE j \in DOMAIN p /\ (p \o q)[j] = p[j]
      BY <2>1, <3>1 DEF Increasing
    <3>2. CASE (p \o q)[j] = q[j - Len(p)] /\ q[j - Len(p)] \in ToSet(q)
      BY <2>1, <3>2 DEF Ahead
    <3> QED BY <1>3, <3>1, <3>2
  <2>2. CASE /\ i > Len(p) /\ i - Len(p) \in DOMAIN q
             /\ (p \o q)[i] = q[i - Len(p)] /\ q[i - Len(p)] \in ToSet(q)
    <3>1. j \notin DOMAIN p /\ i - Len(p) < j - Len(p)
      BY <1>1, <2>2
    <3>2. (p \o q)[j] = q[j - Len(p)] /\ j - Len(p) \in DOMAIN q
      BY <1>3, <3>1
    <3> QED BY <2>2, <3>1, <3>2 DEF Increasing
  <2> QED BY <1>3, <2>1, <2>2
<1> QED BY <1>4, <1>7, <1>8

\* The invariant says what the property says.
LEMMA StreamInvFaithful == StreamInv => StreamIsFaithful
<1> SUFFICES ASSUME StreamInv PROVE StreamIsFaithful
  OBVIOUS
<1>0. /\ StreamTypeOK /\ ChannelOK
      /\ \A s \in Streams : InLine(s) /\ Filtered(s) /\ Served(s) /\ Gapless(s)
  BY DEF StreamInv, StreamOK
<1>1. StreamIsInOrder
  <2> SUFFICES ASSUME NEW s \in Streams
               PROVE  /\ Increasing(got[s] \o queue[s] \o channel)
                      /\ \A i \in DOMAIN got[s] : /\ Passes(s, got[s][i])
                                                  /\ ThreadOfEvent(got[s][i]) = OnThread[s]
                                                  /\ i < Len(got[s]) => got[s][i].kind = "delta"
    BY DEF StreamIsInOrder, Increasing, Before
  <2>1. got[s] \in Seq(Events) /\ queue[s] \in Seq(Events) /\ channel \in Seq(Events)
    BY <1>0 DEF StreamTypeOK
  <2>2. Increasing(got[s] \o queue[s]) /\ ToSet(got[s] \o queue[s]) = Come(s)
    BY <1>0, <2>1, ConcatIncreasing DEF InLine, Come
  <2>3. got[s] \o queue[s] \in Seq(Events)
    BY <2>1
  <2>4. Increasing(got[s] \o queue[s] \o channel)
    BY <1>0, <2>1, <2>2, <2>3, ConcatIncreasing DEF InLine, ChannelOK
  <2>5. ASSUME NEW i \in DOMAIN got[s]
        PROVE  /\ Passes(s, got[s][i])
               /\ ThreadOfEvent(got[s][i]) = OnThread[s]
               /\ i < Len(got[s]) => got[s][i].kind = "delta"
    <3>1. got[s][i] \in ToSet(got[s]) /\ got[s][i] \in Come(s)
      BY DEF ToSet, Come
    <3>2. i < Len(got[s]) => i \in 1..Len(got[s])-1
      BY <2>1
    <3> QED BY <1>0, <3>1, <3>2 DEF Filtered
  <2> QED BY <2>4, <2>5
<1>2. NothingLostWhileSubscribed
  <2>1. \A s \in Streams, e \in Execs : \A a \in NumbersOf(e, Reach(s)) : a <= sent[e]
    BY <1>0 DEF NumbersOf, Reach, Filtered, ChannelOK, Published
  <2> QED BY <1>0, <2>1 DEF NothingLostWhileSubscribed, Gapless, Wants, Contiguous, UpTo
<1>3. NoLeakedSubscriber
  BY <1>0 DEF NoLeakedSubscriber, Served
<1> QED BY <1>0, <1>1, <1>2, <1>3 DEF StreamIsFaithful

\* Whatever the number of runs, clients and events, and whoever disconnects, is slow
\* or is lost: a client of the live stream sees its run in order, without gaps, and a
\* terminal event last (stream_events, broadcast, run_event_listener).
THEOREM StreamsAreFaithful == StreamSpec => []StreamIsFaithful
<1>1. StreamSpec => []StreamInv
  BY StreamStart, StreamStep, PTL DEF StreamSpec
<1> QED BY <1>1, StreamInvFaithful, PTL
=============================================================================
