-------------------------- MODULE RestateWorkflows ---------------------------
(***************************************************************************)
(* The durable workflows: AgentWorkflow (a ReAct loop with a person in it), *)
(* PipelineWorkflow and ChainWorkflow, run by Restate.                      *)
(*                                                                          *)
(* A workflow is a program whose every step goes through ctx.run or through *)
(* a promise.  Restate writes the result of a step to the journal once it   *)
(* has been performed; an attempt that is lost is followed by another that  *)
(* starts from the top, takes the journalled results, and performs what is  *)
(* not there.  A value of the journal is a sequence of words: the tools of  *)
(* an LLM reply, after "text" if it has a content, or the one word that any *)
(* other step returns.                                                      *)
(***************************************************************************)
EXTENDS Naturals, Sequences, FiniteSets

CONSTANTS
    Kinds,           \* the workflows of this instance
    Replies,         \* what the LLM may answer
    MaxIterations,   \* payload["max_iterations"]
    PipelineSteps,   \* the number of steps of a pipeline
    MaxCrashes       \* bound: attempts that are lost

Tools == {"plain", "gated", "human"}   \* by policy: none, requires_approval, is_hitl_input

\* The tools of a reply.
Called(r) == IF r # <<>> /\ Head(r) = "text" THEN Tail(r) ELSE r

ASSUME RestateAssumption ==
    /\ Kinds \subseteq {"agent", "pipeline", "chain"}
    /\ Replies \subseteq Seq(Tools \cup {"text"})
    /\ \A r \in Replies : Called(r) \in Seq(Tools)
    /\ {MaxIterations, PipelineSteps} \subseteq Nat \ {0}
    /\ MaxCrashes \in Nat

VARIABLES
    kind,        \* of the workflow
    streaming,   \* whether the worker has reached NATS
    status,      \* of the invocation
    journal,     \* what Restate has recorded of it
    alive,       \* whether a worker has an attempt of it in progress
    at, step, call,  \* the attempt: the step of the program it has come to,
    calls,           \* the tool calls it is going through,
    last,            \* the result of the step before
    taken,           \* the entries of the journal it has taken or written,
    outcome,         \* and what the step has returned, once performed
    memory,      \* the Redis list of the thread
    ran,         \* history: the tools, adapters and chains that have run
    asked,       \* the requests published for a person
    promises,    \* the promises resolved
    crashes

attempt == <<alive, at, step, call, calls, last, taken, outcome>>
outside == <<memory, ran, asked>>
vars == <<kind, streaming, status, journal, attempt, outside, promises, crashes>>

Cmd == <<at, step, call>>
Persists == {"persist_user", "persist_assistant", "persist_human", "persist_deny",
             "persist_tool"}
Events == {"hitl_event", "approval_event"}
Works == {"tool", "adapter", "chain"}
Promised == {"human", "approval"}
Acts == Persists \cup Events \cup Works \cup Promised
            \cup {"restore_memory", "llm", "completion_event", "end"}

\* ctx.rand draws the same numbers in every attempt.
RequestId_Fresh(s, c) == <<s, c, crashes>>      \* regression: uuid.uuid4()
RequestId(s, c) == <<s, c, 0>>

Answer == {<<"approve">>, <<"deny">>}
Values == Replies \cup Answer \cup {<<"ok">>, <<"error">>}

TypeOK ==
    /\ kind \in Kinds /\ streaming \in BOOLEAN
    /\ status \in {"none", "running", "done", "cancelled"}
    /\ \A i \in 1..Len(journal) :
         /\ journal[i].cmd[1] \in Acts \ {"end"}
         /\ journal[i].value \in Values
    /\ alive \in BOOLEAN /\ at \in Acts
    /\ step \in 0..(MaxIterations + PipelineSteps) /\ call \in Nat
    /\ call <= Len(calls) + 1 /\ \A i \in 1..Len(calls) : calls[i] \in Tools
    /\ last \in Values
    /\ taken \in 0..Len(journal)
    /\ outcome \subseteq Values /\ Cardinality(outcome) <= 1
    /\ \A i \in 1..Len(memory) : memory[i].cmd[1] \in Persists
    /\ \A i \in 1..Len(ran) : ran[i][1] \in Works
    /\ DOMAIN promises \subseteq asked
    /\ crashes \in 0..MaxCrashes

First == CASE kind = "agent" -> "restore_memory"
           [] kind = "pipeline" -> "adapter"
           [] kind = "chain" -> "chain"

AtTheTop ==
    /\ at' = First /\ step' = 0 /\ call' = 0
    /\ calls' = <<>> /\ last' = <<"ok">>
    /\ taken' = 0 /\ outcome' = {}

Init ==
    /\ kind \in Kinds /\ streaming \in BOOLEAN
    /\ status = "none" /\ journal = <<>>
    /\ alive = FALSE
    /\ at = First /\ step = 0 /\ call = 0 /\ calls = <<>> /\ last = <<"ok">>
    /\ taken = 0 /\ outcome = {}
    /\ memory = <<>> /\ ran = <<>> /\ asked = {}
    /\ promises = [r \in {} |-> <<"ok">>]
    /\ crashes = 0

-----------------------------------------------------------------------------
(* Restate.                                                                *)

\* start_*_workflow.  The key of a workflow takes one invocation only.
Start ==
    /\ status = "none"
    /\ status' = "running"
    /\ UNCHANGED <<kind, streaming, journal, attempt, outside, promises, crashes>>

Attempt ==
    /\ status = "running" /\ ~alive
    /\ alive' = TRUE
    /\ AtTheTop
    /\ UNCHANGED <<kind, streaming, status, journal, outside, promises, crashes>>

\* The worker goes down, or an activity raises: Redis, NATS or the LLM failed it.
Crash ==
    /\ alive /\ crashes < MaxCrashes
    /\ crashes' = crashes + 1
    /\ alive' = FALSE /\ outcome' = {}
    /\ UNCHANGED <<kind, streaming, status, journal, at, step, call, calls, last, taken,
                   outside, promises>>

\* An invocation that waits for a promise leaves its worker.
Suspend ==
    /\ alive /\ at \in Promised /\ taken = Len(journal)
    /\ RequestId(step, call) \notin DOMAIN promises
    /\ alive' = FALSE
    /\ UNCHANGED <<kind, streaming, status, journal, at, step, call, calls, last, taken,
                   outcome, outside, promises, crashes>>

\* cancel_workflow.  The attempt ends at its next await.
Cancel ==
    /\ status = "running"
    /\ status' = "cancelled"
    /\ UNCHANGED <<kind, streaming, journal, attempt, outside, promises, crashes>>

Abandon ==
    /\ alive /\ status = "cancelled"
    /\ alive' = FALSE
    /\ UNCHANGED <<kind, streaming, status, journal, at, step, call, calls, last, taken,
                   outcome, outside, promises, crashes>>

-----------------------------------------------------------------------------
(* Activities: they are performed inside ctx.run, when the journal has no  *)
(* result for them.                                                        *)

NotJournalled == alive /\ taken = Len(journal) /\ outcome = {}

Returns(v) ==
    /\ outcome' = {v}
    /\ UNCHANGED <<kind, streaming, status, journal, alive, at, step, call, calls, last,
                   taken, promises, crashes>>

\* restore_memory reads the list; the completion event goes to the streams only.
RestoreMemory == NotJournalled /\ at = "restore_memory" /\ Returns(<<"ok">>) /\ UNCHANGED outside

PublishCompletion ==
    NotJournalled /\ at = "completion_event" /\ Returns(<<"ok">>) /\ UNCHANGED outside

\* do_llm_call reads the thread's memory; it writes nothing to it.
LlmCall ==
    /\ NotJournalled /\ at = "llm"
    /\ \E r \in Replies : Returns(r)
    /\ UNCHANGED outside

Message == [cmd |-> Cmd, said |-> last]

Persisting(acts) ==
    /\ at \in acts
    /\ memory' = Append(memory, Message)
    /\ Returns(<<"ok">>)
    /\ UNCHANGED <<ran, asked>>

PersistMessage == NotJournalled /\ Persisting({"persist_user", "persist_assistant"})

PersistToolResult_Direct ==      \* regression: awaited as it is, not inside ctx.run
    /\ alive /\ outcome = {}
    /\ Persisting({"persist_human", "persist_deny", "persist_tool"})

PersistToolResult ==
    NotJournalled /\ Persisting({"persist_human", "persist_deny", "persist_tool"})

PublishEvent ==
    /\ NotJournalled /\ at \in Events
    /\ asked' = IF streaming THEN asked \cup {RequestId(step, call)} ELSE asked
    /\ Returns(<<"ok">>)
    /\ UNCHANGED <<memory, ran>>

\* The thing runs; a timeout or an exception of it is a result.
Working(act) ==
    /\ at = act
    /\ ran' = Append(ran, Cmd)
    /\ \E v \in {<<"ok">>, <<"error">>} : Returns(v)
    /\ UNCHANGED <<memory, asked>>

ToolExec_Direct ==      \* regression: awaited as it is, not inside ctx.run
    alive /\ outcome = {} /\ Working("tool")

ToolExec == NotJournalled /\ Working("tool")

AdapterStep == NotJournalled /\ Working("adapter")

CodeChain == NotJournalled /\ Working("chain")

-----------------------------------------------------------------------------
(* The programs.                                                           *)

\* The step the attempt is at has the result v: from the journal if it is there,
\* else it is written to it.
Result(acts, v) ==
    /\ alive /\ status = "running" /\ at \in acts
    /\ \/ /\ taken < Len(journal)
          /\ journal[taken + 1] = [cmd |-> Cmd, value |-> v]
          /\ UNCHANGED journal
       \/ /\ taken = Len(journal)
          /\ \/ outcome = {v}
             \/ /\ at \in Promised /\ RequestId(step, call) \in DOMAIN promises
                /\ promises[RequestId(step, call)] = v
          /\ journal' = Append(journal, [cmd |-> Cmd, value |-> v])
    /\ taken' = taken + 1
    /\ outcome' = {} /\ last' = v
    /\ UNCHANGED <<kind, streaming, alive, outside, promises, crashes>>

GoTo(a) == at' = a /\ UNCHANGED <<status, step, call, calls>>

\* The next call of seq, or the next iteration.
Act(seq, n) ==
    IF n <= Len(seq)
    THEN /\ at' = CASE seq[n] = "plain" -> "tool"
                    [] seq[n] = "gated" -> "approval_event"
                    [] seq[n] = "human" -> "hitl_event"
         /\ calls' = seq /\ call' = n
         /\ UNCHANGED <<status, step>>
    ELSE /\ calls' = <<>> /\ call' = 0
         /\ IF step + 1 < MaxIterations
            THEN at' = "llm" /\ step' = step + 1
            ELSE at' = "completion_event" /\ step' = step
         /\ UNCHANGED status

End == at' = "end" /\ status' = "done" /\ UNCHANGED <<step, call, calls>>

AfterRestore == Result({"restore_memory"}, <<"ok">>) /\ GoTo("persist_user")

AfterPersistUser == Result({"persist_user"}, <<"ok">>) /\ GoTo("llm")

\* THINK.  The text of a final answer is returned, not persisted.
AfterLlm ==
    \E r \in Replies :
      /\ Result({"llm"}, r)
      /\ IF Called(r) = <<>> THEN GoTo("completion_event")
         ELSE IF Called(r) = r THEN Act(r, 1)
         ELSE at' = "persist_assistant" /\ calls' = Called(r) /\ UNCHANGED <<status, step, call>>

AfterPersistAssistant == Result({"persist_assistant"}, <<"ok">>) /\ Act(calls, 1)

AfterEvent ==
    /\ Result(Events, <<"ok">>)
    /\ GoTo(IF at = "hitl_event" THEN "human" ELSE "approval")

AfterHuman == \E v \in Answer : Result({"human"}, v) /\ GoTo("persist_human")

AfterApproval_NoContinue ==      \* regression: the denial is persisted, and the tool runs
    \E v \in Answer :
      Result({"approval"}, v) /\ GoTo("tool")

AfterApproval ==
    \E v \in Answer :
      /\ Result({"approval"}, v)
      /\ GoTo(IF v = <<"deny">> THEN "persist_deny" ELSE "tool")

AfterTool ==
    \E v \in {<<"ok">>, <<"error">>} : Result({"tool"}, v) /\ GoTo("persist_tool")

AfterPersist ==
    /\ Result({"persist_human", "persist_deny", "persist_tool"}, <<"ok">>)
    /\ Act(calls, call + 1)

AfterCompletion == Result({"completion_event"}, <<"ok">>) /\ End

\* A pipeline ends with its first step that fails.
AfterAdapter ==
    \E v \in {<<"ok">>, <<"error">>} :
      /\ Result({"adapter"}, v)
      /\ IF v = <<"error">> \/ step + 1 = PipelineSteps THEN End
         ELSE at' = "adapter" /\ step' = step + 1 /\ UNCHANGED <<status, call, calls>>

AfterChain == \E v \in {<<"ok">>, <<"error">>} : Result({"chain"}, v) /\ End

-----------------------------------------------------------------------------
(* People: resolve_approval and resolve_human_input.                       *)

Resolve(r) ==
    /\ r \in asked /\ r \notin DOMAIN promises
    /\ \E v \in Answer :
         promises' = [q \in DOMAIN promises \cup {r} |-> IF q = r THEN v ELSE promises[q]]
    /\ UNCHANGED <<kind, streaming, status, journal, attempt, outside, crashes>>

-----------------------------------------------------------------------------
Program ==
    \/ AfterRestore \/ AfterPersistUser \/ AfterLlm \/ AfterPersistAssistant
    \/ AfterEvent \/ AfterHuman \/ AfterApproval \/ AfterTool \/ AfterPersist
    \/ AfterCompletion \/ AfterAdapter \/ AfterChain

Activity ==
    \/ RestoreMemory \/ LlmCall \/ PersistMessage \/ PersistToolResult
    \/ PublishEvent \/ PublishCompletion
    \/ ToolExec \/ AdapterStep \/ CodeChain

Person == \E r \in asked : Resolve(r)

Next ==
    \/ Start \/ Attempt \/ Crash \/ Suspend \/ Cancel \/ Abandon
    \/ Activity \/ Program \/ Person

Spec == Init /\ [][Next]_vars

\* Restate retries an invocation until it ends, activities return (those of tools
\* have a timeout), and people answer what they are asked.
FairSpec ==
    /\ Spec
    /\ WF_vars(Attempt) /\ WF_vars(Activity) /\ WF_vars(Program) /\ WF_vars(Person)

-----------------------------------------------------------------------------
(* Properties.                                                             *)

Recorded == {journal[i].cmd : i \in 1..Len(journal)}

\* A later attempt asks for the steps the journal has, in their order: between two
\* awaits the programs depend on nothing but the results of the steps.
ReplayAgrees ==
    alive /\ taken < Len(journal) => journal[taken + 1].cmd = Cmd

\* The tool that a command of an agent calls, by the reply the journal has.
CalledBy(cmd) ==
    {Called(journal[i].value)[cmd[3]] : i \in {n \in 1..Len(journal) :
                                                 journal[n].cmd = <<"llm", cmd[2], 0>>}}

\* A tool that requires approval runs only after a person has approved this very
\* call, whatever attempt runs it.
GateIsRespected ==
    \A i \in 1..Len(ran) :
      ran[i][1] = "tool" /\ "gated" \in CalledBy(ran[i]) =>
        \E r \in DOMAIN promises :
          r[1] = ran[i][2] /\ r[2] = ran[i][3] /\ promises[r] = <<"approve">>

\* No step of a pipeline runs after one that has failed.
FailureStopsThePipeline ==
    \A i \in 1..Len(journal) :
      journal[i].cmd[1] = "adapter" /\ journal[i].value = <<"error">> =>
        \A k \in 1..Len(ran) : ran[k][2] <= journal[i].cmd[2]

\* "Exactly-once semantics around completed activity steps": what has its result in
\* the journal is performed no more.
CompletedStepsStayDone ==
    [][/\ ran' # ran => Cmd \notin Recorded
       /\ memory' # memory => Cmd \notin Recorded]_vars

\* A step is performed a second time only if its first attempt was lost before its
\* result was written: the tools that run, and the messages of the thread, exceed
\* the journalled ones by no more than the attempts that were lost.
RepeatsNeedCrashes ==
    LET Distinct(s) == {s[i] : i \in 1..Len(s)} IN
    (Len(ran) - Cardinality(Distinct(ran))) + (Len(memory) - Cardinality(Distinct(memory)))
      <= crashes

\* The history the LLM reads next is that of the journal: every persisted message is
\* there, with what the step before it returned, in the order of the program; a
\* message that is repeated stands next to itself.
MemoryFollowsTheJournal ==
    LET Place(cmd) == {i \in 1..Len(journal) : journal[i].cmd = cmd}
        Before(i) == IF i = 1 THEN <<"ok">> ELSE journal[i - 1].value
        In(m, i) == journal[i].cmd = m.cmd /\ Before(i) = m.said IN
    /\ \A i \in 1..Len(journal) :
         journal[i].cmd[1] \in Persists => \E n \in 1..Len(memory) : In(memory[n], i)
    /\ \A m, n \in 1..Len(memory) : m < n =>
         \/ memory[m] = memory[n]
         \/ \E i \in Place(memory[m].cmd) :
              /\ In(memory[m], i)
              /\ \A j \in Place(memory[n].cmd) : i < j

\* A workflow that has been started ends, cancelled or not, through crashes and
\* human delays, as long as its requests reach people.
RunsEnd == [](status = "running" /\ streaming => <>(status \in {"done", "cancelled"}))

\* What a workflow asks for and leaves in the world is what its journal says, up to
\* the step that was lost with its worker.
JournalIsFollowed == TypeOK /\ ReplayAgrees /\ RepeatsNeedCrashes /\ MemoryFollowsTheJournal

\* No attempt runs a tool or a step that an answer or a failure has stopped.
PermissionHolds == GateIsRespected /\ FailureStopsThePipeline
=============================================================================
