----------------------------- MODULE ReActLoop ------------------------------
(***************************************************************************)
(* One ReActAgent: run and run_stream, one after the other on one memory.   *)
(* The model answers anything, guardrails pass or trip, people approve or   *)
(* deny, tools succeed or fail.  A tool call goes one of two ways: the      *)
(* agent executes it (path "direct", with retries), or sends it to the      *)
(* ToolExecutorHandler of the runtime ("runtime").                          *)
(*                                                                          *)
(* A message of the memory is its kind and, for an assistant message with   *)
(* tool calls, their number, for a tool result, the call it answers.        *)
(* Which tools the model is shown is left out: it may call any.             *)
(***************************************************************************)
EXTENDS Naturals, Sequences, FiniteSets

CONSTANTS
    Tools,          \* names the model may call
    Known,          \* those that exist
    Gated,          \* tools_requiring_approval
    Paths,          \* "direct", "runtime"
    ExecutorAsks,   \* the ToolExecutorHandler was given an approval handler
    Limits,         \* values of max_iterations
    MaxCalls,       \* bound: tool calls of one answer
    LlmRetries,     \* llm_retry_policy.max_retries
    ToolRetries,    \* tool_retry_policy.max_retries
    MaxRuns,        \* bound: runs of the agent
    Env             \* what the environment does in this instance

ASSUME LoopAssumption ==
    /\ Gated \subseteq Known /\ Known \subseteq Tools
    /\ Paths \subseteq {"direct", "runtime"}
    /\ ExecutorAsks \in BOOLEAN
    /\ Limits \subseteq Nat \ {0}
    /\ {MaxCalls, LlmRetries, ToolRetries, MaxRuns} \subseteq Nat
    /\ Env \subseteq {"cancel", "llm_error", "no_completion", "no_answer"}

VARIABLES
    path,      \* the way tool calls go; fixed for an agent
    memory,    \* the messages, oldest first
    pc,        \* where the run is
    mode,      \* "run" or "stream"
    limit,     \* max_iterations of this run
    step,      \* its iteration
    tries,     \* model calls of this iteration, or executions of this tool call
    todo,      \* tool calls of the last answer that have no result yet
    total,     \* total_tool_calls
    grant,     \* approval of the call at the head of todo
    tool_open, \* TOOL_START was dispatched and TOOL_END was not
    reply,     \* streaming: the text or the message that has come so far
    pub,       \* the StreamPublisher
    outcome,   \* how the last run ended
    runs,
    cuts       \* history: lengths of the memory when a run was cut short

loop == <<limit, step, tries>>
call == <<todo, total, grant, tool_open>>
out  == <<reply, pub>>
vars == <<path, memory, pc, mode, loop, call, out, outcome, runs, cuts>>

Cut == {"error", "cancelled"}
Answers == UNION {[1..n -> Tools] : n \in 0..MaxCalls}
Nothing == [got |-> "nothing", calls |-> <<>>]
Messages == [kind : {"system", "user", "answer", "partial", "calls", "result"}, n : Nat]

TypeOK ==
    /\ path \in Paths
    /\ memory \in Seq(Messages)
    /\ pc \in {"idle", "input", "think", "stream_end", "output", "structure",
               "next", "ask", "execute", "running"}
    /\ mode \in {"run", "stream"}
    /\ limit \in Nat /\ step \in 1..limit
    /\ tries \in 0..(IF ToolRetries > LlmRetries THEN ToolRetries ELSE LlmRetries) + 1
    /\ todo \in Seq(Tools)
    /\ total \in Nat
    /\ grant \in {"none", "given"}
    /\ tool_open \in BOOLEAN
    /\ reply \in [got : {"nothing", "text", "message"}, calls : Seq(Tools)]
    /\ pub \in {"none", "open", "closed"}
    /\ outcome \in Cut \cup {"none", "completed", "guardrail", "max_iterations"}
    /\ runs \in 0..MaxRuns
    /\ cuts \subseteq Nat

Msg(kind, n) == <<[kind |-> kind, n |-> n]>>

Init ==
    /\ path \in Paths
    /\ memory = <<>>
    /\ pc = "idle" /\ mode = "run"
    /\ limit = 1 /\ step = 1 /\ tries = 0
    /\ todo = <<>> /\ total = 0 /\ grant = "none" /\ tool_open = FALSE
    /\ reply = Nothing /\ pub = "none"
    /\ outcome = "none" /\ runs = 0 /\ cuts = {}

\* The run ends.  What it had open stays open until the next one begins.
End(o) ==
    /\ pc' = "idle"
    /\ outcome' = o
    /\ todo' = <<>>
    /\ reply' = Nothing
    /\ cuts' = IF o \in Cut THEN cuts \cup {Len(memory')} ELSE cuts
    /\ UNCHANGED <<path, mode, loop, total, grant, tool_open, runs>>

Close == pub' = IF pub = "open" THEN "closed" ELSE pub

-----------------------------------------------------------------------------
(* run and run_stream up to the first model call.                          *)

\* run_structured and Limits: max_iterations may be overridden for one run.
Begin(m) ==
    /\ pc = "idle" /\ runs < MaxRuns
    /\ runs' = runs + 1
    /\ memory' = (IF memory = <<>> THEN Msg("system", 0) ELSE memory) \o Msg("user", 0)
    /\ pc' = "input" /\ mode' = m
    /\ limit' \in Limits
    /\ step' = 1 /\ tries' = 0 /\ total' = 0
    /\ grant' = "none" /\ tool_open' = FALSE
    /\ pub' = IF m = "stream" /\ path = "runtime" THEN "open" ELSE "none"
    /\ outcome' = "none"
    /\ UNCHANGED <<path, todo, reply, cuts>>

\* The user's message is in the memory before the input guardrails see it.
InputGuardrails ==
    /\ pc = "input"
    /\ UNCHANGED memory
    /\ \/ /\ pc' = "think"
          /\ UNCHANGED <<path, mode, loop, call, out, outcome, runs, cuts>>
       \/ End("guardrail") /\ Close

-----------------------------------------------------------------------------
(* The model call.                                                         *)

\* The answer, and where it leads to.
Hear(calls) ==
    /\ memory' = memory \o IF calls = <<>> THEN Msg("answer", 0)
                           ELSE Msg("calls", Len(calls))
    /\ pc' = IF calls = <<>> THEN "output" ELSE "next"
    /\ todo' = calls
    /\ tries' = 0

\* _call_llm: one attempt of generate has succeeded.
Generate ==
    /\ pc = "think" /\ mode = "run"
    /\ \E calls \in Answers : Hear(calls)
    /\ UNCHANGED <<path, mode, limit, step, total, grant, tool_open, out, outcome, runs, cuts>>

\* A transient error, with the back-off before the next attempt.
GenerateAgain ==
    /\ pc = "think" /\ mode = "run" /\ "llm_error" \in Env
    /\ tries < LlmRetries
    /\ tries' = tries + 1
    /\ UNCHANGED <<path, memory, pc, mode, limit, step, call, out, outcome, runs, cuts>>

\* The last attempt, a permanent error, or any error of a stream.
ModelFails ==
    /\ pc \in {"think", "stream_end"} /\ "llm_error" \in Env
    /\ UNCHANGED <<memory, pub>>
    /\ End("error")

StreamDelta ==
    /\ pc = "think" /\ mode = "stream" /\ reply.got = "nothing"
    /\ reply' = [got |-> "text", calls |-> <<>>]
    /\ UNCHANGED <<path, memory, pc, mode, loop, call, pub, outcome, runs, cuts>>

StreamCompletion ==
    /\ pc = "think" /\ mode = "stream"
    /\ \E calls \in Answers : reply' = [got |-> "message", calls |-> calls]
    /\ pc' = "stream_end"
    /\ UNCHANGED <<path, memory, mode, loop, call, pub, outcome, runs, cuts>>

StreamEnd ==
    /\ pc = "stream_end"
    /\ Hear(reply.calls)
    /\ reply' = Nothing
    /\ UNCHANGED <<path, mode, limit, step, total, grant, tool_open, pub, outcome, runs, cuts>>

\* The stream ends without a CompletionChunk: an answer without content, which
\* does not get into the memory.
StreamWithoutCompletion ==
    /\ pc = "think" /\ mode = "stream" /\ "no_completion" \in Env
    /\ pc' = "output"
    /\ reply' = Nothing
    /\ UNCHANGED <<path, memory, mode, loop, call, pub, outcome, runs, cuts>>

-----------------------------------------------------------------------------
(* The final answer.                                                       *)

\* With a response schema the parsed answer may be missing.
OutputGuardrails ==
    /\ pc = "output"
    /\ Close
    /\ UNCHANGED memory
    /\ \/ End("completed")
       \/ End("guardrail")
       \/ /\ pc' = "structure"
          /\ UNCHANGED <<path, mode, loop, call, reply, outcome, runs, cuts>>

\* The extra call of the model for the structured output.
Structure ==
    /\ pc = "structure"
    /\ UNCHANGED <<memory, pub>>
    /\ \/ End("completed")
       \/ "llm_error" \in Env /\ End("error")

-----------------------------------------------------------------------------
(* The tool calls of one answer, one after the other.                      *)

MaxIterations_Early ==      \* regression: the last iteration does no tool calls
    /\ pc = "next" /\ step = limit
    /\ UNCHANGED <<memory, pub>>
    /\ End("max_iterations")

MaxIterations ==
    /\ pc = "next" /\ todo = <<>> /\ step = limit
    /\ UNCHANGED <<memory, pub>>
    /\ End("max_iterations")

NextIteration ==
    /\ pc = "next" /\ todo = <<>> /\ step < limit
    /\ step' = step + 1
    /\ pc' = "think"
    /\ UNCHANGED <<path, memory, mode, limit, tries, call, out, outcome, runs, cuts>>

\* Whatever became of the call, TOOL_END follows TOOL_START and the memory gets
\* the message that answers it.
Result ==
    /\ memory' = memory \o Msg("result", IF memory[Len(memory)].kind = "calls"
                                         THEN 1 ELSE memory[Len(memory)].n + 1)
    /\ todo' = Tail(todo)
    /\ total' = total + 1
    /\ grant' = "none" /\ tool_open' = FALSE /\ tries' = 0
    /\ pc' = "next"
    /\ UNCHANGED <<path, mode, limit, step, out, outcome, runs, cuts>>

ToolGuardrailTrips ==
    /\ pc = "next" /\ todo # <<>>
    /\ Result

Asks == Head(todo) \in Gated /\ (path = "runtime" => ExecutorAsks)

\* _execute_tool, or the handler of the runtime, looks the tool up.
ToolStart ==
    /\ pc = "next" /\ todo # <<>>
    /\ IF Head(todo) \notin Known THEN Result
       ELSE /\ pc' = IF Asks THEN "ask" ELSE "execute"
            /\ tool_open' = TRUE
            /\ UNCHANGED <<path, memory, mode, loop, todo, total, grant, out, outcome,
                           runs, cuts>>

Approval_DenyRuns ==      \* regression: a denial is logged and the tool runs
    /\ pc = "ask"
    /\ pc' = "execute"
    /\ grant' \in {"none", "given"}
    /\ UNCHANGED <<path, memory, mode, loop, todo, total, tool_open, out, outcome, runs, cuts>>

\* Approved or modified, denied, or the handler has raised, which denies.
Approval ==
    /\ pc = "ask"
    /\ \/ /\ pc' = "execute"
          /\ grant' = "given"
          /\ UNCHANGED <<path, memory, mode, loop, todo, total, tool_open, out, outcome,
                         runs, cuts>>
       \/ Result

Execute ==
    /\ pc = "execute"
    /\ pc' = "running"
    /\ tries' = tries + 1
    /\ UNCHANGED <<path, memory, mode, limit, step, call, out, outcome, runs, cuts>>

\* The tool has returned, or has failed for good; on the runtime every failure
\* is an answer, and so is a failed send_message.
ToolReturns == pc = "running" /\ Result

ToolAgain_CountAnew ==      \* regression: a retry does not count as an attempt
    /\ pc = "running" /\ path = "direct"
    /\ pc' = "execute"
    /\ tries' = 0
    /\ UNCHANGED <<path, memory, mode, limit, step, call, out, outcome, runs, cuts>>

\* A timeout or a transient error with attempts left.
ToolAgain ==
    /\ pc = "running" /\ path = "direct" /\ tries <= ToolRetries
    /\ pc' = "execute"
    /\ UNCHANGED <<path, memory, mode, loop, call, out, outcome, runs, cuts>>

\* The handler's task was aborted: send_message returns None, and the access to
\* the response raises.
NoAnswer ==
    /\ "no_answer" \in Env
    /\ pc \in {"ask", "execute", "running"} /\ path = "runtime"
    /\ UNCHANGED <<memory, pub>>
    /\ End("error")

-----------------------------------------------------------------------------
Cancel_DropText ==      \* regression: the text streamed so far is dropped
    /\ "cancel" \in Env /\ pc # "idle"
    /\ memory' = IF reply.got = "message"
                 THEN memory \o IF reply.calls = <<>> THEN Msg("answer", 0)
                                ELSE Msg("calls", Len(reply.calls))
                 ELSE memory
    /\ End("cancelled")
    /\ UNCHANGED pub

\* CancelledError, or run_timeout: a stream keeps what was streamed.
Cancel ==
    /\ "cancel" \in Env /\ pc # "idle"
    /\ memory' = memory \o CASE reply.got = "message" ->
                                   IF reply.calls = <<>> THEN Msg("answer", 0)
                                   ELSE Msg("calls", Len(reply.calls))
                             [] reply.got = "text" -> Msg("partial", 0)
                             [] OTHER -> <<>>
    /\ End("cancelled")
    /\ UNCHANGED pub

Progress ==
    \/ InputGuardrails \/ Generate \/ GenerateAgain \/ ModelFails
    \/ StreamDelta \/ StreamCompletion \/ StreamEnd \/ StreamWithoutCompletion
    \/ OutputGuardrails \/ Structure \/ MaxIterations \/ NextIteration
    \/ ToolGuardrailTrips \/ ToolStart \/ Approval \/ Execute \/ ToolReturns
    \/ ToolAgain \/ NoAnswer

Next == Progress \/ Cancel \/ \E m \in {"run", "stream"} : Begin(m)

Spec == Init /\ [][Next]_vars

\* The model answers, tools run under tool_timeout, and the approval handler
\* gives up after its own timeout.
FairSpec == Spec /\ WF_vars(Progress)

-----------------------------------------------------------------------------
\* Every tool call in the memory is followed by its results, one each and in
\* order, as the model's API demands; only where a run was cut short may they be
\* missing.  No result stands without its call.
CallsAreAnswered ==
    \A i \in 1..Len(memory) :
        /\ memory[i].kind = "calls" =>
              \A k \in 1..memory[i].n :
                  \/ i + k <= Len(memory) /\ memory[i + k] = Msg("result", k)[1]
                  \/ i + k > Len(memory) /\ todo # <<>>
                  \/ \E c \in cuts : i <= c /\ c < i + k
        /\ memory[i].kind = "result" =>
              /\ memory[i].n < i
              /\ memory[i - memory[i].n].kind = "calls"
              /\ memory[i].n <= memory[i - memory[i].n].n

\* A tool that requires approval runs only once this very call was approved, on
\* either path and on every attempt (server/context.py: "Names of tools that
\* require HITL approval").
GateIsRespected == pc = "running" /\ Head(todo) \in Gated => grant = "given"

LastUser == CHOOSE i \in 1..Len(memory) : /\ memory[i].kind = "user"
                                          /\ \A j \in i+1..Len(memory) : memory[j].kind # "user"

InThisRun(kind) == Cardinality({i \in LastUser..Len(memory) : memory[i].kind = kind})

\* The result of a run that was not cut short agrees with the memory it leaves:
\* its status with the last message, its count of tool calls with the results
\* (a run a guardrail has ended reports none), its iterations with the answers.
ResultAgreesWithMemory ==
    pc = "idle" /\ mode = "run" /\ outcome \notin Cut \cup {"none"} =>
        /\ outcome # "guardrail" => total = InThisRun("result")
        /\ InThisRun("answer") + InThisRun("calls") \in step-1..limit
        /\ outcome = "completed" => memory[Len(memory)].kind = "answer"
        /\ outcome = "max_iterations" => /\ memory[Len(memory)].kind = "result"
                                         /\ InThisRun("calls") = limit
        /\ outcome = "guardrail" => memory[Len(memory)].kind \in {"user", "answer"}

\* Hooks see a TOOL_END for every TOOL_START before anything else happens,
\* except where the run is cut short.
HooksAreBalanced == pc \in {"next", "think", "output"} => ~tool_open

\* A remote subscriber of the stream sees its end if the run ended with an
\* answer or a block (StreamPublisher: "close() sends StreamDone sentinel").
StreamEndIsPublished ==
    pc = "idle" /\ outcome \in {"completed", "guardrail"} => pub # "open"

\* What the user has seen of an answer stays in the memory when the run is
\* cancelled (comment in run_stream: "persist it if cancelled mid-stream").
SeenTextIsKept ==
    [][reply.got # "nothing" /\ outcome' = "cancelled" /\ outcome # "cancelled"
          => Len(memory') > Len(memory)]_vars

\* Every run ends, whatever the model answers and however tools fail.
RunEnds == pc # "idle" ~> pc = "idle"

\* A run leaves a conversation that the model can go on with, and reports it.
ConversationIsLegal == TypeOK /\ CallsAreAnswered /\ ResultAgreesWithMemory

\* Those who approve, listen to hooks or subscribe to the stream are kept in step
\* with the tools and with the end of the run.
ObserversAgree == GateIsRespected /\ HooksAreBalanced /\ StreamEndIsPublished
=============================================================================
