-------------------------------- MODULE Flows --------------------------------
(***************************************************************************)
(* Multi-agent flows: SequentialFlow, ParallelFlow and ConditionalFlow,    *)
(* nested at will, and the while and condition pipelines, run to completion*)
(* or streamed to a consumer that may close the stream.                    *)
(*                                                                         *)
(* A flow is a tree of nodes; its leaves are agents.  The nodes have the   *)
(* numbers in which the flows are written down: a flow comes before its    *)
(* steps, and everything below one step comes before the next.  A text is a*)
(* sequence of pieces: what an agent has answered, or one chunk of what it *)
(* streams.                                                                *)
(* A generator that is not below a ParallelFlow is pulled by the consumer, *)
(* so a chunk goes up to it in one step; the drain tasks of a ParallelFlow *)
(* pull their branches themselves, into the queue of the flow.             *)
(***************************************************************************)
EXTENDS Naturals, FiniteSets, SequencesExt

CONSTANTS
    Size,          \* the number of nodes
    Kind,          \* of each node: agent, seq, par, cond, while or branch
    Kids,          \* its steps, branches, [body, done] or [upstream, branch...]
    LastBelow,     \* the last node below it, or itself
    MaxChunks,     \* bound: the chunks each agent streams
    MaxLoopRounds, \* max_iterations of a while pipeline
    FlowEnv        \* what the environment does in this instance

Nodes == 1..Size
User == 0          \* gives the input, and consumes the stream

FlowKinds == {"seq", "par", "cond"}
PipelineKinds == {"while", "branch"}

Kid(p, i) == Kids[p][i]
KidsOf(p) == {Kid(p, i) : i \in 1..Len(Kids[p])}
Above == [n \in Nodes |-> {a \in Nodes : a < n /\ n <= LastBelow[a]}]
Roots == {n \in Nodes : Above[n] = {}}

\* PipelineRunner builds its pipelines of agents, and nothing is built of them.
ASSUME FlowAssumption ==
    /\ Size \in Nat
    /\ Kind \in [Nodes -> FlowKinds \cup PipelineKinds \cup {"agent"}]
    /\ Kids \in [Nodes -> Seq(Nodes)]
    /\ LastBelow \in [Nodes -> Nodes]
    /\ \A p \in Nodes :
         /\ p <= LastBelow[p]
         /\ p+1..LastBelow[p] = UNION {k..LastBelow[k] : k \in KidsOf(p)}
         /\ \A n \in p+1..LastBelow[p] : LastBelow[n] <= LastBelow[p]
         /\ \A i, j \in 1..Len(Kids[p]) : i < j => LastBelow[Kid(p, i)] < Kid(p, j)
         /\ Kids[p] = <<>> <=> Kind[p] = "agent"
         /\ Kind[p] = "cond" => Len(Kids[p]) = 2
         /\ Kind[p] = "while" => Len(Kids[p]) <= 2
         /\ Kind[p] \in PipelineKinds =>
              p \in Roots /\ \A k \in KidsOf(p) : Kind[k] = "agent"
    /\ MaxChunks \in [Nodes -> Nat] /\ MaxLoopRounds \in Nat \ {0}
    /\ FlowEnv \subseteq {"raise", "close"}

VARIABLES
    root,       \* the flow that runs
    how,        \* whether it was called with run or run_stream
    st,         \* of each node
    input, output,
    carry,      \* accumulated_output of a SequentialFlow
    pos,        \* the step, the branch taken, or the iteration a node is at
    queue,      \* of a ParallelFlow that streams, with the sentinels
    ends,       \* done_count of a ParallelFlow
    told,       \* history: the chunks each agent has streamed
    delivered,  \* what the consumer has got
    begun, ended  \* FLOW_START and FLOW_END events of each flow

texts == <<input, output, carry>>
stream == <<queue, ends, told, delivered>>
flowVars == <<root, how, st, texts, pos, stream, begun, ended>>

Running(p, kind) == st[p] = "running" /\ Kind[p] = kind
\* The node a flow waits for.
Current(p) == Kid(p, IF Kind[p] = "while" THEN IF pos[p] <= MaxLoopRounds THEN 1 ELSE 2
                     ELSE pos[p])

FlowTypeOK ==
    /\ root \in Roots
    /\ how \in {"run", "stream"}
    /\ st \in [Nodes -> {"idle", "running", "done", "failed", "closed"}]
    /\ pos \in [Nodes -> Nat]
    /\ \A n \in Nodes : pos[n] <= IF Kind[n] = "while" THEN MaxLoopRounds + 1 ELSE Len(Kids[n])
    /\ queue \in [Nodes -> Seq(Nodes \X Nat)]
    /\ ends \in [Nodes -> Nat]
    /\ told \in [Nodes -> Nat]
    /\ delivered \in Seq(Nodes \X Nat)
    /\ begun \in [Nodes -> Nat] /\ ended \in [Nodes -> Nat]

FlowInit ==
    /\ root \in Roots
    /\ how \in {"run", "stream"}
    /\ st = [n \in Nodes |-> IF n = root THEN "running" ELSE "idle"]
    /\ input = [n \in Nodes |-> IF n = root THEN <<<<User, 0>>>> ELSE <<>>]
    /\ output = [n \in Nodes |-> <<>>]
    /\ carry = input
    /\ pos = [n \in Nodes |-> 0]
    /\ queue = [n \in Nodes |-> <<>>]
    /\ ends = [n \in Nodes |-> 0]
    /\ told = [n \in Nodes |-> 0]
    /\ delivered = <<>>
    /\ begun = [n \in Nodes |-> IF n = root /\ Kind[n] \in FlowKinds THEN 1 ELSE 0]
    /\ ended = [n \in Nodes |-> 0]

-----------------------------------------------------------------------------
(* Calls, chunks and returns.                                              *)

\* p calls kids with a text, which a SequentialFlow has accumulated; a flow
\* dispatches FLOW_START.
Call(p, S, text) ==
    /\ st' = [n \in Nodes |-> IF n \in S THEN "running" ELSE st[n]]
    /\ input' = [n \in Nodes |-> IF n \in S THEN text ELSE input[n]]
    /\ carry' = [n \in Nodes |-> IF n \in S \cup {p} THEN text ELSE carry[n]]
    /\ begun' = [n \in Nodes |-> IF n \in S /\ Kind[n] \in FlowKinds
                                 THEN begun[n] + 1 ELSE begun[n]]
    /\ UNCHANGED <<root, how, output, ended>>

Pars == [n \in Nodes |-> {p \in Above[n] : Kind[p] = "par"}]

\* The queue, or the consumer, a chunk of n comes to: that of the nearest
\* ParallelFlow above it.
Sink == [n \in Nodes |->
           IF Pars[n] = {} THEN User
           ELSE CHOOSE p \in Pars[n] : \A q \in Pars[n] : q <= p]

\* The flows whose run_stream it goes through.
Through == [n \in Nodes |-> {a \in Above[n] : \A p \in Pars[n] : p < a}]

Pass_NotAccumulated(n, chunk) ==      \* regression: chunks of nested flows do not count
    /\ carry' = [m \in Nodes |-> IF m \in Through[n] /\ Kind[m] = "seq" /\ Kind[n] = "agent"
                                 THEN Append(carry[m], chunk) ELSE carry[m]]
    /\ delivered' = IF Sink[n] = User THEN Append(delivered, chunk) ELSE delivered

Pass(n, chunk) ==
    /\ carry' = [m \in Nodes |-> IF m \in Through[n] /\ Kind[m] = "seq"
                                 THEN Append(carry[m], chunk) ELSE carry[m]]
    /\ delivered' = IF Sink[n] = User THEN Append(delivered, chunk) ELSE delivered

Push(n, item) ==
    queue' = IF Sink[n] = User THEN queue
             ELSE [queue EXCEPT ![Sink[n]] = Append(@, item)]

\* n returns or raises; its drain task, if it has one, puts the sentinel.  Its
\* branch is history: the code's sentinel is None.
Sentinel(n) == <<n, 0>>
Drained(n) == how = "stream" /\ \E p \in Nodes : Kind[p] = "par" /\ n \in KidsOf(p)
Drain(n) == CHOOSE p \in Nodes : Kind[p] = "par" /\ n \in KidsOf(p)

Leave_NoFinally(n, outcome, text) ==      \* regression: the sentinel follows the loop
    /\ st' = [st EXCEPT ![n] = outcome]
    /\ output' = [output EXCEPT ![n] = text]
    /\ queue' = IF Drained(n) /\ outcome = "done"
                THEN [queue EXCEPT ![Drain(n)] = Append(@, Sentinel(n))] ELSE queue
    /\ UNCHANGED <<root, how, input, carry, pos, ends, told, delivered, begun>>

Leave(n, outcome, text) ==
    /\ st' = [st EXCEPT ![n] = outcome]
    /\ output' = [output EXCEPT ![n] = text]
    /\ queue' = IF Drained(n) THEN [queue EXCEPT ![Drain(n)] = Append(@, Sentinel(n))]
                ELSE queue
    /\ UNCHANGED <<root, how, input, carry, pos, ends, told, delivered, begun>>

\* A flow that completes dispatches FLOW_END.
Complete(p, text) ==
    /\ Leave(p, "done", text)
    /\ ended' = IF Kind[p] \in FlowKinds THEN [ended EXCEPT ![p] = @ + 1] ELSE ended

\* The upstream agent of a condition pipeline is run, even if that streams.
Streams(n) ==
    how = "stream" /\ ~ \E p \in Nodes : Kind[p] = "branch" /\ n = Kid(p, 1)

Yield(n) ==
    /\ told' = [told EXCEPT ![n] = @ + 1]
    /\ Pass(n, <<n, told'[n]>>) /\ Push(n, <<n, told'[n]>>)
    /\ UNCHANGED <<root, how, st, input, output, pos, ends, begun, ended>>

AgentYields(n) ==
    Running(n, "agent") /\ Streams(n) /\ told[n] < MaxChunks[n] /\ Yield(n)

AgentEnds(n) ==
    /\ Running(n, "agent")
    /\ \/ \E text \in {<<>>, <<<<n, 0>>>>} :
            (Streams(n) => text = <<>>) /\ Leave(n, "done", text)
       \/ "raise" \in FlowEnv /\ Leave(n, "failed", <<>>)
    /\ UNCHANGED ended

-----------------------------------------------------------------------------
(* SequentialFlow.                                                         *)

\* The next step gets the input with the outputs of the steps before; a status
\* other than completed does not end the flow.
SeqNext(p) ==
    /\ Running(p, "seq") /\ pos[p] < Len(Kids[p])
    /\ pos[p] # 0 => st[Current(p)] = "done"
    /\ pos' = [pos EXCEPT ![p] = @ + 1]
    /\ Call(p, {Kid(p, pos[p] + 1)},
            IF pos[p] = 0 \/ how = "stream" THEN carry[p] ELSE carry[p] \o output[Current(p)])
    /\ UNCHANGED stream

SeqEnd(p) ==
    /\ Running(p, "seq") /\ pos[p] = Len(Kids[p])
    /\ st[Current(p)] = "done"
    /\ Complete(p, output[Current(p)])

-----------------------------------------------------------------------------
(* ParallelFlow.                                                           *)

ParFork(p) ==
    /\ Running(p, "par") /\ pos[p] = 0
    /\ pos' = [pos EXCEPT ![p] = 1]
    /\ Call(p, KidsOf(p), input[p])
    /\ UNCHANGED stream

\* merge: "concat".
Merged(p) == LET to[i \in 0..Len(Kids[p])] ==
                   IF i = 0 THEN <<>> ELSE to[i - 1] \o output[Kid(p, i)]
             IN  to[Len(Kids[p])]

\* gather returns the results in the order of the branches.
ParJoin(p) ==
    /\ Running(p, "par") /\ how = "run" /\ pos[p] = 1
    /\ \A k \in KidsOf(p) : st[k] = "done"
    /\ Complete(p, Merged(p))

\* The generator of the flow: it yields what comes, and counts the sentinels.
ParTake(p) ==
    /\ Running(p, "par") /\ queue[p] # <<>>
    /\ LET item == Head(queue[p])
           rest == [queue EXCEPT ![p] = Tail(@)] IN
         IF item = Sentinel(item[1])
         THEN /\ ends' = [ends EXCEPT ![p] = @ + 1]
              /\ queue' = rest
              /\ UNCHANGED <<carry, delivered>>
         ELSE /\ Pass(p, item)
              /\ queue' = IF Sink[p] = User THEN rest
                          ELSE [rest EXCEPT ![Sink[p]] = Append(@, item)]
              /\ UNCHANGED ends
    /\ UNCHANGED <<root, how, st, input, output, pos, told, begun, ended>>

ParStreamEnd_First(p) ==      \* regression: the first sentinel ends the stream
    /\ Running(p, "par") /\ how = "stream" /\ pos[p] = 1
    /\ ends[p] > 0
    /\ Complete(p, <<>>)

\* The exception of a branch is dropped.
ParStreamEnd(p) ==
    /\ Running(p, "par") /\ how = "stream" /\ pos[p] = 1
    /\ ends[p] = Len(Kids[p])
    /\ Complete(p, <<>>)

-----------------------------------------------------------------------------
(* ConditionalFlow.                                                        *)

CondPick(p) ==
    /\ Running(p, "cond") /\ pos[p] = 0
    /\ \E i \in 1..2 :
         /\ pos' = [pos EXCEPT ![p] = i]
         /\ Call(p, {Kid(p, i)}, input[p])
    /\ UNCHANGED stream

CondEnd(p) ==
    /\ Running(p, "cond") /\ pos[p] # 0
    /\ st[Current(p)] = "done"
    /\ Complete(p, output[Current(p)])

-----------------------------------------------------------------------------
(* WhilePipelineRunner: the condition may hold or not after an iteration.  *)

\* run_stream collects chunk.content, which a text chunk has not.
Fed(p) == IF pos[p] = 0 THEN input[p]
          ELSE IF how = "stream" THEN <<>> ELSE output[Kid(p, 1)]

WhileBody(p) ==
    /\ Running(p, "while") /\ pos[p] < MaxLoopRounds
    /\ pos[p] # 0 => st[Kid(p, 1)] = "done"
    /\ pos' = [pos EXCEPT ![p] = @ + 1]
    /\ Call(p, {Kid(p, 1)}, Fed(p))
    /\ UNCHANGED stream

WhileDone(p) ==
    /\ Running(p, "while") /\ pos[p] \in 1..MaxLoopRounds
    /\ st[Kid(p, 1)] = "done" /\ Len(Kids[p]) = 2
    /\ pos' = [pos EXCEPT ![p] = MaxLoopRounds + 1]
    /\ Call(p, {Kid(p, 2)}, Fed(p))
    /\ UNCHANGED stream

WhileNone(p) ==
    /\ Running(p, "while") /\ pos[p] \in 1..MaxLoopRounds
    /\ st[Kid(p, 1)] = "done" /\ Len(Kids[p]) = 1
    /\ Complete(p, Fed(p))

WhileEnd(p) ==
    /\ Running(p, "while") /\ pos[p] = MaxLoopRounds + 1
    /\ st[Kid(p, 2)] = "done"
    /\ Complete(p, output[Kid(p, 2)])

-----------------------------------------------------------------------------
(* ConditionPipelineRunner.                                                *)

BranchUpstream(p) ==
    /\ Running(p, "branch") /\ pos[p] = 0
    /\ pos' = [pos EXCEPT ![p] = 1]
    /\ Call(p, {Kid(p, 1)}, input[p])
    /\ UNCHANGED stream

UpstreamDone(p) == Running(p, "branch") /\ pos[p] = 1 /\ st[Kid(p, 1)] = "done"

\* Its output is streamed first, in one piece.
UpstreamShown(p) ==
    UpstreamDone(p) /\ how = "stream" /\ told[Kid(p, 1)] = 0 /\ Yield(Kid(p, 1))

UpstreamRead(p) == UpstreamDone(p) /\ (how = "stream" => told[Kid(p, 1)] # 0)

\* The branch gets it with the request.
BranchPick(p) ==
    /\ UpstreamRead(p)
    /\ \E i \in 2..Len(Kids[p]) :
         /\ pos' = [pos EXCEPT ![p] = i]
         /\ Call(p, {Kid(p, i)}, output[Kid(p, 1)] \o input[p])
    /\ UNCHANGED stream

\* No condition holds, and there is no else agent.
BranchNone(p) == UpstreamRead(p) /\ Complete(p, output[Kid(p, 1)])

BranchEnd(p) ==
    /\ Running(p, "branch") /\ pos[p] > 1 /\ st[Current(p)] = "done"
    /\ Complete(p, output[Current(p)])

-----------------------------------------------------------------------------
(* Failure and closing.                                                    *)

\* The exception of a step goes up, without FLOW_END.  That of a branch of a
\* ParallelFlow that runs leaves the other branches running.
Raise(p) ==
    /\ st[p] = "running" /\ Kind[p] # "agent" /\ pos[p] # 0
    /\ IF Kind[p] = "par"
       THEN how = "run" /\ \E k \in KidsOf(p) : st[k] = "failed"
       ELSE st[Current(p)] = "failed"
    /\ Leave(p, "failed", <<>>)
    /\ UNCHANGED ended

\* The consumer closes its stream: the generators it pulls end; drain tasks work on.
CloseFlow ==
    /\ "close" \in FlowEnv /\ how = "stream" /\ st[root] = "running"
    /\ st' = [n \in Nodes |-> IF st[n] = "running" /\ Sink[n] = User
                              THEN "closed" ELSE st[n]]
    /\ UNCHANGED <<root, how, texts, pos, stream, begun, ended>>

-----------------------------------------------------------------------------
Work(n) ==
    /\ st[n] = "running"
    /\ \/ AgentEnds(n)
       \/ SeqNext(n) \/ SeqEnd(n)
       \/ ParFork(n) \/ ParJoin(n) \/ ParTake(n) \/ ParStreamEnd(n)
       \/ CondPick(n) \/ CondEnd(n)
       \/ WhileBody(n) \/ WhileDone(n) \/ WhileNone(n) \/ WhileEnd(n)
       \/ BranchUpstream(n) \/ UpstreamShown(n) \/ BranchPick(n) \/ BranchNone(n)
       \/ BranchEnd(n)
       \/ Raise(n)

FlowNext == (\E n \in Nodes : Work(n) \/ AgentYields(n)) \/ CloseFlow

FlowSpec == FlowInit /\ [][FlowNext]_flowVars

\* Agents return (their iterations are bounded), and the event loop works as long as
\* some task can.
FairFlowSpec == FlowSpec /\ WF_flowVars(\E n \in Nodes : Work(n))

-----------------------------------------------------------------------------
(* Properties.                                                             *)

\* "Execute steps one after another": a step starts when the one before has
\* returned, with everything its own subtree was doing.
StepsInTurn ==
    \A p \in Nodes : Kind[p] = "seq" =>
      \A i, j \in 1..Len(Kids[p]) : i < j /\ st[Kid(p, j)] # "idle" =>
        /\ st[Kid(p, i)] = "done"
        /\ \A n \in Nodes : Kid(p, i) \in Above[n] => st[n] # "running"

\* "Each step receives the combined input: the original user message plus the
\* outputs of all previous steps", nested flows and their merges included.
InputIsCombined ==
    \A p \in Nodes : Kind[p] = "seq" /\ how = "run" =>
      \A i \in 1..Len(Kids[p]) : st[Kid(p, i)] # "idle" =>
        input[Kid(p, i)] = IF i = 1 THEN input[p]
                           ELSE input[Kid(p, i - 1)] \o output[Kid(p, i - 1)]

\* Streamed, a step reads what the consumer has seen of the steps before.
PipedIsStreamed ==
    Kind[root] = "seq" /\ how = "stream" /\ st[root] # "closed" =>
      /\ carry[root] = input[root] \o delivered
      /\ pos[root] > 0 =>
           LET text == input[Current(root)] IN text = SubSeq(carry[root], 1, Len(text))

\* The chunks of an agent among items, by their numbers.
ChunksOf(n, items) == {c[2] : c \in {x \in items : x[1] = n}}

\* The consumer gets the chunks of every agent once, in the agent's order and without
\* gaps, however the branches are interleaved; when the stream of a flow ends, it has
\* had all of them.
StreamIsComplete ==
    /\ \A i, j \in DOMAIN delivered :
         i < j /\ delivered[i][1] = delivered[j][1] => delivered[i][2] < delivered[j][2]
    /\ \A n \in Nodes :
         LET got == ChunksOf(n, ToSet(delivered)) IN
         /\ \A k \in got : 1..k \subseteq got
         /\ st[root] = "done" => got = 1..told[n]

\* A flow that has returned leaves nothing running and nothing queued, and every
\* flow that has not failed has dispatched as many FLOW_END as FLOW_START.
NothingIsLeft ==
    st[root] = "done" =>
      \A n \in Nodes :
        /\ st[n] # "running" /\ queue[n] = <<>>
        /\ st[n] = "done" => begun[n] = ended[n]

\* run raises if any agent of it raised.
RunReportsFailures ==
    how = "run" /\ st[root] = "done" => \A n \in Nodes : st[n] # "failed"

\* Every flow returns, raises, or is closed.
FlowsEnd == <>(st[root] # "running")

\* Every step starts in its turn, with the text it is to have.
TextIsRouted == FlowTypeOK /\ StepsInTurn /\ InputIsCombined /\ PipedIsStreamed

\* A flow that returns has delivered all text and all failures, and left no task.
NothingIsLost == StreamIsComplete /\ NothingIsLeft /\ RunReportsFailures
=============================================================================
