----------------------------- MODULE AgentProofs -----------------------------
(***************************************************************************)
(* What holds of a ReActAgent for any tools, limits, retries and number of *)
(* runs.  The memory only grows, by one message at a time, so the proofs   *)
(* first say what a message that is added changes (Grown, CountGrows), and *)
(* then which message each step adds (Adds).                               *)
(*                                                                         *)
(* What holds of a flow, for every tree of flows.  The proofs first say what*)
(* it is to be above a node, then what a call and a return change for the  *)
(* tree, the steps, the chunks on their way, the sentinels and the texts.  *)
(***************************************************************************)
EXTENDS ReActLoop, Flows, Integers, SequenceTheorems, FunctionTheorems, FiniteSetTheorems,
        NaturalsInduction, TLAPS

Busy == {"next", "ask", "execute", "running"}

\* Tool calls are there while they are worked on, streamed text while the model
\* speaks, and attempts are counted from zero for every call.
ControlOK ==
    /\ pc # "idle" => memory # <<>>
    /\ pc \notin Busy => todo = <<>>
    /\ pc \in Busy \ {"next"} => todo # <<>>
    /\ reply.got # "nothing" => pc \in {"think", "stream_end"} /\ mode = "stream"
    /\ pc \in {"input", "next", "ask"} => tries = 0
    /\ pc = "think" => tries <= LlmRetries
    /\ pc = "execute" => tries <= ToolRetries

\* While the tools of an answer are called, its message is followed by the
\* results so far and by nothing else, and the rest is still to be done.
OpenCall ==
    pc \in Busy =>
        \E c \in 1..Len(memory) :
            /\ memory[c].kind = "calls"
            /\ memory[c].n >= 1
            /\ memory[c].n = Len(memory) - c + Len(todo)
            /\ \A k \in 1..Len(memory)-c : memory[c + k] = [kind |-> "result", n |-> k]

\* u is the place of the last message of the user in mem.
IsLastUser(mem, u) ==
    /\ u \in 1..Len(mem)
    /\ mem[u].kind = "user"
    /\ \A j \in u+1..Len(mem) : mem[j].kind # "user"

UserSpoke == pc # "idle" => \E u \in 1..Len(memory) : IsLastUser(memory, u)

\* What the result will report is what the memory shows, at every point of a run.
Counted ==
    pc # "idle" =>
        /\ total = InThisRun("result")
        /\ mode = "run" =>
            /\ InThisRun("answer") + InThisRun("calls") =
                 IF pc \in Busy \cup {"output", "structure"} THEN step ELSE step - 1
            /\ pc \notin {"output", "structure"} => InThisRun("answer") = 0
            /\ pc \in {"output", "structure"} => memory[Len(memory)].kind = "answer"
            /\ pc = "input" => memory[Len(memory)].kind = "user" /\ step = 1

\* A gated tool on its way to execution has its approval; a tool is open while
\* it is called; the publisher is closed before the structured output is made.
Watched ==
    /\ tool_open => pc \in {"ask", "execute", "running", "idle"}
    /\ pc \in {"execute", "running"} /\ Head(todo) \in Gated =>
          grant = "given" \/ (path = "runtime" /\ ~ExecutorAsks)
    /\ pc = "structure" => pub # "open"

-----------------------------------------------------------------------------
\* What a message that is added to a memory changes.
LEMMA Grown ==
    ASSUME NEW mem \in Seq(Messages), NEW k, NEW n,
           [kind |-> k, n |-> n] \in Messages
    PROVE  LET grown == mem \o Msg(k, n) IN
           /\ grown \in Seq(Messages)
           /\ Len(grown) = Len(mem) + 1
           /\ \A i \in 1..Len(mem) : grown[i] = mem[i]
           /\ grown[Len(mem) + 1] = [kind |-> k, n |-> n]
  <1>1. mem \o Msg(k, n) = Append(mem, [kind |-> k, n |-> n])
    BY AppendIsConcat DEF Msg
  <1> QED BY <1>1, AppendProperties

\* The same in the terms of a step.
Adds(m) ==
    /\ m \in Messages
    /\ memory' \in Seq(Messages)
    /\ Len(memory') = Len(memory) + 1
    /\ \A i \in 1..Len(memory) : memory'[i] = memory[i]
    /\ memory'[Len(memory) + 1] = m

\* A message at the end of the memory.
LEMMA AddsMsg ==
    ASSUME TypeOK, NEW k \in {"system", "user", "answer", "partial", "calls", "result"},
           NEW n \in Nat, memory' = memory \o Msg(k, n)
    PROVE  Adds([kind |-> k, n |-> n])
  <1>1. memory \in Seq(Messages) /\ [kind |-> k, n |-> n] \in Messages
    BY DEF TypeOK, Messages
  <1> QED BY <1>1, Grown DEF Adds

\* What Hear adds, and what it leaves to do.
LEMMA Hears ==
    ASSUME TypeOK, NEW calls \in Seq(Tools), Hear(calls)
    PROVE  /\ todo' = calls /\ tries' = 0
           /\ \/ calls = <<>> /\ pc' = "output" /\ Adds([kind |-> "answer", n |-> 0])
              \/ /\ calls # <<>> /\ pc' = "next" /\ Len(calls) >= 1
                 /\ Adds([kind |-> "calls", n |-> Len(calls)])
  <1>1. CASE calls = <<>>
    BY <1>1, AddsMsg DEF Hear
  <1>2. CASE calls # <<>>
    <2>1. Len(calls) \in Nat /\ Len(calls) >= 1
      BY <1>2, EmptySeq, LenProperties
    <2> QED BY <1>2, <2>1, AddsMsg DEF Hear
  <1> QED BY <1>1, <1>2

\* The answers of the model are sequences of tools.
LEMMA AnswersAreCalls == Answers \subseteq Seq(Tools)
  <1> SUFFICES ASSUME NEW n \in 0..MaxCalls, NEW a \in [1..n -> Tools]
               PROVE  a \in Seq(Tools)
    BY DEF Answers
  <1>1. n \in Nat
    BY LoopAssumption
  <1> QED BY <1>1, SeqDef

\* The number of the next result.
NextResult == IF memory[Len(memory)].kind = "calls" THEN 1 ELSE memory[Len(memory)].n + 1

\* A result that is added answers the first call that is still to do.
LEMMA Results ==
    ASSUME TypeOK, ControlOK, OpenCall, pc \in Busy, todo # <<>>, Result
    PROVE  /\ Adds([kind |-> "result", n |-> NextResult])
           /\ todo' \in Seq(Tools)
           /\ Len(todo') = Len(todo) - 1
           /\ NextResult \in Nat
  <1>1. memory \in Seq(Messages) /\ Len(memory) \in Nat /\ todo \in Seq(Tools)
    BY LenProperties DEF TypeOK
  <1>2. Len(memory) >= 1
    BY <1>1 DEF OpenCall
  <1>3. memory[Len(memory)] \in Messages
    BY <1>1, <1>2, ElementOfSeq
  <1>4. NextResult \in Nat
    BY <1>3 DEF NextResult, Messages
  <1>5. memory' = memory \o Msg("result", NextResult) /\ todo' = Tail(todo)
    BY DEF Result, NextResult
  <1>6. Adds([kind |-> "result", n |-> NextResult])
    BY <1>4, <1>5, AddsMsg
  <1> QED BY <1>1, <1>4, <1>5, <1>6, HeadTailProperties

-----------------------------------------------------------------------------
(* The types, and the shape of the control state.                          *)

USE DEF loop, call, out, vars

\* Begin adds the system message once, and the user's message always.
LEMMA Begins ==
    ASSUME TypeOK, NEW m, Begin(m)
    PROVE  /\ memory' \in Seq(Messages)
           /\ Len(memory') \in Nat /\ Len(memory') >= 1
           /\ memory'[Len(memory')] = [kind |-> "user", n |-> 0]
           /\ \/ /\ Len(memory') = Len(memory) + 1
                 /\ \A i \in 1..Len(memory) : memory'[i] = memory[i]
              \/ /\ memory = <<>> /\ Len(memory') = 2
                 /\ memory'[1] = [kind |-> "system", n |-> 0]
  <1> DEFINE first == IF memory = <<>> THEN Msg("system", 0) ELSE memory
  <1>1. memory \in Seq(Messages) /\ Len(memory) \in Nat
    BY LenProperties DEF TypeOK
  <1>2. /\ [kind |-> "system", n |-> 0] \in Messages
        /\ [kind |-> "user", n |-> 0] \in Messages
    BY DEF Messages
  <1>3. /\ Msg("system", 0) \in Seq(Messages) /\ Len(Msg("system", 0)) = 1
        /\ Msg("system", 0)[1] = [kind |-> "system", n |-> 0]
    BY <1>2 DEF Msg
  <1>4. first \in Seq(Messages) /\ Len(first) \in Nat
    BY <1>1, <1>3
  <1>5. memory' = first \o Msg("user", 0)
    BY DEF Begin
  <1> HIDE DEF first
  <1>6. /\ memory' \in Seq(Messages) /\ Len(memory') = Len(first) + 1
        /\ \A i \in 1..Len(first) : memory'[i] = first[i]
        /\ memory'[Len(first) + 1] = [kind |-> "user", n |-> 0]
    BY <1>2, <1>4, <1>5, Grown
  <1> QED BY <1>1, <1>3, <1>4, <1>6 DEF first

\* Every step keeps the types.
LEMMA TypeStep == TypeOK /\ ControlOK /\ OpenCall /\ [Next]_vars => TypeOK'
<1> SUFFICES ASSUME TypeOK, ControlOK, OpenCall, [Next]_vars PROVE TypeOK'
  OBVIOUS
<1>0. /\ memory \in Seq(Messages) /\ Len(memory) \in Nat /\ todo \in Seq(Tools)
      /\ limit \in Nat /\ step \in 1..limit /\ tries \in Nat
      /\ 0 \in 0..(IF ToolRetries > LlmRetries THEN ToolRetries ELSE LlmRetries) + 1
      /\ {LlmRetries, ToolRetries, MaxRuns, MaxCalls} \subseteq Nat /\ Limits \subseteq Nat \ {0}
  BY LoopAssumption, LenProperties DEF TypeOK
<1>1. ASSUME memory' \in Seq(Messages), pub' \in {"none", "open", "closed"},
             NEW o \in Cut \cup {"completed", "guardrail", "max_iterations"}, End(o)
      PROVE  TypeOK'
  <2>1. Len(memory') \in Nat /\ <<>> \in Seq(Tools)
    BY <1>1, LenProperties, EmptySeq
  <2> QED BY <1>1, <2>1 DEF End, TypeOK, Nothing
<1>2. ASSUME NEW m \in {"run", "stream"}, Begin(m) PROVE TypeOK'
  <2>1. memory' \in Seq(Messages)
    BY <1>2, Begins
  <2>2. limit' \in Nat /\ step' \in 1..limit' /\ runs' \in 0..MaxRuns
    BY <1>0, <1>2 DEF Begin, TypeOK
  <2> QED BY <1>0, <1>2, <2>1, <2>2 DEF Begin, TypeOK
<1>3. CASE InputGuardrails
  BY <1>1, <1>3 DEF InputGuardrails, TypeOK, Close
<1>4. ASSUME NEW calls \in Seq(Tools), Hear(calls), reply' \in {reply, Nothing},
             UNCHANGED <<path, mode, limit, step, total, grant, tool_open, pub, outcome, runs, cuts>>
      PROVE  TypeOK'
  <2>1. memory' \in Seq(Messages) /\ pc' \in {"output", "next"} /\ todo' = calls /\ tries' = 0
    BY <1>4, Hears DEF Adds
  <2>2. Nothing \in [got : {"nothing", "text", "message"}, calls : Seq(Tools)]
    BY DEF Nothing
  <2> QED BY <1>0, <1>4, <2>1, <2>2 DEF TypeOK
<1>5. CASE Generate
  BY <1>4, <1>5, AnswersAreCalls DEF Generate
<1>6. CASE GenerateAgain
  BY <1>0, <1>6 DEF GenerateAgain, TypeOK
<1>7. CASE ModelFails
  BY <1>1, <1>7 DEF ModelFails, TypeOK, Cut
<1>8. CASE StreamDelta
  BY <1>8 DEF StreamDelta, TypeOK
<1>9. CASE StreamCompletion
  BY <1>9, AnswersAreCalls DEF StreamCompletion, TypeOK
<1>10. CASE StreamEnd
  <2>1. reply.calls \in Seq(Tools)
    BY DEF TypeOK
  <2> QED BY <1>4, <1>10, <2>1 DEF StreamEnd
<1>11. CASE StreamWithoutCompletion
  BY <1>11 DEF StreamWithoutCompletion, TypeOK, Nothing
<1>12. CASE OutputGuardrails
  <2>1. pub' \in {"none", "open", "closed"} /\ memory' \in Seq(Messages)
    BY <1>0, <1>12 DEF OutputGuardrails, Close, TypeOK
  <2> QED BY <1>1, <1>12, <2>1 DEF OutputGuardrails, TypeOK
<1>13. CASE Structure
  BY <1>1, <1>13 DEF Structure, TypeOK, Cut
<1>14. CASE MaxIterations
  BY <1>1, <1>14 DEF MaxIterations, TypeOK
<1>15. CASE NextIteration
  BY <1>0, <1>15 DEF NextIteration, TypeOK
<1>16. ASSUME Result, pc \in Busy, todo # <<>> PROVE TypeOK'
  <2>1. memory' \in Seq(Messages) /\ todo' \in Seq(Tools)
    BY <1>16, Results DEF Adds
  <2>2. total' \in Nat /\ tries' = 0 /\ pc' = "next" /\ grant' = "none" /\ tool_open' = FALSE
    BY <1>16 DEF Result, TypeOK
  <2>3. UNCHANGED <<path, mode, limit, step, reply, pub, outcome, runs, cuts>>
    BY <1>16 DEF Result
  <2> QED BY <1>0, <2>1, <2>2, <2>3 DEF TypeOK
<1>17. CASE ToolGuardrailTrips \/ ToolReturns
  BY <1>16, <1>17 DEF ToolGuardrailTrips, ToolReturns, ControlOK, Busy
<1>18. CASE ToolStart
  BY <1>16, <1>18 DEF ToolStart, TypeOK, Busy
<1>19. CASE Approval
  BY <1>16, <1>19 DEF Approval, TypeOK, Busy, ControlOK
<1>20. CASE Execute
  BY <1>0, <1>20 DEF Execute, TypeOK, ControlOK
<1>21. CASE ToolAgain
  BY <1>21 DEF ToolAgain, TypeOK
<1>22. CASE NoAnswer
  BY <1>1, <1>22 DEF NoAnswer, TypeOK, Cut
<1>23. CASE Cancel
  <2>1. memory' \in Seq(Messages)
    <3>1. reply.calls \in Seq(Tools) /\ Len(reply.calls) \in Nat
      BY LenProperties DEF TypeOK
    <3>2. CASE reply.got = "message" /\ reply.calls = <<>>
      <4>1. memory' = memory \o Msg("answer", 0)
        BY <1>23, <3>2 DEF Cancel
      <4> QED BY <4>1, AddsMsg DEF Adds
    <3>3. CASE reply.got = "message" /\ reply.calls # <<>>
      <4>1. memory' = memory \o Msg("calls", Len(reply.calls))
        BY <1>23, <3>3 DEF Cancel
      <4> QED BY <3>1, <4>1, AddsMsg DEF Adds
    <3>4. CASE reply.got = "text"
      <4>1. memory' = memory \o Msg("partial", 0)
        BY <1>23, <3>4 DEF Cancel
      <4> QED BY <4>1, AddsMsg DEF Adds
    <3>5. CASE reply.got = "nothing"
      <4>1. memory' = memory \o <<>>
        BY <1>23, <3>5 DEF Cancel
      <4> QED BY <1>0, <4>1, ConcatEmptySeq
    <3> QED BY <3>2, <3>3, <3>4, <3>5 DEF TypeOK
  <2> QED BY <1>1, <1>23, <2>1 DEF Cancel, TypeOK, Cut
<1>24. CASE UNCHANGED vars
  BY <1>24 DEF TypeOK
<1> QED
  BY <1>2, <1>3, <1>5, <1>6, <1>7, <1>8, <1>9, <1>10, <1>11, <1>12, <1>13, <1>14, <1>15,
     <1>17, <1>18, <1>19, <1>20, <1>21, <1>22, <1>23, <1>24 DEF Next, Progress

\* Every step keeps the shape of the control state.
LEMMA ControlStep == TypeOK /\ ControlOK /\ OpenCall /\ [Next]_vars => ControlOK'
<1> SUFFICES ASSUME TypeOK, ControlOK, OpenCall, [Next]_vars PROVE ControlOK'
  OBVIOUS
<1> USE DEF Busy
<1>0. LlmRetries \in Nat /\ ToolRetries \in Nat /\ tries \in Nat
  BY LoopAssumption DEF TypeOK
<1>1. ASSUME NEW o, End(o) PROVE ControlOK'
  BY <1>1 DEF End, ControlOK, Nothing
<1>2. ASSUME NEW m \in {"run", "stream"}, Begin(m) PROVE ControlOK'
  <2>1. memory' # <<>>
    BY <1>2, Begins
  <2> QED BY <1>0, <1>2, <2>1 DEF Begin, ControlOK
<1>3. CASE InputGuardrails
  <2>1. CASE pc' = "think" /\ UNCHANGED <<path, mode, loop, call, out, outcome, runs, cuts>>
    BY <1>0, <1>3, <2>1 DEF InputGuardrails, ControlOK
  <2> QED BY <1>1, <1>3, <2>1 DEF InputGuardrails
<1>4. ASSUME NEW calls \in Seq(Tools), Hear(calls), reply'.got = "nothing" PROVE ControlOK'
  <2>1. /\ memory' # <<>> /\ tries' = 0 /\ todo' = calls /\ pc' \in {"output", "next"}
        /\ (pc' = "output" => todo' = <<>>)
    <3>1. memory' \in Seq(Messages) /\ Len(memory') = Len(memory) + 1 /\ Len(memory) \in Nat
      BY <1>4, Hears, LenProperties DEF Adds, TypeOK
    <3>2. memory' # <<>>
      BY <3>1
    <3> QED BY <1>4, <3>2, Hears
  <2> QED BY <1>4, <2>1 DEF ControlOK
<1>5. CASE Generate
  <2>1. reply' = reply /\ reply.got = "nothing"
    BY <1>5 DEF Generate, ControlOK
  <2>2. PICK calls \in Answers : Hear(calls)
    BY <1>5 DEF Generate
  <2> QED BY <1>4, <2>1, <2>2, AnswersAreCalls
<1>6. CASE GenerateAgain
  BY <1>0, <1>6 DEF GenerateAgain, ControlOK
<1>7. CASE ModelFails \/ Structure \/ MaxIterations \/ NoAnswer \/ Cancel
  BY <1>1, <1>7 DEF ModelFails, Structure, MaxIterations, NoAnswer, Cancel
<1>8. CASE StreamDelta \/ StreamCompletion
  BY <1>8 DEF StreamDelta, StreamCompletion, ControlOK
<1>10. CASE StreamEnd
  <2>1. reply.calls \in Seq(Tools)
    BY DEF TypeOK
  <2> QED BY <1>4, <1>10, <2>1 DEF StreamEnd, Nothing
<1>11. CASE StreamWithoutCompletion
  BY <1>11 DEF StreamWithoutCompletion, ControlOK, Nothing
<1>12. CASE OutputGuardrails
  <2>1. CASE pc' = "structure" /\ UNCHANGED <<path, mode, loop, call, reply, outcome, runs, cuts>>
    BY <1>12, <2>1 DEF OutputGuardrails, ControlOK
  <2> QED BY <1>1, <1>12, <2>1 DEF OutputGuardrails
<1>15. CASE NextIteration
  BY <1>0, <1>15 DEF NextIteration, ControlOK
<1>16. ASSUME Result, pc \in Busy, todo # <<>> PROVE ControlOK'
  <2>1. memory' # <<>>
    <3>1. memory' \in Seq(Messages) /\ Len(memory') = Len(memory) + 1 /\ Len(memory) \in Nat
      BY <1>16, Results, LenProperties DEF Adds, TypeOK
    <3> QED BY <3>1
  <2> QED BY <1>16, <2>1 DEF Result, ControlOK
<1>17. CASE ToolGuardrailTrips \/ ToolReturns
  BY <1>16, <1>17 DEF ToolGuardrailTrips, ToolReturns, ControlOK
<1>18. CASE ToolStart
  BY <1>0, <1>16, <1>18 DEF ToolStart, ControlOK
<1>19. CASE Approval
  BY <1>0, <1>16, <1>19 DEF Approval, ControlOK
<1>20. CASE Execute \/ ToolAgain
  BY <1>0, <1>20 DEF Execute, ToolAgain, ControlOK
<1>24. CASE UNCHANGED vars
  BY <1>24 DEF ControlOK
<1> QED
  BY <1>2, <1>3, <1>5, <1>6, <1>7, <1>8, <1>10, <1>11, <1>12, <1>15,
     <1>17, <1>18, <1>19, <1>20, <1>24 DEF Next, Progress

-----------------------------------------------------------------------------
(* What a step does to the memory.                                         *)

Keeps ==
    /\ UNCHANGED <<memory, todo, cuts>>
    /\ pc' \in Busy => pc \in Busy
    /\ pc = "idle" => pc' = "idle"

AddsResult ==
    /\ pc \in Busy /\ pc' = "next" /\ todo # <<>>
    /\ Adds([kind |-> "result", n |-> NextResult])
    /\ Len(todo') = Len(todo) - 1
    /\ cuts' = cuts

AddsAnswer ==
    /\ pc \in {"think", "stream_end"} /\ pc' = "output"
    /\ Adds([kind |-> "answer", n |-> 0])
    /\ todo = <<>> /\ todo' = <<>> /\ cuts' = cuts

AddsCalls ==
    /\ pc \in {"think", "stream_end"} /\ pc' = "next"
    /\ Len(todo') >= 1
    /\ Adds([kind |-> "calls", n |-> Len(todo')])
    /\ todo = <<>> /\ cuts' = cuts

CutShort ==
    /\ pc # "idle" /\ pc' = "idle"
    /\ todo' = <<>>
    /\ cuts' = cuts \cup {Len(memory')}
    /\ \/ memory' = memory
       \/ /\ todo = <<>>
          /\ \E m \in Messages : m.kind \in {"answer", "partial", "calls"} /\ Adds(m)

UserSpeaks ==
    /\ \E m \in {"run", "stream"} : Begin(m)
    /\ todo = <<>>

MemoryMove == Keeps \/ AddsResult \/ AddsAnswer \/ AddsCalls \/ CutShort \/ UserSpeaks

\* Every step is one of these.
LEMMA MemoryMoves == TypeOK /\ ControlOK /\ OpenCall /\ [Next]_vars => MemoryMove
<1> SUFFICES ASSUME TypeOK, ControlOK, OpenCall, [Next]_vars PROVE MemoryMove
  OBVIOUS
<1> USE DEF Busy
<1>1. ASSUME NEW o \in {"completed", "guardrail", "max_iterations"}, End(o),
             memory' = memory, todo = <<>>
      PROVE  MemoryMove
  BY <1>1 DEF End, Cut, Keeps, MemoryMove
<1>2. ASSUME NEW o \in Cut, End(o), memory' = memory, pc # "idle" PROVE MemoryMove
  BY <1>2 DEF End, CutShort, MemoryMove
<1>3. ASSUME NEW m \in {"run", "stream"}, Begin(m) PROVE MemoryMove
  BY <1>3 DEF Begin, ControlOK, UserSpeaks, MemoryMove
<1>4. CASE InputGuardrails \/ OutputGuardrails
  BY <1>1, <1>4 DEF InputGuardrails, OutputGuardrails, Keeps, MemoryMove, ControlOK
<1>5. CASE Structure
  BY <1>1, <1>2, <1>5 DEF Structure, Cut, ControlOK
<1>6. CASE MaxIterations
  BY <1>1, <1>6 DEF MaxIterations
<1>7. CASE ModelFails \/ NoAnswer
  BY <1>2, <1>7 DEF ModelFails, NoAnswer, Cut
<1>8. CASE \/ GenerateAgain \/ StreamDelta \/ StreamCompletion \/ StreamWithoutCompletion
           \/ NextIteration \/ Execute \/ ToolAgain
  BY <1>8 DEF GenerateAgain, StreamDelta, StreamCompletion, StreamWithoutCompletion,
              NextIteration, Execute, ToolAgain, Keeps, MemoryMove
<1>9. ASSUME NEW calls \in Seq(Tools), Hear(calls), pc \in {"think", "stream_end"}, cuts' = cuts
      PROVE  MemoryMove
  <2>1. todo = <<>>
    BY <1>9 DEF ControlOK
  <2> QED BY <1>9, <2>1, Hears DEF AddsAnswer, AddsCalls, MemoryMove
<1>10. CASE Generate
  BY <1>9, <1>10, AnswersAreCalls DEF Generate
<1>11. CASE StreamEnd
  <2>1. reply.calls \in Seq(Tools)
    BY DEF TypeOK
  <2> QED BY <1>9, <1>11, <2>1 DEF StreamEnd
<1>12. ASSUME Result, pc \in Busy, todo # <<>> PROVE MemoryMove
  <2>1. pc' = "next" /\ cuts' = cuts
    BY <1>12 DEF Result
  <2> QED BY <1>12, <2>1, Results DEF AddsResult, MemoryMove
<1>13. CASE ToolGuardrailTrips \/ ToolReturns
  BY <1>12, <1>13 DEF ToolGuardrailTrips, ToolReturns, ControlOK
<1>14. CASE ToolStart \/ Approval
  BY <1>12, <1>14 DEF ToolStart, Approval, ControlOK, Keeps, MemoryMove
<1>15. CASE Cancel
  <2>0. pc' = "idle" /\ todo' = <<>> /\ cuts' = cuts \cup {Len(memory')} /\ pc # "idle"
    BY <1>15 DEF Cancel, End, Cut
  <2>1. CASE reply.got = "nothing"
    <3>1. memory' = memory \o <<>> /\ memory \in Seq(Messages)
      BY <1>15, <2>1 DEF Cancel, TypeOK
    <3>2. memory' = memory
      BY <3>1, ConcatEmptySeq
    <3> QED BY <2>0, <3>2 DEF CutShort, MemoryMove
  <2>2. CASE reply.got # "nothing"
    <3>1. todo = <<>>
      BY <2>2 DEF ControlOK
    <3>2. reply.calls \in Seq(Tools) /\ Len(reply.calls) \in Nat /\ reply.got \in {"text", "message"}
      BY <2>2, LenProperties DEF TypeOK
    <3>3. PICK k \in {"answer", "partial", "calls"}, n \in Nat : memory' = memory \o Msg(k, n)
      BY <1>15, <3>2 DEF Cancel
    <3>4. Adds([kind |-> k, n |-> n])
      BY <3>3, AddsMsg
    <3>5. [kind |-> k, n |-> n] \in Messages
      BY DEF Messages
    <3> QED BY <2>0, <3>1, <3>4, <3>5 DEF CutShort, MemoryMove
  <2> QED BY <2>1, <2>2
<1>16. CASE UNCHANGED vars
  BY <1>16 DEF Keeps, MemoryMove
<1> QED
  BY <1>3, <1>4, <1>5, <1>6, <1>7, <1>8, <1>10, <1>11, <1>13, <1>14, <1>15, <1>16
     DEF Next, Progress

-----------------------------------------------------------------------------
(* The conversation stays legal.                                           *)

\* While the tools are called, the call the next result answers is the last one
\* of the memory, and the result has the right number.
LEMMA NextResultFits ==
    ASSUME TypeOK, OpenCall, pc \in Busy, todo # <<>>
    PROVE  \E c \in 1..Len(memory) :
              /\ memory[c].kind = "calls"
              /\ NextResult = Len(memory) - c + 1
              /\ NextResult <= memory[c].n
              /\ memory[c].n = Len(memory) - c + Len(todo)
              /\ \A k \in 1..Len(memory)-c : memory[c + k] = [kind |-> "result", n |-> k]
  <1>1. Len(memory) \in Nat /\ Len(todo) \in Nat /\ Len(todo) >= 1
    BY LenProperties, EmptySeq DEF TypeOK
  <1>2. PICK c \in 1..Len(memory) :
            /\ memory[c].kind = "calls"
            /\ memory[c].n >= 1
            /\ memory[c].n = Len(memory) - c + Len(todo)
            /\ \A k \in 1..Len(memory)-c : memory[c + k] = [kind |-> "result", n |-> k]
    BY DEF OpenCall
  <1>3. NextResult = Len(memory) - c + 1
    <2>1. CASE c = Len(memory)
      BY <1>1, <1>2, <2>1 DEF NextResult
    <2>2. CASE c < Len(memory)
      <3> DEFINE k == Len(memory) - c
      <3>1. k \in 1..Len(memory)-c /\ c + k = Len(memory)
        BY <1>1, <2>2
      <3>2. memory[Len(memory)] = [kind |-> "result", n |-> Len(memory) - c]
        BY <1>2, <3>1
      <3> QED BY <3>2 DEF NextResult
    <2> QED BY <1>1, <2>1, <2>2
  <1> QED BY <1>1, <1>2, <1>3

\* Every step keeps the answer that is worked on at the end of the memory.
LEMMA OpenStep == TypeOK /\ OpenCall /\ MemoryMove => OpenCall'
<1> SUFFICES ASSUME TypeOK, OpenCall, MemoryMove, pc' \in Busy
             PROVE  \E c \in 1..Len(memory') :
                       /\ memory'[c].kind = "calls"
                       /\ memory'[c].n >= 1
                       /\ memory'[c].n = Len(memory') - c + Len(todo')
                       /\ \A k \in 1..Len(memory')-c :
                             memory'[c + k] = [kind |-> "result", n |-> k]
  BY DEF OpenCall
<1>0. Len(memory) \in Nat /\ Len(todo) \in Nat
  BY LenProperties DEF TypeOK
<1>1. CASE Keeps
  BY <1>1 DEF Keeps, OpenCall
<1>2. CASE AddsResult
  <2>1. PICK c \in 1..Len(memory) :
            /\ memory[c].kind = "calls"
            /\ NextResult = Len(memory) - c + 1
            /\ NextResult <= memory[c].n
            /\ memory[c].n = Len(memory) - c + Len(todo)
            /\ \A k \in 1..Len(memory)-c : memory[c + k] = [kind |-> "result", n |-> k]
    BY <1>2, NextResultFits DEF AddsResult
  <2>2. /\ Len(memory') = Len(memory) + 1
        /\ \A i \in 1..Len(memory) : memory'[i] = memory[i]
        /\ memory'[Len(memory) + 1] = [kind |-> "result", n |-> Len(memory) - c + 1]
        /\ Len(todo') = Len(todo) - 1
    BY <1>2, <2>1 DEF AddsResult, Adds
  <2>3. c \in 1..Len(memory') /\ memory'[c] = memory[c]
    BY <1>0, <2>2
  <2>4. ASSUME NEW k \in 1..Len(memory')-c
        PROVE  memory'[c + k] = [kind |-> "result", n |-> k]
    <3>1. CASE k = Len(memory) - c + 1
      <4>1. c + k = Len(memory) + 1
        BY <1>0, <3>1
      <4> QED BY <2>2, <3>1, <4>1
    <3>2. CASE k # Len(memory) - c + 1
      <4>1. k \in 1..Len(memory)-c /\ c + k \in 1..Len(memory)
        BY <1>0, <2>2, <3>2
      <4> QED BY <2>1, <2>2, <4>1
    <3> QED BY <3>1, <3>2
  <2>5. memory'[c].n = Len(memory') - c + Len(todo') /\ memory'[c].n >= 1
    BY <1>0, <2>1, <2>2, <2>3
  <2> QED BY <2>1, <2>3, <2>4, <2>5
<1>3. CASE AddsCalls
  <2>1. /\ Len(memory') = Len(memory) + 1
        /\ memory'[Len(memory')] = [kind |-> "calls", n |-> Len(todo')]
        /\ Len(todo') >= 1 /\ Len(todo') \in Nat
    BY <1>3 DEF AddsCalls, Adds, Messages
  <2>2. /\ Len(memory') \in 1..Len(memory')
        /\ memory'[Len(memory')].kind = "calls"
        /\ memory'[Len(memory')].n >= 1
        /\ memory'[Len(memory')].n = Len(memory') - Len(memory') + Len(todo')
        /\ 1..Len(memory')-Len(memory') = {}
    BY <1>0, <2>1
  <2> QED BY <2>2
<1>4. CASE AddsAnswer \/ CutShort \/ UserSpeaks
  BY <1>4 DEF AddsAnswer, CutShort, UserSpeaks, Begin, Busy
<1> QED BY <1>1, <1>2, <1>3, <1>4 DEF MemoryMove

\* Message i has a k-th call.
IsCall(mem, i, k) == i \in 1..Len(mem) /\ mem[i].kind = "calls" /\ k \in 1..mem[i].n

\* The k-th call of message i has its result, or its run was cut short before.
Settled(mem, cutAt, i, k) ==
    \/ i + k <= Len(mem) /\ mem[i + k] = [kind |-> "result", n |-> k]
    \/ \E c \in cutAt : i <= c /\ c < i + k

\* A memory that grows keeps what was settled.
LEMMA SettledStays ==
    ASSUME NEW mem \in Seq(Messages), NEW grown \in Seq(Messages),
           Len(mem) <= Len(grown), \A i \in 1..Len(mem) : grown[i] = mem[i],
           NEW old, NEW new, old \subseteq new,
           NEW i \in 1..Len(mem), NEW k \in Nat, k >= 1, Settled(mem, old, i, k)
    PROVE  Settled(grown, new, i, k)
  <1>1. Len(mem) \in Nat /\ Len(grown) \in Nat
    BY LenProperties
  <1> QED BY <1>1 DEF Settled

\* Only the answer that is worked on has calls that are not settled.
LEMMA UnsettledIsOpen ==
    ASSUME TypeOK, CallsAreAnswered, OpenCall, ControlOK,
           NEW i \in Nat, NEW k \in Nat, IsCall(memory, i, k), ~Settled(memory, cuts, i, k)
    PROVE  /\ todo # <<>> /\ pc \in Busy
           /\ i \in 1..Len(memory) /\ i + k > Len(memory)
           /\ \A j \in 1..Len(memory)-i : memory[i + j] = [kind |-> "result", n |-> j]
           /\ memory[i].n = Len(memory) - i + Len(todo)
  <1>1. /\ Len(memory) \in Nat
        /\ memory[i].n \in Nat /\ cuts \subseteq Nat /\ k \in Nat
        /\ i \in 1..Len(memory) /\ memory[i].kind = "calls" /\ k \in 1..memory[i].n
    <2>1. memory \in Seq(Messages) /\ cuts \subseteq Nat
      BY DEF TypeOK
    <2>2. /\ Len(memory) \in Nat /\ memory[i] \in Messages
          /\ i \in 1..Len(memory) /\ memory[i].kind = "calls" /\ k \in 1..memory[i].n
      BY <2>1, LenProperties, ElementOfSeq DEF IsCall
    <2>3. memory[i].n \in Nat
      BY <2>2 DEF Messages
    <2> QED BY <2>1, <2>2, <2>3
  <1>2. i + k > Len(memory) /\ todo # <<>>
    BY <1>1 DEF CallsAreAnswered, Settled, Msg
  <1>3. pc \in Busy
    BY <1>2 DEF ControlOK
  <1>4. PICK c \in 1..Len(memory) :
            /\ memory[c].kind = "calls"
            /\ memory[c].n = Len(memory) - c + Len(todo)
            /\ \A j \in 1..Len(memory)-c : memory[c + j] = [kind |-> "result", n |-> j]
    BY <1>3 DEF OpenCall
  <1>5. ~(c < i)
    <2> SUFFICES ASSUME c < i PROVE FALSE
      OBVIOUS
    <2>1. (i - c) \in 1..Len(memory)-c /\ c + (i - c) = i
      BY <1>1
    <2>2. memory[i] = [kind |-> "result", n |-> i - c]
      BY <1>4, <2>1
    <2> QED BY <1>1, <2>2
  <1>6. ~(i < c)
    <2> SUFFICES ASSUME i < c PROVE FALSE
      OBVIOUS
    <2>1. (c - i) \in 1..memory[i].n /\ i + (c - i) = c /\ c - i < k
      BY <1>1, <1>2
    <2>2. \/ i + (c - i) <= Len(memory) /\ memory[i + (c - i)] = Msg("result", c - i)[1]
          \/ i + (c - i) > Len(memory) /\ todo # <<>>
          \/ \E d \in cuts : i <= d /\ d < i + (c - i)
      BY <1>1, <2>1 DEF CallsAreAnswered
    <2>3. memory[c] # Msg("result", c - i)[1]
      BY <1>4 DEF Msg
    <2>4. i + (c - i) <= Len(memory)
      BY <1>1, <2>1
    <2>5. PICK d \in cuts : i <= d /\ d < i + (c - i)
      BY <1>1, <2>1, <2>2, <2>3, <2>4
    <2>6. d < i + k
      BY <1>1, <2>1, <2>5
    <2> QED BY <2>5, <2>6 DEF Settled
  <1>7. c = i
    BY <1>1, <1>5, <1>6
  <1> QED BY <1>1, <1>2, <1>3, <1>4, <1>7

\* Every move lets the memory grow, if anything.
LEMMA MemoryGrows ==
    ASSUME TypeOK, MemoryMove
    PROVE  /\ memory' \in Seq(Messages)
           /\ Len(memory) \in Nat /\ Len(memory') \in Nat /\ Len(memory) <= Len(memory')
           /\ \A i \in 1..Len(memory) : memory'[i] = memory[i]
           /\ cuts \subseteq cuts'
  <1>0. memory \in Seq(Messages) /\ Len(memory) \in Nat
    BY LenProperties DEF TypeOK
  <1>1. CASE memory' = memory
    BY <1>0, <1>1 DEF MemoryMove, Keeps, AddsResult, AddsAnswer, AddsCalls, CutShort,
                      UserSpeaks, Begin
  <1>2. ASSUME NEW m, Adds(m)
        PROVE  /\ memory' \in Seq(Messages) /\ Len(memory') \in Nat
               /\ Len(memory) <= Len(memory')
               /\ \A i \in 1..Len(memory) : memory'[i] = memory[i]
    BY <1>0, <1>2 DEF Adds
  <1>3. ASSUME NEW m \in {"run", "stream"}, Begin(m)
        PROVE  /\ memory' \in Seq(Messages) /\ Len(memory') \in Nat
               /\ Len(memory) <= Len(memory')
               /\ \A i \in 1..Len(memory) : memory'[i] = memory[i]
    <2>1. CASE memory = <<>>
      BY <1>0, <1>3, <2>1, Begins
    <2>2. CASE memory # <<>>
      BY <1>0, <1>3, <2>2, Begins
    <2> QED BY <2>1, <2>2
  <1>4. cuts \subseteq cuts'
    BY DEF MemoryMove, Keeps, AddsResult, AddsAnswer, AddsCalls, CutShort, UserSpeaks, Begin
  <1> QED BY <1>0, <1>1, <1>2, <1>3, <1>4
             DEF MemoryMove, Keeps, AddsResult, AddsAnswer, AddsCalls, CutShort, UserSpeaks

\* What is new in the memory when the user speaks.
LEMMA SpokenMessages ==
    ASSUME TypeOK, UserSpeaks, NEW i \in Nat, i > Len(memory), i <= Len(memory')
    PROVE  memory'[i].kind \in {"user", "system"}
<1>1. PICK m \in {"run", "stream"} : Begin(m)
  BY DEF UserSpeaks
<1>2. Len(memory) \in Nat /\ Len(memory') \in Nat
  BY <1>1, Begins, LenProperties DEF TypeOK
<1>3. CASE Len(memory') = Len(memory) + 1
  <2>1. i = Len(memory')
    BY <1>2, <1>3
  <2> QED BY <1>1, <2>1, Begins
<1>4. CASE Len(memory') # Len(memory) + 1
  <2>1. /\ Len(memory') = 2 /\ memory'[1] = [kind |-> "system", n |-> 0]
        /\ memory'[Len(memory')] = [kind |-> "user", n |-> 0]
    BY <1>1, <1>4, Begins
  <2>2. i = 1 \/ i = 2
    BY <1>2, <2>1
  <2> QED BY <2>1, <2>2
<1> QED BY <1>3, <1>4

\* Every call of the new memory is settled or still to be done.
LEMMA CallsStep ==
    ASSUME TypeOK, ControlOK, OpenCall, CallsAreAnswered, MemoryMove,
           NEW i \in Nat, NEW k \in Nat, IsCall(memory', i, k)
    PROVE  \/ Settled(memory', cuts', i, k)
           \/ i + k > Len(memory') /\ todo' # <<>>
<1>0. /\ memory \in Seq(Messages) /\ memory' \in Seq(Messages)
      /\ Len(memory) \in Nat /\ Len(memory') \in Nat /\ Len(memory) <= Len(memory')
      /\ \A j \in 1..Len(memory) : memory'[j] = memory[j]
      /\ cuts \subseteq cuts'
  BY MemoryGrows DEF TypeOK
<1>n. /\ memory'[i].n \in Nat /\ k \in Nat /\ k >= 1 /\ i \in Nat
      /\ i >= 1 /\ i <= Len(memory') /\ memory'[i].kind = "calls" /\ k <= memory'[i].n
  <2>1. i \in 1..Len(memory') /\ memory'[i].kind = "calls" /\ k \in 1..memory'[i].n
    BY DEF IsCall
  <2>2. memory'[i] \in Messages
    BY <1>0, <2>1, ElementOfSeq
  <2>3. memory'[i].n \in Nat
    BY <2>2 DEF Messages
  <2> QED BY <1>0, <2>1, <2>3
<1>1. CASE i \in 1..Len(memory) /\ Settled(memory, cuts, i, k)
  BY <1>0, <1>n, <1>1, SettledStays
<1>2. CASE i \in 1..Len(memory) /\ ~Settled(memory, cuts, i, k)
  <2>0. IsCall(memory, i, k) /\ memory[i].kind = "calls" /\ k <= memory[i].n
    BY <1>0, <1>n, <1>2 DEF IsCall
  <2>1. /\ todo # <<>> /\ pc \in Busy
        /\ i + k > Len(memory)
        /\ \A j \in 1..Len(memory)-i : memory[i + j] = [kind |-> "result", n |-> j]
        /\ memory[i].n = Len(memory) - i + Len(todo)
    BY <1>2, <2>0, UnsettledIsOpen
  <2>2. CASE Keeps
    BY <2>1, <2>2 DEF Keeps
  <2>3. CASE CutShort
    <3>1. memory' = memory /\ Len(memory) \in cuts'
      BY <2>1, <2>3 DEF CutShort
    <3> QED BY <1>0, <1>2, <2>1, <3>1 DEF Settled
  <2>4. CASE AddsResult
    <3>1. PICK c \in 1..Len(memory) :
              /\ memory[c].kind = "calls"
              /\ NextResult = Len(memory) - c + 1
              /\ memory[c].n = Len(memory) - c + Len(todo)
              /\ \A j \in 1..Len(memory)-c : memory[c + j] = [kind |-> "result", n |-> j]
      BY <2>1, NextResultFits
    <3>2. ~(i < c)
      <4> SUFFICES ASSUME i < c PROVE FALSE
        OBVIOUS
      <4>1. (c - i) \in 1..Len(memory)-i /\ i + (c - i) = c
        BY <1>0, <1>n
      <4>2. memory[c] = [kind |-> "result", n |-> c - i]
        BY <2>1, <4>1
      <4> QED BY <3>1, <4>2
    <3>3. ~(c < i)
      <4> SUFFICES ASSUME c < i PROVE FALSE
        OBVIOUS
      <4>1. (i - c) \in 1..Len(memory)-c /\ c + (i - c) = i
        BY <1>0, <1>2, <1>n
      <4>2. memory[i] = [kind |-> "result", n |-> i - c]
        BY <3>1, <4>1
      <4> QED BY <2>0, <4>2
    <3>4. NextResult = Len(memory) - i + 1
      <4>1. c = i
        BY <1>0, <1>n, <3>2, <3>3
      <4> QED BY <3>1, <4>1
    <3>5. /\ Len(memory') = Len(memory) + 1 /\ Len(todo') = Len(todo) - 1
          /\ memory'[Len(memory) + 1] = [kind |-> "result", n |-> Len(memory) - i + 1]
      BY <2>4, <3>4 DEF AddsResult, Adds
    <3>6. CASE i + k = Len(memory) + 1
      <4>1. k = Len(memory) - i + 1 /\ i + k <= Len(memory')
        BY <1>0, <1>n, <3>5, <3>6
      <4> QED BY <3>5, <3>6, <4>1 DEF Settled
    <3>7. CASE i + k > Len(memory) + 1
      <4>1. i + k > Len(memory')
        BY <3>5, <3>7
      <4>2. Len(todo) \in Nat /\ Len(todo) > 1
        <5>1. Len(todo) \in Nat
          BY LenProperties DEF TypeOK
        <5> QED BY <1>0, <1>n, <2>0, <2>1, <3>7, <5>1
      <4>3. ASSUME todo' = <<>> PROVE FALSE
        <5>1. Len(todo') = 0
          BY <4>3
        <5>2. Len(todo') = Len(todo) - 1
          BY <3>5
        <5>3. \A m \in Nat : m > 1 => m - 1 # 0
          OBVIOUS
        <5>4. Len(todo) - 1 # 0
          BY <4>2, <5>3
        <5> QED BY <5>1, <5>2, <5>4, Zenon
      <4>4. todo' # <<>>
        BY <4>3
      <4> QED BY <4>1, <4>4
    <3>8. i + k = Len(memory) + 1 \/ i + k > Len(memory) + 1
      <4>1. i + k > Len(memory)
        BY <2>1
      <4>2. \A a, b \in Nat : a > b => a = b + 1 \/ a > b + 1
        OBVIOUS
      <4>3. i + k \in Nat /\ Len(memory) \in Nat
        BY <1>0, <1>n
      <4> QED BY <4>1, <4>2, <4>3, Zenon
    <3> QED BY <3>6, <3>7, <3>8
  <2>5. CASE AddsAnswer \/ AddsCalls \/ UserSpeaks
    BY <2>1, <2>5 DEF AddsAnswer, AddsCalls, UserSpeaks
  <2> QED BY <2>2, <2>3, <2>4, <2>5 DEF MemoryMove
<1>3. CASE i \notin 1..Len(memory)
  <2>1. i > Len(memory)
    BY <1>0, <1>3, <1>n
  <2>2. CASE AddsCalls
    <3>1. Len(memory') = Len(memory) + 1 /\ Len(todo') >= 1
      BY <2>2 DEF AddsCalls, Adds
    <3>2. todo' # <<>>
      BY <3>1, EmptySeq
    <3> QED BY <1>0, <1>n, <2>1, <3>1, <3>2
  <2>3. CASE CutShort
    <3>1. Len(memory') = Len(memory) + 1 /\ Len(memory') \in cuts'
      BY <1>0, <1>n, <2>1, <2>3 DEF CutShort, Adds
    <3>2. i = Len(memory')
      BY <1>0, <1>n, <2>1, <3>1
    <3> QED BY <1>0, <1>n, <3>1, <3>2 DEF Settled
  <2>4. CASE AddsResult \/ AddsAnswer
    <3>1. /\ Len(memory') = Len(memory) + 1
          /\ memory'[Len(memory) + 1].kind \in {"result", "answer"}
      BY <2>4 DEF AddsResult, AddsAnswer, Adds
    <3>2. i = Len(memory) + 1
      BY <1>0, <1>n, <2>1, <3>1
    <3> QED BY <1>n, <3>1, <3>2
  <2>5. CASE Keeps
    BY <1>0, <1>n, <1>3, <2>5 DEF Keeps
  <2>6. CASE UserSpeaks
    BY <1>0, <1>n, <2>1, <2>6, SpokenMessages
  <2> QED BY <2>2, <2>3, <2>4, <2>5, <2>6 DEF MemoryMove
<1> QED BY <1>1, <1>2, <1>3

\* Every result of the new memory stands after its call.
LEMMA ResultsStep ==
    ASSUME TypeOK, OpenCall, CallsAreAnswered, MemoryMove,
           NEW i \in 1..Len(memory'), memory'[i].kind = "result"
    PROVE  /\ memory'[i].n < i
           /\ memory'[i - memory'[i].n].kind = "calls"
           /\ memory'[i].n <= memory'[i - memory'[i].n].n
<1>0. /\ memory \in Seq(Messages) /\ memory' \in Seq(Messages)
      /\ Len(memory) \in Nat /\ Len(memory') \in Nat /\ Len(memory) <= Len(memory')
      /\ \A j \in 1..Len(memory) : memory'[j] = memory[j]
  BY MemoryGrows DEF TypeOK
<1>1. CASE i <= Len(memory)
  <2>1. i \in 1..Len(memory) /\ memory'[i] = memory[i] /\ memory[i] \in Messages
    BY <1>0, <1>1, ElementOfSeq
  <2>2. PICK n \in Nat : n = memory[i].n
    BY <2>1 DEF Messages
  <2>3. n < i /\ memory[i - n].kind = "calls" /\ n <= memory[i - n].n
    BY <2>1, <2>2 DEF CallsAreAnswered
  <2>4. i - n \in 1..Len(memory)
    BY <2>1, <2>3, <1>0
  <2>5. memory'[i - n] = memory[i - n]
    BY <1>0, <2>4
  <2> QED BY <2>1, <2>2, <2>3, <2>5
<1>2. CASE i > Len(memory)
  <2>1. CASE AddsResult
    <3>1. PICK c \in 1..Len(memory) :
              /\ memory[c].kind = "calls"
              /\ NextResult = Len(memory) - c + 1
              /\ NextResult <= memory[c].n
      BY <2>1, NextResultFits DEF AddsResult
    <3>2. /\ Len(memory') = Len(memory) + 1
          /\ memory'[Len(memory) + 1] = [kind |-> "result", n |-> NextResult]
      BY <2>1 DEF AddsResult, Adds
    <3>3. i = Len(memory) + 1 /\ memory'[i].n = NextResult
      BY <1>0, <1>2, <3>2
    <3>4. NextResult < i /\ i - NextResult = c
      BY <1>0, <3>1, <3>3
    <3>5. memory'[c] = memory[c]
      BY <1>0
    <3> QED BY <3>1, <3>3, <3>4, <3>5
  <2>2. CASE AddsAnswer \/ AddsCalls
    <3>1. Len(memory') = Len(memory) + 1 /\ memory'[Len(memory) + 1].kind # "result"
      BY <2>2 DEF AddsAnswer, AddsCalls, Adds
    <3>2. i = Len(memory) + 1
      BY <1>0, <1>2, <3>1
    <3> QED BY <3>1, <3>2
  <2>3. CASE CutShort
    <3>1. Len(memory') = Len(memory) + 1 /\ memory'[Len(memory) + 1].kind # "result"
      BY <1>0, <1>2, <2>3 DEF CutShort, Adds
    <3>2. i = Len(memory) + 1
      BY <1>0, <1>2, <3>1
    <3> QED BY <3>1, <3>2
  <2>4. CASE Keeps
    BY <1>0, <1>2, <2>4 DEF Keeps
  <2>5. CASE UserSpeaks
    BY <1>0, <1>2, <2>5, SpokenMessages
  <2> QED BY <2>1, <2>2, <2>3, <2>4, <2>5 DEF MemoryMove
<1> QED BY <1>0, <1>1, <1>2

\* Every step keeps the calls answered.
LEMMA AnsweredStep ==
    TypeOK /\ ControlOK /\ OpenCall /\ CallsAreAnswered /\ MemoryMove => CallsAreAnswered'
<1> SUFFICES ASSUME TypeOK, ControlOK, OpenCall, CallsAreAnswered, MemoryMove
             PROVE  CallsAreAnswered'
  OBVIOUS
<1>0. memory' \in Seq(Messages) /\ Len(memory') \in Nat
  BY MemoryGrows
<1>1. ASSUME NEW i \in 1..Len(memory'), memory'[i].kind = "calls",
             NEW k \in 1..memory'[i].n
      PROVE  \/ i + k <= Len(memory') /\ memory'[i + k] = Msg("result", k)[1]
             \/ i + k > Len(memory') /\ todo' # <<>>
             \/ \E c \in cuts' : i <= c /\ c < i + k
  <2>1. memory'[i] \in Messages
    BY <1>0, <1>1, ElementOfSeq
  <2>2. i \in Nat /\ k \in Nat /\ IsCall(memory', i, k)
    BY <1>0, <1>1, <2>1 DEF IsCall, Messages
  <2>3. Settled(memory', cuts', i, k) \/ (i + k > Len(memory') /\ todo' # <<>>)
    BY <2>2, CallsStep
  <2> QED BY <2>3 DEF Settled, Msg
<1> QED BY <1>1, ResultsStep DEF CallsAreAnswered

-----------------------------------------------------------------------------
(* What is counted since the user has spoken.                              *)

LastUserOf(mem) == CHOOSE i \in 1..Len(mem) : /\ mem[i].kind = "user"
                                              /\ \A j \in i+1..Len(mem) : mem[j].kind # "user"

Places(mem, u, kind) == {i \in u..Len(mem) : mem[i].kind = kind}

\* The last message of the user is the one that LastUser chooses.
LEMMA LastUserIs ==
    ASSUME NEW mem, Len(mem) \in Nat, NEW u, IsLastUser(mem, u)
    PROVE  LastUserOf(mem) = u
  <1> DEFINE v == LastUserOf(mem)
  <1>1. /\ v \in 1..Len(mem) /\ mem[v].kind = "user"
        /\ \A j \in v+1..Len(mem) : mem[j].kind # "user"
    BY DEF IsLastUser, LastUserOf
  <1> HIDE DEF v
  <1>2. ~(u < v)
    <2> SUFFICES ASSUME u < v PROVE FALSE
      OBVIOUS
    <2>1. v \in u+1..Len(mem)
      BY <1>1 DEF IsLastUser
    <2> QED BY <1>1, <2>1 DEF IsLastUser
  <1>3. ~(v < u)
    <2> SUFFICES ASSUME v < u PROVE FALSE
      OBVIOUS
    <2>1. u \in v+1..Len(mem)
      BY <1>1 DEF IsLastUser
    <2> QED BY <1>1, <2>1 DEF IsLastUser
  <1>4. v = u
    BY <1>1, <1>2, <1>3 DEF IsLastUser
  <1> QED BY <1>4 DEF v

OneLonger(mem, grown) ==
    /\ Len(mem) \in Nat /\ Len(grown) = Len(mem) + 1
    /\ \A i \in 1..Len(mem) : grown[i] = mem[i]

\* The places are finitely many, and one more message adds at most one.
LEMMA PlacesGrow ==
    ASSUME NEW mem, NEW grown, OneLonger(mem, grown), NEW u \in 1..Len(mem), NEW kind
    PROVE  /\ Cardinality(Places(mem, u, kind)) \in Nat
           /\ Cardinality(Places(grown, u, kind)) =
                IF grown[Len(grown)].kind = kind THEN Cardinality(Places(mem, u, kind)) + 1
                                                 ELSE Cardinality(Places(mem, u, kind))
  <1>0. /\ Len(mem) \in Nat /\ Len(grown) = Len(mem) + 1
        /\ \A i \in 1..Len(mem) : grown[i] = mem[i]
    BY DEF OneLonger
  <1>1. IsFiniteSet(u..Len(mem))
    BY <1>0, FS_Interval
  <1>2. Places(mem, u, kind) \subseteq u..Len(mem)
    BY DEF Places
  <1>3. IsFiniteSet(Places(mem, u, kind))
    BY <1>1, <1>2, FS_Subset
  <1>4. Len(grown) \notin Places(mem, u, kind)
    BY <1>0 DEF Places
  <1>5. CASE grown[Len(grown)].kind = kind
    <2>1. Places(grown, u, kind) = Places(mem, u, kind) \cup {Len(grown)}
      BY <1>0, <1>5 DEF Places
    <2> QED BY <1>3, <1>4, <1>5, <2>1, FS_AddElement, FS_CardinalityType
  <1>6. CASE grown[Len(grown)].kind # kind
    <2>1. Places(grown, u, kind) = Places(mem, u, kind)
      BY <1>0, <1>6 DEF Places
    <2> QED BY <1>3, <1>6, <2>1, FS_CardinalityType
  <1> QED BY <1>5, <1>6

\* A message of the agent leaves the user's where it was, and is counted.
LEMMA CountGrows ==
    ASSUME TypeOK, pc # "idle", UserSpoke, NEW m, Adds(m), m.kind # "user"
    PROVE  /\ UserSpoke'
           /\ \A kind : InThisRun(kind) \in Nat /\
                InThisRun(kind)' = IF m.kind = kind THEN InThisRun(kind) + 1 ELSE InThisRun(kind)
  <1>0. Len(memory) \in Nat
    BY LenProperties DEF TypeOK
  <1>1. /\ Len(memory') = Len(memory) + 1 /\ memory'[Len(memory')] = m
        /\ \A i \in 1..Len(memory) : memory'[i] = memory[i]
    BY DEF Adds
  <1>2. PICK u \in 1..Len(memory) : IsLastUser(memory, u)
    BY DEF UserSpoke
  <1>3. IsLastUser(memory', u)
    <2>1. u \in 1..Len(memory') /\ memory'[u].kind = "user"
      BY <1>0, <1>1, <1>2 DEF IsLastUser
    <2>2. ASSUME NEW j \in u+1..Len(memory') PROVE memory'[j].kind # "user"
      <3>1. CASE j = Len(memory')
        BY <1>1, <3>1
      <3>2. CASE j # Len(memory')
        <4>1. j \in u+1..Len(memory) /\ j \in 1..Len(memory)
          BY <1>0, <1>1, <3>2
        <4> QED BY <1>1, <1>2, <4>1 DEF IsLastUser
      <3> QED BY <3>1, <3>2
    <2> QED BY <2>1, <2>2 DEF IsLastUser
  <1>4. LastUser = u /\ LastUser' = u
    <2>1. LastUserOf(memory) = u /\ LastUserOf(memory') = u
      BY <1>0, <1>1, <1>2, <1>3, LastUserIs
    <2> QED BY <2>1 DEF LastUser, LastUserOf
  <1>5. ASSUME NEW kind
        PROVE  InThisRun(kind) \in Nat /\
               InThisRun(kind)' = IF m.kind = kind THEN InThisRun(kind) + 1 ELSE InThisRun(kind)
    <2>1. /\ InThisRun(kind) = Cardinality(Places(memory, u, kind))
          /\ InThisRun(kind)' = Cardinality(Places(memory', u, kind))
      BY <1>4 DEF InThisRun, Places
    <2>2. /\ Cardinality(Places(memory, u, kind)) \in Nat
          /\ Cardinality(Places(memory', u, kind)) =
               IF memory'[Len(memory')].kind = kind
               THEN Cardinality(Places(memory, u, kind)) + 1
               ELSE Cardinality(Places(memory, u, kind))
      <3>1. OneLonger(memory, memory')
        BY <1>0, <1>1 DEF OneLonger
      <3> QED BY <3>1, PlacesGrow
    <2>3. memory'[Len(memory')].kind = m.kind
      BY <1>1
    <2> QED BY <2>1, <2>2, <2>3, Zenon
  <1>6. UserSpoke'
    BY <1>3 DEF UserSpoke, IsLastUser
  <1> QED BY <1>5, <1>6

\* What is counted is a number.
LEMMA CountIsNat ==
    ASSUME TypeOK, pc # "idle", UserSpoke, NEW kind PROVE InThisRun(kind) \in Nat
  <1>0. Len(memory) \in Nat
    BY LenProperties DEF TypeOK
  <1>1. PICK u \in 1..Len(memory) : IsLastUser(memory, u)
    BY DEF UserSpoke
  <1>2. LastUser = u
    <2>1. LastUserOf(memory) = u
      BY <1>0, <1>1, LastUserIs
    <2> QED BY <2>1 DEF LastUser, LastUserOf
  <1> DEFINE P == {i \in u..Len(memory) : memory[i].kind = kind}
  <1>3. IsFiniteSet(u..Len(memory)) /\ P \subseteq u..Len(memory)
    BY <1>0, <1>1, FS_Interval
  <1>4. IsFiniteSet(P)
    BY <1>3, FS_Subset
  <1>5. Cardinality(P) \in Nat
    BY <1>4, FS_CardinalityType
  <1> QED BY <1>2, <1>5 DEF InThisRun

\* The user's message starts the count anew.
LEMMA CountBegins ==
    ASSUME TypeOK, NEW b, Begin(b)
    PROVE  /\ UserSpoke'
           /\ \A kind \in {"result", "answer", "calls"} : InThisRun(kind)' = 0
  <1>1. /\ Len(memory') \in Nat /\ Len(memory') >= 1
        /\ memory'[Len(memory')] = [kind |-> "user", n |-> 0]
    BY Begins
  <1>2. IsLastUser(memory', Len(memory'))
    BY <1>1 DEF IsLastUser
  <1>3. LastUser' = Len(memory')
    <2>1. LastUserOf(memory') = Len(memory')
      BY <1>1, <1>2, LastUserIs
    <2> QED BY <2>1 DEF LastUser, LastUserOf
  <1>4. ASSUME NEW kind \in {"result", "answer", "calls"} PROVE InThisRun(kind)' = 0
    <2>1. {i \in Len(memory')..Len(memory') : memory'[i].kind = kind} = {}
      BY <1>1
    <2>2. InThisRun(kind)' = Cardinality({})
      BY <1>3, <2>1 DEF InThisRun
    <2> QED BY <2>2, FS_EmptySet
  <1>5. UserSpoke'
    BY <1>1, <1>2 DEF UserSpoke
  <1> QED BY <1>4, <1>5

\* A memory that is left alone shows the same counts.
LEMMA CountStays ==
    ASSUME memory' = memory
    PROVE  /\ \A kind : InThisRun(kind)' = InThisRun(kind)
           /\ UserSpoke /\ pc # "idle" => UserSpoke'
  <1>1. LastUser' = LastUser
    BY DEF LastUser
  <1> QED BY <1>1 DEF InThisRun, UserSpoke, IsLastUser

\* Every step keeps the counts.
LEMMA CountedStep ==
    TypeOK /\ ControlOK /\ OpenCall /\ UserSpoke /\ Counted /\ [Next]_vars => UserSpoke' /\ Counted'
<1> SUFFICES ASSUME TypeOK, ControlOK, OpenCall, UserSpoke, Counted, [Next]_vars
             PROVE  UserSpoke' /\ Counted'
  OBVIOUS
<1>0. /\ step \in Nat /\ limit \in Nat /\ total \in Nat
      /\ pc # "idle" => \A kind : InThisRun(kind) \in Nat
  BY CountIsNat DEF TypeOK
<1>1. ASSUME NEW o, End(o) PROVE UserSpoke' /\ Counted'
  BY <1>1 DEF End, UserSpoke, Counted
<1>2. ASSUME NEW m \in {"run", "stream"}, Begin(m) PROVE UserSpoke' /\ Counted'
  <2>1. /\ UserSpoke'
        /\ InThisRun("result")' = 0 /\ InThisRun("answer")' = 0 /\ InThisRun("calls")' = 0
    BY <1>2, CountBegins
  <2>2. memory'[Len(memory')].kind = "user"
    BY <1>2, Begins
  <2>3. pc' = "input" /\ step' = 1 /\ total' = 0
    BY <1>2 DEF Begin
  <2> QED BY <2>1, <2>2, <2>3 DEF Counted, Busy
<1>3. ASSUME memory' = memory, pc # "idle"
      PROVE  /\ UserSpoke' /\ InThisRun("result")' = InThisRun("result")
             /\ InThisRun("answer")' = InThisRun("answer")
             /\ InThisRun("calls")' = InThisRun("calls")
  BY <1>3, CountStays
<1>4. CASE InputGuardrails
  <2>1. CASE pc' = "think" /\ UNCHANGED <<path, mode, loop, call, out, outcome, runs, cuts>>
    BY <1>3, <1>4, <2>1 DEF InputGuardrails, Counted, Busy
  <2> QED BY <1>1, <1>4, <2>1 DEF InputGuardrails
<1>5. ASSUME NEW calls \in Seq(Tools), Hear(calls), pc \in {"think", "stream_end"},
             UNCHANGED <<mode, step, total>>
      PROVE  UserSpoke' /\ Counted'
  <2>1. CASE pc' = "output" /\ Adds([kind |-> "answer", n |-> 0])
    <3>1. /\ UserSpoke' /\ InThisRun("result")' = InThisRun("result")
          /\ InThisRun("answer")' = InThisRun("answer") + 1
          /\ InThisRun("calls")' = InThisRun("calls")
      BY <1>5, <2>1, CountGrows
    <3>2. memory'[Len(memory')].kind = "answer"
      BY <2>1 DEF Adds
    <3> QED BY <1>0, <1>5, <2>1, <3>1, <3>2 DEF Counted, Busy
  <2>2. CASE pc' = "next" /\ Adds([kind |-> "calls", n |-> Len(calls)])
    <3>1. /\ UserSpoke' /\ InThisRun("result")' = InThisRun("result")
          /\ InThisRun("answer")' = InThisRun("answer")
          /\ InThisRun("calls")' = InThisRun("calls") + 1
      BY <1>5, <2>2, CountGrows
    <3> QED BY <1>0, <1>5, <2>2, <3>1 DEF Counted, Busy
  <2> QED BY <1>5, <2>1, <2>2, Hears
<1>6. CASE Generate
  BY <1>5, <1>6, AnswersAreCalls DEF Generate
<1>7. CASE StreamEnd
  <2>1. reply.calls \in Seq(Tools)
    BY DEF TypeOK
  <2> QED BY <1>5, <1>7, <2>1 DEF StreamEnd
<1>8. CASE GenerateAgain \/ StreamDelta \/ StreamCompletion \/ StreamWithoutCompletion
  BY <1>3, <1>8 DEF GenerateAgain, StreamDelta, StreamCompletion, StreamWithoutCompletion,
                    Counted, Busy
<1>9. CASE ModelFails \/ Structure \/ MaxIterations \/ NoAnswer \/ Cancel
  BY <1>1, <1>9 DEF ModelFails, Structure, MaxIterations, NoAnswer, Cancel
<1>10. CASE OutputGuardrails
  <2>1. CASE pc' = "structure" /\ UNCHANGED <<path, mode, loop, call, reply, outcome, runs, cuts>>
    BY <1>3, <1>10, <2>1 DEF OutputGuardrails, Counted, Busy
  <2> QED BY <1>1, <1>10, <2>1 DEF OutputGuardrails
<1>11. CASE NextIteration
  BY <1>0, <1>3, <1>11 DEF NextIteration, Counted, Busy
<1>12. ASSUME Result, pc \in Busy, todo # <<>> PROVE UserSpoke' /\ Counted'
  <2>1. Adds([kind |-> "result", n |-> NextResult])
    BY <1>12, Results
  <2>2. pc # "idle"
    BY <1>12 DEF Busy
  <2>3. /\ UserSpoke' /\ InThisRun("result")' = InThisRun("result") + 1
        /\ InThisRun("answer")' = InThisRun("answer")
        /\ InThisRun("calls")' = InThisRun("calls")
    BY <2>1, <2>2, CountGrows
  <2>4. pc' = "next" /\ total' = total + 1 /\ mode' = mode /\ step' = step
    BY <1>12 DEF Result
  <2> QED BY <1>0, <1>12, <2>2, <2>3, <2>4 DEF Counted, Busy
<1>13. CASE ToolGuardrailTrips \/ ToolReturns
  BY <1>12, <1>13 DEF ToolGuardrailTrips, ToolReturns, ControlOK, Busy
<1>14. CASE ToolStart \/ Approval
  <2>1. CASE /\ pc' \in {"ask", "execute"} /\ pc \in {"next", "ask"}
             /\ UNCHANGED <<path, memory, mode, loop, total>>
    BY <1>3, <2>1 DEF Counted, Busy
  <2> QED BY <1>12, <1>14, <2>1 DEF ToolStart, Approval, ControlOK, Busy
<1>15. CASE Execute \/ ToolAgain
  BY <1>3, <1>15 DEF Execute, ToolAgain, Counted, Busy
<1>16. CASE UNCHANGED vars
  BY <1>16, CountStays DEF Counted, UserSpoke
<1> QED
  BY <1>2, <1>4, <1>6, <1>7, <1>8, <1>9, <1>10, <1>11, <1>13, <1>14, <1>15, <1>16
     DEF Next, Progress

\* The result of the run that ends agrees with the memory.
LEMMA ResultAgreesStep ==
    /\ TypeOK /\ ControlOK /\ OpenCall /\ UserSpoke /\ Counted
    /\ ResultAgreesWithMemory /\ [Next]_vars
    => ResultAgreesWithMemory'
<1> SUFFICES ASSUME TypeOK, ControlOK, OpenCall, UserSpoke, Counted,
                    ResultAgreesWithMemory, [Next]_vars
             PROVE  ResultAgreesWithMemory'
  OBVIOUS
<1>0. /\ step \in Nat /\ limit \in Nat /\ total \in Nat /\ step >= 1 /\ step <= limit
      /\ pc # "idle" => \A kind : InThisRun(kind) \in Nat
  BY CountIsNat DEF TypeOK
<1>1. CASE pc' # "idle" \/ outcome' \in Cut \cup {"none"} \/ mode' # "run"
  BY <1>1 DEF ResultAgreesWithMemory
<1>2. CASE memory' = memory /\ UNCHANGED <<pc, mode, outcome, total, step, limit>>
  BY <1>2, CountStays DEF ResultAgreesWithMemory
<1>3. ASSUME NEW o \in {"completed", "guardrail", "max_iterations"}, End(o),
             memory' = memory, pc \in {"input", "output", "structure", "next"}, mode' = "run",
             o = "guardrail" => pc \in {"input", "output"},
             o = "completed" => pc \in {"output", "structure"},
             o = "max_iterations" => pc = "next" /\ todo = <<>> /\ step = limit
      PROVE  ResultAgreesWithMemory'
  <2>1. /\ UNCHANGED <<mode, total, step, limit>> /\ outcome' = o /\ mode = "run"
    BY <1>3 DEF End
  <2>2. /\ InThisRun("result")' = InThisRun("result")
        /\ InThisRun("answer")' = InThisRun("answer")
        /\ InThisRun("calls")' = InThisRun("calls")
    BY <1>3, CountStays
  <2>3. total = InThisRun("result")
    BY <1>3 DEF Counted
  <2>4. InThisRun("answer") + InThisRun("calls") \in step-1..limit
    <3>1. InThisRun("answer") + InThisRun("calls") \in {step, step - 1}
      BY <1>3, <2>1 DEF Counted
    <3> QED BY <1>0, <3>1
  <2>5. o = "completed" => memory[Len(memory)].kind = "answer"
    BY <1>3, <2>1 DEF Counted
  <2>6. o = "guardrail" => memory[Len(memory)].kind \in {"user", "answer"}
    BY <1>3, <2>1 DEF Counted
  <2>7. o = "max_iterations" => InThisRun("calls") = limit
    <3>1. ASSUME pc = "next", step = limit PROVE InThisRun("calls") = limit
      <4>1. InThisRun("answer") = 0 /\ InThisRun("answer") + InThisRun("calls") = step
        BY <2>1, <3>1 DEF Counted, Busy
      <4>2. InThisRun("calls") \in Nat
        BY <1>0, <3>1
      <4> QED BY <3>1, <4>1, <4>2
    <3> QED BY <1>3, <3>1
  <2>8. o = "max_iterations" => memory[Len(memory)].kind = "result"
    <3> SUFFICES ASSUME pc = "next", todo = <<>> PROVE memory[Len(memory)].kind = "result"
      BY <1>3
    <3>1. PICK c \in 1..Len(memory) :
              /\ memory[c].n >= 1
              /\ memory[c].n = Len(memory) - c + Len(todo)
              /\ \A k \in 1..Len(memory)-c : memory[c + k] = [kind |-> "result", n |-> k]
      BY DEF OpenCall, Busy
    <3>2. Len(memory) \in Nat
      BY LenProperties DEF TypeOK
    <3>3. Len(memory) - c >= 1
      <4>1. Len(todo) = 0
        OBVIOUS
      <4> QED BY <3>1, <3>2, <4>1
    <3> DEFINE k == Len(memory) - c
    <3>4. k \in 1..Len(memory)-c /\ c + k = Len(memory)
      BY <3>2, <3>3
    <3> HIDE DEF k
    <3>5. memory[c + k].kind = "result"
      <4>1. k \in 1..Len(memory)-c
        BY <3>4
      <4>2. \A j \in 1..Len(memory)-c : memory[c + j] = [kind |-> "result", n |-> j]
        BY <3>1
      <4>3. memory[c + k] = [kind |-> "result", n |-> k]
        BY <4>1, <4>2, Zenon
      <4> QED BY <4>3
    <3> QED BY <3>4, <3>5, Zenon
  <2>9. (InThisRun("answer") + InThisRun("calls") \in step-1..limit)'
    BY <2>1, <2>2, <2>4
  <2>10. (total = InThisRun("result"))'
    BY <2>1, <2>2, <2>3
  <2>11. outcome' = "max_iterations" =>
            memory'[Len(memory')].kind = "result" /\ (InThisRun("calls") = limit)'
    BY <1>3, <2>1, <2>2, <2>7, <2>8
  <2>12. /\ outcome' = "completed" => memory'[Len(memory')].kind = "answer"
         /\ outcome' = "guardrail" => memory'[Len(memory')].kind \in {"user", "answer"}
    BY <1>3, <2>1, <2>5, <2>6
  <2> QED BY <2>9, <2>10, <2>11, <2>12 DEF ResultAgreesWithMemory
<1>4. ASSUME NEW o \in Cut, End(o) PROVE ResultAgreesWithMemory'
  BY <1>1, <1>4 DEF End
<1>5. CASE InputGuardrails
  BY <1>1, <1>3, <1>5 DEF InputGuardrails
<1>6. CASE OutputGuardrails
  BY <1>1, <1>3, <1>6 DEF OutputGuardrails
<1>7. CASE Structure
  BY <1>1, <1>3, <1>4, <1>7 DEF Structure, Cut
<1>8. CASE MaxIterations
  BY <1>1, <1>3, <1>8 DEF MaxIterations
<1>9. CASE ModelFails \/ NoAnswer \/ Cancel
  BY <1>4, <1>9 DEF ModelFails, NoAnswer, Cancel, Cut
<1>10. CASE \/ \E m \in {"run", "stream"} : Begin(m)
            \/ Generate \/ GenerateAgain \/ StreamDelta \/ StreamCompletion \/ StreamEnd
            \/ StreamWithoutCompletion \/ NextIteration \/ ToolGuardrailTrips \/ ToolStart
            \/ Approval \/ Execute \/ ToolReturns \/ ToolAgain
  <2>1. pc' # "idle"
    BY <1>10 DEF Begin, Generate, GenerateAgain, StreamDelta, StreamCompletion, StreamEnd,
                 StreamWithoutCompletion, NextIteration, ToolGuardrailTrips, ToolStart,
                 Approval, Execute, ToolReturns, ToolAgain, Hear, Result
  <2> QED BY <1>1, <2>1
<1>11. CASE UNCHANGED vars
  BY <1>2, <1>11
<1> QED BY <1>5, <1>6, <1>7, <1>8, <1>9, <1>10, <1>11 DEF Next, Progress

-----------------------------------------------------------------------------
(* Those who watch the run.                                                *)

\* Every step keeps the gate, the hooks and the publisher in step with the run.
LEMMA WatchStep ==
    TypeOK /\ ControlOK /\ Watched /\ StreamEndIsPublished /\ [Next]_vars
    => Watched' /\ StreamEndIsPublished'
<1> SUFFICES ASSUME TypeOK, ControlOK, Watched, StreamEndIsPublished, [Next]_vars
             PROVE  Watched' /\ StreamEndIsPublished'
  OBVIOUS
<1> USE DEF Watched, StreamEndIsPublished
<1>1. ASSUME NEW o, End(o), o \in {"completed", "guardrail"} => pub' # "open"
      PROVE  Watched' /\ StreamEndIsPublished'
  BY <1>1 DEF End
<1>2. ASSUME NEW m \in {"run", "stream"}, Begin(m)
      PROVE  Watched' /\ StreamEndIsPublished'
  BY <1>2 DEF Begin
<1>3. Close => pub' # "open"
  BY DEF Close
<1>4. CASE InputGuardrails \/ OutputGuardrails
  BY <1>1, <1>3, <1>4 DEF InputGuardrails, OutputGuardrails
<1>5. CASE \/ Generate \/ GenerateAgain \/ StreamDelta \/ StreamCompletion \/ StreamEnd
           \/ StreamWithoutCompletion \/ NextIteration
  <2>1. ~tool_open /\ pc' \in {"think", "stream_end", "output", "next"} /\ tool_open' = tool_open
    BY <1>5 DEF Generate, GenerateAgain, StreamDelta, StreamCompletion, StreamEnd,
                StreamWithoutCompletion, NextIteration, Hear
  <2> QED BY <2>1
<1>6. CASE Structure
  BY <1>1, <1>6 DEF Structure
<1>7. CASE ModelFails \/ MaxIterations \/ NoAnswer \/ Cancel
  BY <1>1, <1>7 DEF ModelFails, MaxIterations, NoAnswer, Cancel
<1>8. ASSUME Result PROVE Watched' /\ StreamEndIsPublished'
  BY <1>8 DEF Result
<1>9. CASE ToolGuardrailTrips \/ ToolReturns
  BY <1>8, <1>9 DEF ToolGuardrailTrips, ToolReturns
<1>10. CASE ToolStart
  BY <1>8, <1>10 DEF ToolStart, Asks, TypeOK
<1>11. CASE Approval
  BY <1>8, <1>11 DEF Approval
<1>12. CASE Execute \/ ToolAgain
  BY <1>12 DEF Execute, ToolAgain
<1>13. CASE UNCHANGED vars
  BY <1>13
<1> QED
  BY <1>2, <1>4, <1>5, <1>6, <1>7, <1>9, <1>10, <1>11, <1>12, <1>13 DEF Next, Progress

-----------------------------------------------------------------------------
(* The inductive invariant, and what follows from it.                      *)

IInv ==
    /\ TypeOK /\ ControlOK /\ OpenCall
    /\ CallsAreAnswered
    /\ UserSpoke /\ Counted /\ ResultAgreesWithMemory
    /\ Watched /\ StreamEndIsPublished

\* An agent that has not run yet.
LEMMA InitIInv == Init => IInv
<1> SUFFICES ASSUME Init PROVE IInv
  OBVIOUS
<1>1. TypeOK
  <2>1. <<>> \in Seq(Messages) /\ <<>> \in Seq(Tools)
    BY EmptySeq
  <2>2. tries \in 0..(IF ToolRetries > LlmRetries THEN ToolRetries ELSE LlmRetries) + 1
    BY LoopAssumption DEF Init
  <2>3. runs \in 0..MaxRuns
    BY LoopAssumption DEF Init
  <2>4. reply \in [got : {"nothing", "text", "message"}, calls : Seq(Tools)]
    BY <2>1 DEF Init, Nothing
  <2>5. memory \in Seq(Messages) /\ todo \in Seq(Tools) /\ cuts \subseteq Nat
    BY <2>1 DEF Init
  <2>6. limit \in Nat /\ step \in 1..limit /\ total \in Nat
    BY DEF Init
  <2> QED BY <2>2, <2>3, <2>4, <2>5, <2>6 DEF Init, TypeOK
<1>2. CallsAreAnswered
  <2>1. Len(memory) = 0
    BY DEF Init
  <2>2. 1..Len(memory) = {}
    BY <2>1
  <2> QED BY <2>2 DEF CallsAreAnswered
<1>3. /\ ControlOK /\ OpenCall /\ UserSpoke /\ Counted /\ ResultAgreesWithMemory
      /\ Watched /\ StreamEndIsPublished
  BY DEF Init, ControlOK, OpenCall, UserSpoke, Counted, ResultAgreesWithMemory, Watched,
         StreamEndIsPublished, Busy, Nothing
<1> QED BY <1>1, <1>2, <1>3 DEF IInv

\* The invariant is inductive.
LEMMA StepIInv == IInv /\ [Next]_vars => IInv'
<1> SUFFICES ASSUME IInv, [Next]_vars PROVE IInv'
  OBVIOUS
<1>1. MemoryMove
  BY MemoryMoves DEF IInv
<1> QED
  BY <1>1, TypeStep, ControlStep, OpenStep, AnsweredStep, CountedStep, ResultAgreesStep,
     WatchStep DEF IInv

\* What holds in every state of every behaviour.
LEMMA Invariance == Spec => []IInv
  BY InitIInv, StepIInv, PTL DEF Spec

\* Every variable has its type: in particular run_stream and the retries of
\* _call_llm and _execute_tool never try more often than their policies allow.
THEOREM TypeCorrectness == Spec => []TypeOK
<1>1. IInv => TypeOK
  BY DEF IInv
<1> QED BY <1>1, Invariance, PTL

\* Whatever ends a run of run or run_stream, the memory it leaves is one the
\* model's API accepts, except behind the places where a run was cut short, and
\* the result it returned reports what the memory shows.
THEOREM LegalConversation == Spec => []ConversationIsLegal
<1>1. IInv => ConversationIsLegal
  BY DEF IInv, ConversationIsLegal
<1> QED BY <1>1, Invariance, PTL

\* An agent whose calls never reach a ToolExecutorHandler without an approval
\* handler runs no gated tool without an approval; hooks and the stream's
\* subscribers see the end of what they saw begin.
THEOREM ObserversInStep ==
    ASSUME ExecutorAsks \/ "runtime" \notin Paths
    PROVE  Spec => []ObserversAgree
<1>1. IInv => ObserversAgree
  <2>1. IInv => GateIsRespected
    BY DEF IInv, TypeOK, Watched, GateIsRespected
  <2>2. IInv => HooksAreBalanced
    BY DEF IInv, Watched, HooksAreBalanced
  <2> QED BY <2>1, <2>2 DEF IInv, ObserversAgree
<1> QED BY <1>1, Invariance, PTL

\* A cancelled stream leaves the text that was seen, or the whole message, in
\* the memory, at whatever point between two chunks run_stream is cancelled.
THEOREM SeenTextStays == Spec => SeenTextIsKept
<1> DEFINE Kept == reply.got # "nothing" /\ outcome' = "cancelled" /\ outcome # "cancelled"
                      => Len(memory') > Len(memory)
<1>1. IInv /\ [Next]_vars => [Kept]_vars
  <2> SUFFICES ASSUME IInv, Next, reply.got # "nothing",
                      outcome' = "cancelled", outcome # "cancelled"
               PROVE  Len(memory') > Len(memory)
    OBVIOUS
  <2>1. Cancel
    BY DEF Next, Progress, InputGuardrails, Generate, GenerateAgain, ModelFails, StreamDelta,
           StreamCompletion, StreamEnd, StreamWithoutCompletion, OutputGuardrails, Structure,
           MaxIterations, NextIteration, ToolGuardrailTrips, ToolStart, Approval, Execute,
           ToolReturns, ToolAgain, NoAnswer, Begin, End, Result, Hear
  <2>2. TypeOK /\ reply.calls \in Seq(Tools) /\ reply.got \in {"text", "message"}
    BY DEF IInv, TypeOK
  <2>3. Len(reply.calls) \in Nat /\ Len(memory) \in Nat
    BY <2>2, LenProperties DEF TypeOK
  <2>4. PICK k \in {"answer", "partial", "calls"}, n \in Nat : memory' = memory \o Msg(k, n)
    BY <2>1, <2>2, <2>3 DEF Cancel
  <2>5. Adds([kind |-> k, n |-> n])
    BY <2>2, <2>4, AddsMsg
  <2> QED BY <2>3, <2>5 DEF Adds
<1> QED BY <1>1, Invariance, PTL DEF Spec, SeenTextIsKept

-----------------------------------------------------------------------------
(* Flows: the tree.                                                        *)

\* For inductions over the nodes above a node.
Smaller == {r \in Nat \X Nat : r[1] < r[2]}

LEMMA NestedNumbers ==
  /\ \A p \in Nodes : p <= LastBelow[p] /\ LastBelow[p] \in Nodes
  /\ \A p, n \in Nodes : p < n /\ n <= LastBelow[p] => LastBelow[n] <= LastBelow[p]
<1>1. ASSUME NEW p \in Nodes, NEW n \in Nodes, p < n, n <= LastBelow[p]
      PROVE  LastBelow[n] <= LastBelow[p]
  <2>1. n \in p+1..LastBelow[p]
    BY <1>1, FlowAssumption DEF Nodes
  <2> QED BY <2>1, FlowAssumption
<1> QED BY <1>1, FlowAssumption

\* What is above a node is a node of a lower number, with all that is above that.
LEMMA AboveIsTransitive ==
  ASSUME NEW n \in Nodes, NEW a \in Above[n]
  PROVE  a \in Nodes /\ a < n /\ n <= LastBelow[a] /\ a \in Nat /\ n \in Nat /\ Above[a] \subseteq Above[n]
<1>1. a \in Nodes /\ a < n /\ n <= LastBelow[a] /\ a \in Nat /\ n \in Nat
  BY DEF Above, Nodes
<1>2. ASSUME NEW b \in Above[a] PROVE b \in Above[n]
  <2>1. b \in Nodes /\ b < a /\ a <= LastBelow[b]
    BY <1>1 DEF Above
  <2>2. LastBelow[a] <= LastBelow[b] /\ LastBelow[a] \in Nodes /\ LastBelow[b] \in Nodes
    BY <1>1, <2>1, NestedNumbers
  <2> QED BY <1>1, <2>1, <2>2 DEF Above, Nodes
<1> QED BY <1>1, <1>2

\* The nodes above a node form a line.
LEMMA AboveIsALine ==
  ASSUME NEW n \in Nodes, NEW a \in Above[n], NEW b \in Above[n]
  PROVE  a = b \/ a \in Above[b] \/ b \in Above[a]
<1>1. /\ a \in Nodes /\ a < n /\ n <= LastBelow[a]
      /\ b \in Nodes /\ b < n /\ n <= LastBelow[b]
      /\ LastBelow[a] \in Nodes /\ LastBelow[b] \in Nodes
  BY AboveIsTransitive, NestedNumbers
<1> QED BY <1>1 DEF Nodes, Above

\* The kids of a node have no number in common.
LEMMA KidsApart ==
  ASSUME NEW p \in Nodes, NEW k \in KidsOf(p), NEW l \in KidsOf(p), k # l
  PROVE  /\ k \in Nodes /\ l \in Nodes /\ k <= LastBelow[k] /\ l <= LastBelow[l]
         /\ LastBelow[k] < l \/ LastBelow[l] < k
<1>1. PICK i \in 1..Len(Kids[p]) : k = Kid(p, i)
  BY DEF KidsOf
<1>2. PICK j \in 1..Len(Kids[p]) : l = Kid(p, j)
  BY DEF KidsOf
<1>3. k \in Nodes /\ l \in Nodes
  <2>1. Kids[p] \in Seq(Nodes)
    BY FlowAssumption
  <2> QED BY <1>1, <1>2, <2>1 DEF Kid
<1>4. i < j \/ j < i
  BY <1>1, <1>2
<1> QED BY <1>1, <1>2, <1>3, <1>4, FlowAssumption

\* Above a kid are its parent and what is above that.
LEMMA AboveKid ==
  ASSUME NEW p \in Nodes, NEW k \in KidsOf(p)
  PROVE  k \in Nodes /\ Above[k] = Above[p] \cup {p}
<1>1. k \in Nodes /\ k <= LastBelow[k] /\ LastBelow[k] \in Nodes
  <2>1. Kids[p] \in Seq(Nodes)
    BY FlowAssumption
  <2>2. k \in Nodes
    BY <2>1 DEF KidsOf, Kid
  <2> QED BY <2>2, NestedNumbers
<1>2. k \in p+1..LastBelow[p]
  <2>1. k \in k..LastBelow[k]
    BY <1>1 DEF Nodes
  <2> QED BY <2>1, FlowAssumption
<1>3. p \in Above[k]
  BY <1>1, <1>2, FlowAssumption DEF Above, Nodes
<1>4. ASSUME NEW a \in Above[k], a # p, a \notin Above[p] PROVE FALSE
  <2>1. p \in Above[a] /\ a \in Nodes /\ a < k /\ k <= LastBelow[a]
    BY <1>1, <1>3, <1>4, AboveIsALine, AboveIsTransitive
  <2>2. a \in p+1..LastBelow[p]
    BY <2>1, FlowAssumption DEF Above, Nodes
  <2>3. PICK l \in KidsOf(p) : a \in l..LastBelow[l]
    <3>1. p+1..LastBelow[p] = UNION {l..LastBelow[l] : l \in KidsOf(p)}
      BY FlowAssumption
    <3> QED BY <2>2, <3>1
  <2>4. l # k
    BY <1>1, <2>1, <2>3 DEF Nodes
  <2>5. /\ l \in Nodes /\ LastBelow[l] \in Nodes /\ LastBelow[a] \in Nodes
        /\ LastBelow[k] < l \/ LastBelow[l] < k
    BY <2>1, <2>4, KidsApart, FlowAssumption
  <2>6. LastBelow[a] <= LastBelow[l]
    <3>1. CASE a = l
      BY <2>5, <3>1 DEF Nodes
    <3>2. CASE a # l
      <4>1. a \in l+1..LastBelow[l]
        BY <2>1, <2>3, <2>5, <3>2 DEF Nodes
      <4> QED BY <2>5, <4>1, FlowAssumption
    <3> QED BY <3>1, <3>2
  <2> QED BY <1>1, <2>1, <2>3, <2>5, <2>6 DEF Nodes
<1> QED BY <1>1, <1>3, <1>4, AboveIsTransitive

\* On the way from a node above n to n there is one of its kids.
LEMMA KidTowards ==
  ASSUME NEW n \in Nodes, NEW a \in Above[n]
  PROVE  \E k \in KidsOf(a) : k = n \/ k \in Above[n]
<1>1. a \in Nodes /\ n \in a+1..LastBelow[a]
  BY FlowAssumption DEF Above, Nodes
<1>2. PICK k \in KidsOf(a) : n \in k..LastBelow[k]
  <2>1. a+1..LastBelow[a] = UNION {k..LastBelow[k] : k \in KidsOf(a)}
    BY <1>1, FlowAssumption
  <2> QED BY <1>1, <2>1
<1>3. k \in Nodes
  BY <1>1, AboveKid
<1> QED BY <1>2, <1>3 DEF Above, Nodes

\* It is the only one, and a node has one parent at most.
LEMMA OneKidTowards ==
  ASSUME NEW n \in Nodes, NEW p \in Nodes, NEW k \in KidsOf(p), NEW l \in KidsOf(p),
         k = n \/ k \in Above[n], l = n \/ l \in Above[n]
  PROVE  k = l
<1>1. k \in Nodes /\ l \in Nodes /\ Above[k] = Above[p] \cup {p} /\ Above[l] = Above[p] \cup {p}
  BY AboveKid
<1>2. p \in Nat /\ k \notin Above[p] /\ l \notin Above[p] /\ k # p /\ l # p
  BY <1>1, AboveIsTransitive DEF Nodes
<1>3. k = l \/ k \in Above[l] \/ l \in Above[k]
  BY <1>1, AboveIsALine
<1> QED BY <1>1, <1>2, <1>3

LEMMA OneParent ==
  ASSUME NEW p \in Nodes, NEW q \in Nodes, NEW k \in KidsOf(p), k \in KidsOf(q)
  PROVE  p = q
<1>1. Above[k] = Above[p] \cup {p} /\ Above[k] = Above[q] \cup {q} /\ k \in Nodes
  BY AboveKid
<1>2. p \in Above[q] => q \notin Above[p]
  BY AboveIsTransitive DEF Nodes
<1> QED BY <1>1, <1>2

LEMMA KidsDiffer ==
  ASSUME NEW p \in Nodes, NEW i \in 1..Len(Kids[p]), NEW j \in 1..Len(Kids[p]), i # j
  PROVE  /\ Kid(p, i) \in KidsOf(p) /\ Kid(p, j) \in KidsOf(p)
         /\ Kid(p, i) # Kid(p, j)
<1>1. Kid(p, i) \in KidsOf(p) /\ Kid(p, j) \in KidsOf(p)
  BY DEF KidsOf
<1>2. /\ Kid(p, i) \in Nodes /\ Kid(p, j) \in Nodes
      /\ LastBelow[Kid(p, i)] \in Nodes /\ LastBelow[Kid(p, j)] \in Nodes
      /\ Kid(p, i) <= LastBelow[Kid(p, i)] /\ Kid(p, j) <= LastBelow[Kid(p, j)]
  BY <1>1, AboveKid, FlowAssumption
<1>3. i < j \/ j < i
  OBVIOUS
<1>4. \/ LastBelow[Kid(p, i)] < Kid(p, j)
      \/ LastBelow[Kid(p, j)] < Kid(p, i)
  BY <1>3, FlowAssumption
<1> QED BY <1>1, <1>2, <1>4 DEF Nodes

LEMMA KidCount ==
  ASSUME NEW p \in Nodes
  PROVE  /\ IsFiniteSet(KidsOf(p)) /\ Cardinality(KidsOf(p)) = Len(Kids[p])
         /\ Len(Kids[p]) \in Nat
<1> DEFINE m == Len(Kids[p])
           f == [i \in 1..m |-> Kid(p, i)]
<1>1. m \in Nat
  <2>1. Kids[p] \in Seq(Nodes)
    BY FlowAssumption
  <2> QED BY <2>1
<1>2. f \in [1..m -> KidsOf(p)] /\ \A i, j \in 1..m : f[i] = f[j] => i = j
  BY KidsDiffer DEF KidsOf
<1>3. \A k \in KidsOf(p) : \E i \in 1..m : f[i] = k
  BY DEF KidsOf
<1> HIDE DEF f
<1>4. f \in Bijection(1..m, KidsOf(p))
  BY <1>2, <1>3, Fun_IsBij
<1>5. ExistsBijection(1..m, KidsOf(p))
  BY <1>4 DEF ExistsBijection
<1>6. IsFiniteSet(1..m) /\ Cardinality(1..m) = m
  BY <1>1, FS_Interval
<1> QED BY <1>1, <1>5, <1>6, FS_Bijection, FS_CountingElements

\* The nearest ParallelFlow above n is below the others.
LEMMA SinkIsNearest ==
  ASSUME NEW n \in Nodes
  PROVE  /\ Pars[n] = {} => Sink[n] = User
         /\ Pars[n] # {} => /\ Sink[n] \in Pars[n] /\ Sink[n] # User
                            /\ \A q \in Pars[n] : q = Sink[n] \/ q \in Pars[Sink[n]]
<1>1. \A p \in Pars[n] : p \in Nodes /\ p \in Above[n] /\ Kind[p] = "par" /\ p < n /\ p \in Nat
  BY AboveIsTransitive DEF Pars, Nodes
<1>2. ASSUME Pars[n] # {} PROVE \E p \in Pars[n] : \A q \in Pars[n] : q <= p
  <2> DEFINE T == {n - p : p \in Pars[n]}
  <2>1. T \subseteq Nat /\ T # {}
    BY <1>1, <1>2 DEF Nodes
  <2> HIDE DEF T
  <2>2. IsWellFoundedOn(Smaller, Nat)
    <3>1. OpToRel(<, Nat) = Smaller
      BY DEF OpToRel, Smaller
    <3> QED BY <3>1, NatLessThanWellFounded, Zenon
  <2>6. PICK x \in T : \A y \in T : ~ (<<y, x>> \in Smaller)
    BY <2>1, <2>2, WFMin
  <2>3. \A y \in T : ~ (y < x)
    BY <2>1, <2>6 DEF Smaller
  <2> USE DEF T
  <2>4. PICK p \in Pars[n] : x = n - p
    BY <2>6
  <2>5. \A q \in Pars[n] : ~ (n - q < n - p)
    BY <2>3, <2>4
  <2> QED BY <1>1, <2>4, <2>5 DEF Nodes
<1>3. CASE Pars[n] = {}
  BY <1>3 DEF Sink
<1>4. CASE Pars[n] # {}
  <2>1. Sink[n] \in Pars[n] /\ \A q \in Pars[n] : q <= Sink[n]
    BY <1>2, <1>4 DEF Sink
  <2>2. ASSUME NEW q \in Pars[n] PROVE q = Sink[n] \/ q \in Pars[Sink[n]]
    <3>1. q = Sink[n] \/ q \in Above[Sink[n]] \/ Sink[n] \in Above[q]
      BY <1>1, <2>1, AboveIsALine
    <3>2. Sink[n] \notin Above[q]
      BY <1>1, <2>1, AboveIsTransitive
    <3> QED BY <1>1, <2>1, <3>1, <3>2 DEF Pars
  <2> QED BY <1>1, <1>4, <2>1, <2>2 DEF User, Nodes
<1> QED BY <1>3, <1>4

-----------------------------------------------------------------------------
(* Flows: the invariant.                                                   *)

\* Maps that are not typed have a value for each node.
Texts == /\ input = [n \in Nodes |-> input[n]]
         /\ output = [n \in Nodes |-> output[n]]
         /\ carry = [n \in Nodes |-> carry[n]]

\* What has been called is below the root, and so is everything above it.
Rooted ==
    /\ st[root] # "idle"
    /\ \A n \in Nodes : st[n] # "idle" =>
         (n = root \/ root \in Above[n]) /\ \A a \in Above[n] : st[a] # "idle"

\* Above a node that works are nodes that work, unless the stream was closed or, run to
\* completion, a branch has raised.
WorkingUnder ==
    \A n \in Nodes : st[n] = "running" =>
      \A a \in Above[n] : st[a] \in {"running", "closed"} \/ (how = "run" /\ st[a] = "failed")

\* A failure of run goes all the way up.
FailingUnder ==
    how = "run" => \A n \in Nodes : st[n] = "failed" =>
                     \A a \in Above[n] : st[a] \in {"running", "failed"}

\* Closing ends what the consumer pulls.
ClosedUnder ==
    \A n \in Nodes : st[n] = "closed" =>
      how = "stream" /\ Pars[n] = {} /\ \A a \in Above[n] : st[a] = "closed"

TreeInv == Rooted /\ WorkingUnder /\ FailingUnder /\ ClosedUnder

\* The steps of p that have returned, and those not yet called.
AtStep(p) ==
    /\ st[p] = "idle" => pos[p] = 0
    /\ pos[p] = 0 => \A k \in KidsOf(p) : st[k] = "idle"
    /\ Kind[p] = "seq" => \A i \in 1..Len(Kids[p]) :
         /\ i < pos[p] => st[Kid(p, i)] = "done"
         /\ i > pos[p] => st[Kid(p, i)] = "idle"
    /\ Kind[p] = "cond" => \A i \in 1..Len(Kids[p]) : i # pos[p] => st[Kid(p, i)] = "idle"
    /\ Kind[p] = "while" /\ pos[p] > MaxLoopRounds => Len(Kids[p]) = 2 /\ st[Kid(p, 1)] = "done"
    /\ Kind[p] = "while" /\ pos[p] <= MaxLoopRounds =>
         \A i \in 2..Len(Kids[p]) : st[Kid(p, i)] = "idle"
    /\ Kind[p] = "branch" =>
         /\ pos[p] > 1 => st[Kid(p, 1)] = "done"
         /\ \A i \in 2..Len(Kids[p]) : i # pos[p] => st[Kid(p, i)] = "idle"

\* A flow is called once.
CalledOnce(n) ==
    /\ begun[n] = IF Kind[n] \in FlowKinds /\ st[n] # "idle" THEN 1 ELSE 0
    /\ ended[n] = IF Kind[n] \in FlowKinds /\ st[n] = "done" THEN 1 ELSE 0

\* Of one agent, x was streamed before y.
Earlier(x, y) == x[1] = y[1] /\ x[2] > 0 /\ y[2] > 0 => x[2] < y[2]

\* Nothing of a branch comes behind its sentinel.
Behind(x, y) == x[2] = 0 => x[1] # y[1] /\ x[1] \notin Above[y[1]]

Sorted(q) == \A i, j \in DOMAIN q : i < j => Earlier(q[i], q[j]) /\ Behind(q[i], q[j])
AllEarlier(S, T) == \A x \in S, y \in T : Earlier(x, y)

\* Where chunks are on their way to, and where those of n can be.
Line(q) == IF q = User THEN delivered ELSE queue[q]
Sinks(n) == IF n = User THEN {} ELSE Pars[n] \cup {User}

\* Every queue is that of a ParallelFlow above the agent.  The chunks further up are
\* earlier, and none is missing.
Chunks ==
    /\ \A p \in Nodes : queue[p] # <<>> => how = "stream" /\ Kind[p] = "par" /\ st[p] # "idle"
    /\ \A c \in ToSet(delivered) : c[2] > 0
    /\ \A q \in Nodes \cup {User} :
         /\ Sorted(Line(q))
         /\ \A c \in ToSet(Line(q)) : c[2] > 0 => q \in Sinks(c[1]) /\ c[2] <= told[c[1]]
         /\ \A r \in Sinks(q) : AllEarlier(ToSet(Line(r)), ToSet(Line(q)))
    /\ \A n \in Nodes : \A k \in 1..told[n] : \E q \in Sinks(n) : <<n, k>> \in ToSet(Line(q))

\* The branches of p whose sentinel the flow has had.
Returned == {"done", "failed"}
Taken(p) == {k \in KidsOf(p) : st[k] \in Returned /\ Sentinel(k) \notin ToSet(queue[p])}

\* A sentinel is that of a branch that has ended; the flow counts them, and nothing more
\* comes of a branch whose sentinel it had.
Sentinels(p) ==
    Kind[p] = "par" /\ how = "stream" =>
      /\ ends[p] = Cardinality(Taken(p))
      /\ \A c \in ToSet(queue[p]) : c[2] = 0 => c[1] \in KidsOf(p) /\ st[c[1]] \in Returned
      /\ \A k \in Taken(p) : \A c \in ToSet(queue[p]) : k # c[1] /\ k \notin Above[c[1]]
      /\ st[p] # "failed"
      /\ st[p] = "done" => ends[p] = Len(Kids[p])

\* What a sequential flow that runs has accumulated.
Combined(p) ==
    Kind[p] = "seq" /\ how = "run" =>
      /\ st[p] # "idle" /\ pos[p] = 0 => carry[p] = input[p]
      /\ pos[p] > 0 => carry[p] = input[Kid(p, pos[p])]
      /\ \A i \in 1..pos[p] : input[Kid(p, i)] =
           IF i = 1 THEN input[p] ELSE input[Kid(p, i - 1)] \o output[Kid(p, i - 1)]

\* ... and one that streams to the consumer.
Piped ==
    Kind[root] = "seq" /\ how = "stream" /\ st[root] # "closed" =>
      /\ input[root] = <<<<User, 0>>>>
      /\ carry[root] = input[root] \o delivered
      /\ pos[root] > 0 =>
           /\ input[Kid(root, pos[root])] \in Seq((Nodes \cup {User}) \X Nat)
           /\ Len(input[Kid(root, pos[root])]) <= Len(carry[root])
           /\ \A i \in 1..Len(input[Kid(root, pos[root])]) :
                input[Kid(root, pos[root])][i] = carry[root][i]

FlowInv ==
    /\ FlowTypeOK /\ Texts /\ TreeInv
    /\ \A p \in Nodes : AtStep(p) /\ CalledOnce(p) /\ Sentinels(p) /\ Combined(p)
    /\ Chunks /\ Piped

-----------------------------------------------------------------------------
(* Steps.                                                                  *)

LEMMA AboveIsStrict ==
  ASSUME NEW n \in Nodes, NEW a \in Above[n]
  PROVE  a # n /\ n \notin Above[a]
<1>1. a \in Nodes /\ a < n /\ a \in Nat /\ n \in Nat
  BY AboveIsTransitive
<1>2. n \in Above[a] => n < a
  BY <1>1, AboveIsTransitive
<1> QED BY <1>1, <1>2

LEMMA ParsAreAbove ==
  ASSUME NEW n \in Nodes, NEW p \in Pars[n]
  PROVE  /\ p \in Nodes /\ Kind[p] = "par" /\ p \in Above[n] /\ p # n /\ n \notin Pars[p]
         /\ Pars[p] \subseteq Pars[n]
<1>1. p \in Above[n] /\ Kind[p] = "par"
  BY DEF Pars
<1>2. p \in Nodes /\ Above[p] \subseteq Above[n] /\ p # n /\ n \notin Above[p]
  BY <1>1, AboveIsTransitive, AboveIsStrict
<1> QED BY <1>1, <1>2 DEF Pars

\* p calls the kids in S.
FlowStart(p, S) ==
    /\ p \in Nodes /\ st[p] = "running" /\ S \subseteq KidsOf(p)
    /\ \A k \in S : st[k] = "idle" \/ (st[k] = "done" /\ Kind[p] \in PipelineKinds)
    /\ \E text : Call(p, S, text)
    /\ UNCHANGED <<queue, ends>>

\* n returns, or raises, with nothing left below.
FlowReturn(n, endedAs) ==
    /\ n \in Nodes /\ st[n] = "running" /\ endedAs \in Returned
    /\ \E text : Leave(n, endedAs, text)
    /\ ended' = IF Kind[n] \in FlowKinds /\ endedAs = "done" THEN [ended EXCEPT ![n] = @ + 1]
                ELSE ended
    /\ endedAs = "done" =>
         /\ \A k \in KidsOf(n) : \/ st[k] \in {"idle", "done"}
                                 \/ how = "stream" /\ Kind[n] = "par" /\ st[k] = "failed"
         /\ Kind[n] = "par" /\ how = "stream" => ends[n] = Len(Kids[n])
    /\ endedAs = "failed" /\ how = "stream" =>
         Kind[n] # "par" /\ \A k \in KidsOf(n) : st[k] \in {"idle", "done", "failed"}

LEMMA StartKeepsTree ==
  ASSUME FlowTypeOK, TreeInv, NEW p, NEW S, FlowStart(p, S)
  PROVE  TreeInv'
<1>1. /\ p \in Nodes /\ st[p] = "running" /\ root' = root /\ how' = how
      /\ st' = [n \in Nodes |-> IF n \in S THEN "running" ELSE st[n]]
      /\ \A k \in S : k \in Nodes /\ Above[k] = Above[p] \cup {p} /\ st[k] \in {"idle", "done"}
  BY AboveKid DEF FlowStart, Call
<1>2. \A n \in Nodes : st'[n] = st[n] \/ st'[n] = "running"
  BY <1>1
<1>3. \A n \in Nodes : \A a \in Above[n] : a \in Nodes
  BY AboveIsTransitive
<1>4. root \in Nodes
  BY DEF FlowTypeOK, Roots
<1>5. Rooted'
  BY <1>1, <1>2, <1>3, <1>4 DEF TreeInv, Rooted
<1>6. WorkingUnder'
  BY <1>1, <1>2, <1>3 DEF TreeInv, WorkingUnder
<1>7. FailingUnder'
  BY <1>1, <1>2, <1>3 DEF TreeInv, FailingUnder
<1>8. ClosedUnder'
  BY <1>1, <1>2, <1>3 DEF TreeInv, ClosedUnder
<1> QED BY <1>5, <1>6, <1>7, <1>8 DEF TreeInv

LEMMA ReturnKeepsTree ==
  ASSUME FlowTypeOK, TreeInv, NEW n, NEW o, FlowReturn(n, o)
  PROVE  TreeInv'
<1>1. /\ n \in Nodes /\ st[n] = "running" /\ root' = root /\ how' = how
      /\ o \in {"done", "failed"} /\ st'[n] = o /\ \A m \in Nodes : m # n => st'[m] = st[m]
  BY DEF FlowReturn, Leave, Returned, FlowTypeOK
<1>2. \A m \in Nodes : \A a \in Above[m] : a \in Nodes
  BY AboveIsTransitive
<1>3. root \in Nodes
  BY DEF FlowTypeOK, Roots
<1>4. ASSUME NEW m \in Nodes, n \in Above[m] PROVE \E k \in KidsOf(n) : k \in Nodes /\ (k = m \/ k \in Above[m])
  BY <1>1, <1>4, KidTowards, AboveKid
<1>5. Rooted'
  BY <1>1, <1>2, <1>3 DEF TreeInv, Rooted
<1>6. WorkingUnder'
  <2> SUFFICES ASSUME NEW m \in Nodes, st'[m] = "running", NEW a \in Above[m]
               PROVE  st'[a] \in {"running", "closed"} \/ (how' = "run" /\ st'[a] = "failed")
    BY DEF WorkingUnder
  <2>1. st[m] = "running" /\ m # n
    BY <1>1
  <2>2. CASE a # n
    BY <1>1, <1>2, <2>1, <2>2 DEF TreeInv, WorkingUnder
  <2>3. CASE a = n
    <3>1. PICK k \in KidsOf(n) : k \in Nodes /\ (k = m \/ k \in Above[m])
      BY <1>4, <2>3
    <3>2. st[k] \in {"running", "closed"} \/ (how = "run" /\ st[k] = "failed")
      BY <2>1, <3>1 DEF TreeInv, WorkingUnder
    <3>3. o # "done"
      <4>1. o = "done" => \/ st[k] \in {"idle", "done"}
                          \/ how = "stream" /\ st[k] = "failed"
        BY <3>1 DEF FlowReturn
      <4> QED BY <3>2, <4>1
    <3>4. how = "stream" => o # "failed"
      <4>1. how = "stream" /\ o = "failed" => st[k] \in {"idle", "done", "failed"}
        BY <3>1 DEF FlowReturn
      <4> QED BY <3>2, <4>1
    <3>5. how \in {"run", "stream"}
      BY DEF FlowTypeOK
    <3> QED BY <1>1, <2>3, <3>3, <3>4, <3>5
  <2> QED BY <2>2, <2>3
<1>7. FailingUnder'
  <2> SUFFICES ASSUME how = "run", NEW m \in Nodes, st'[m] = "failed", NEW a \in Above[m]
               PROVE  st'[a] \in {"running", "failed"}
    BY <1>1 DEF FailingUnder
  <2>1. CASE m = n
    <3>1. a # n /\ a \in Nodes
      BY <1>2, <2>1, AboveIsStrict
    <3>2. st[a] \in {"running", "closed", "failed"}
      BY <1>1, <2>1 DEF TreeInv, WorkingUnder
    <3>3. st[a] # "closed"
      BY <3>1 DEF TreeInv, ClosedUnder
    <3> QED BY <1>1, <3>1, <3>2, <3>3
  <2>2. CASE m # n /\ a # n
    BY <1>1, <1>2, <2>2 DEF TreeInv, FailingUnder
  <2>3. CASE m # n /\ a = n
    <3>1. PICK k \in KidsOf(n) : k \in Nodes /\ (k = m \/ k \in Above[m])
      BY <1>4, <2>3
    <3>2. st[m] = "failed" /\ st[k] \in {"running", "failed"}
      BY <1>1, <2>3, <3>1 DEF TreeInv, FailingUnder
    <3> QED BY <1>1, <2>3, <3>2 DEF FlowReturn
  <2> QED BY <2>1, <2>2, <2>3
<1>8. ClosedUnder'
  BY <1>1, <1>2 DEF TreeInv, ClosedUnder
<1> QED BY <1>5, <1>6, <1>7, <1>8 DEF TreeInv

LEMMA CloseKeepsTree ==
  ASSUME FlowTypeOK, TreeInv, CloseFlow
  PROVE  TreeInv'
<1>1. /\ how = "stream" /\ root' = root /\ how' = how
      /\ st' = [n \in Nodes |-> IF st[n] = "running" /\ Sink[n] = User THEN "closed" ELSE st[n]]
  BY DEF CloseFlow
<1>2. \A m \in Nodes : \A a \in Above[m] : a \in Nodes /\ Above[a] \subseteq Above[m]
  BY AboveIsTransitive
<1>3. \A n \in Nodes : Sink[n] = User <=> Pars[n] = {}
  BY SinkIsNearest
<1>4. \A n \in Nodes : st'[n] = st[n] \/ (st[n] = "running" /\ st'[n] = "closed")
  BY <1>1
<1>5. root \in Nodes
  BY DEF FlowTypeOK, Roots
<1>6. Rooted'
  BY <1>1, <1>2, <1>4, <1>5 DEF TreeInv, Rooted
<1>7. WorkingUnder'
  BY <1>1, <1>2, <1>4 DEF TreeInv, WorkingUnder
<1>8. FailingUnder'
  BY <1>1 DEF FailingUnder
<1>9. ClosedUnder'
  <2> SUFFICES ASSUME NEW n \in Nodes, st'[n] = "closed"
               PROVE  how = "stream" /\ Pars[n] = {} /\ \A a \in Above[n] : st'[a] = "closed"
    BY <1>1 DEF ClosedUnder
  <2>1. CASE st[n] = "closed"
    BY <1>1, <1>2, <1>4, <2>1 DEF TreeInv, ClosedUnder
  <2>2. CASE st[n] # "closed"
    <3>1. st[n] = "running" /\ Pars[n] = {}
      BY <1>1, <1>3, <1>4, <2>2
    <3>2. ASSUME NEW a \in Above[n] PROVE st'[a] = "closed"
      <4>1. st[a] \in {"running", "closed"} /\ a \in Nodes
        BY <1>1, <1>2, <3>1 DEF TreeInv, WorkingUnder
      <4>2. Pars[a] = {}
        BY <1>2, <3>1, <4>1 DEF Pars
      <4> QED BY <1>1, <1>3, <4>1, <4>2
    <3> QED BY <1>1, <3>1, <3>2
  <2> QED BY <2>1, <2>2
<1> QED BY <1>6, <1>7, <1>8, <1>9 DEF TreeInv

-----------------------------------------------------------------------------
(* Where every flow is.                                                    *)

LEMMA SameStep ==
  ASSUME NEW p \in Nodes, AtStep(p), pos'[p] = pos[p], st'[p] = "idle" => st[p] = "idle",
         \A k \in KidsOf(p) : st[k] \in {"idle", "done"} => st'[k] = st[k]
  PROVE  AtStep(p)'
<1>1. \A i \in 1..Len(Kids[p]) : st[Kid(p, i)] \in {"idle", "done"} => st'[Kid(p, i)] = st[Kid(p, i)]
  BY DEF KidsOf
<1>2. Kind[p] = "while" /\ pos[p] > MaxLoopRounds /\ Len(Kids[p]) = 2 => 1 \in 1..Len(Kids[p])
  OBVIOUS
<1>3. Kind[p] = "branch" => 1 \in 1..Len(Kids[p])
  <2>1. Kids[p] \in Seq(Nodes) /\ (Kind[p] = "branch" => Kids[p] # <<>>)
    BY FlowAssumption
  <2> QED BY <2>1
<1>4. \A i \in 2..Len(Kids[p]) : i \in 1..Len(Kids[p])
  BY KidCount
<1> QED BY <1>1, <1>2, <1>3, <1>4 DEF AtStep

LEMMA StartFrame ==
  ASSUME FlowTypeOK, NEW p, NEW S, FlowStart(p, S)
  PROVE  /\ p \in Nodes /\ st[p] = "running" /\ st'[p] = "running" /\ p \notin S
         /\ \A k \in S : k \in Nodes /\ k \in KidsOf(p) /\ st[k] \in {"idle", "done"} /\ st'[k] = "running"
         /\ \A k \in S : st[k] = "done" => Kind[p] \in PipelineKinds
         /\ \A m \in Nodes : m \notin S => st'[m] = st[m]
         /\ \A q \in Nodes : q # p => \A k \in KidsOf(q) : k \notin S
         /\ root' = root /\ how' = how /\ output' = output /\ ended' = ended
         /\ queue' = queue /\ ends' = ends
         /\ st' \in [Nodes -> {"idle", "running", "done", "failed", "closed"}]
<1>1. /\ p \in Nodes /\ st[p] = "running" /\ S \subseteq KidsOf(p)
      /\ \A k \in S : st[k] = "idle" \/ (st[k] = "done" /\ Kind[p] \in PipelineKinds)
      /\ queue' = queue /\ ends' = ends
      /\ st' = [n \in Nodes |-> IF n \in S THEN "running" ELSE st[n]]
      /\ root' = root /\ how' = how /\ output' = output /\ ended' = ended
  BY DEF FlowStart, Call
<1>2. \A k \in S : k \in Nodes /\ k # p
  BY <1>1, AboveKid, AboveIsStrict
<1>3. \A q \in Nodes : q # p => \A k \in KidsOf(q) : k \notin S
  BY <1>1, OneParent
<1> QED BY <1>1, <1>2, <1>3 DEF FlowTypeOK

LEMMA StartKeepsSteps ==
  ASSUME FlowTypeOK, \A q \in Nodes : AtStep(q),
         NEW p, NEW S, FlowStart(p, S), AtStep(p)', NEW i, pos' = [pos EXCEPT ![p] = i]
  PROVE  \A q \in Nodes : AtStep(q)'
<1> SUFFICES ASSUME NEW q \in Nodes, q # p PROVE AtStep(q)'
  OBVIOUS
<1>1. pos'[q] = pos[q]
  BY DEF FlowTypeOK
<1>2. st'[q] = "idle" => st[q] = "idle"
  BY StartFrame
<1>3. \A k \in KidsOf(q) : k \in Nodes /\ st'[k] = st[k]
  BY StartFrame, AboveKid
<1> QED BY <1>1, <1>2, <1>3, SameStep

LEMMA ReturnKeepsSteps ==
  ASSUME FlowTypeOK, \A q \in Nodes : AtStep(q), NEW n, NEW o, FlowReturn(n, o)
  PROVE  \A q \in Nodes : AtStep(q)'
<1> SUFFICES ASSUME NEW q \in Nodes PROVE AtStep(q)'
  OBVIOUS
<1>1. pos' = pos /\ n \in Nodes /\ st[n] = "running" /\ o \in {"done", "failed"} /\ st' = [st EXCEPT ![n] = o]
  BY DEF FlowReturn, Leave, Returned
<1>2. \A m \in Nodes : st[m] \in {"idle", "done"} => st'[m] = st[m]
  BY <1>1 DEF FlowTypeOK
<1>3. st'[q] = "idle" => st[q] = "idle"
  BY <1>1 DEF FlowTypeOK
<1>4. \A k \in KidsOf(q) : k \in Nodes
  BY AboveKid
<1> QED BY <1>1, <1>2, <1>3, <1>4, SameStep

LEMMA CloseKeepsSteps ==
  ASSUME FlowTypeOK, \A q \in Nodes : AtStep(q), CloseFlow
  PROVE  \A q \in Nodes : AtStep(q)'
<1> SUFFICES ASSUME NEW q \in Nodes PROVE AtStep(q)'
  OBVIOUS
<1>1. pos' = pos /\ \A m \in Nodes : st'[m] = st[m] \/ (st[m] = "running" /\ st'[m] = "closed")
  BY DEF CloseFlow
<1>4. \A k \in KidsOf(q) : k \in Nodes
  BY AboveKid
<1> QED BY <1>1, <1>4, SameStep

-----------------------------------------------------------------------------
(* The steps that start, and the steps that return.                        *)

Starting(p) == SeqNext(p) \/ ParFork(p) \/ CondPick(p) \/ WhileBody(p) \/ WhileDone(p)
               \/ BranchUpstream(p) \/ BranchPick(p)

Ending(n) == AgentEnds(n) \/ SeqEnd(n) \/ ParJoin(n) \/ ParStreamEnd(n) \/ CondEnd(n)
             \/ WhileNone(n) \/ WhileEnd(n) \/ BranchNone(n) \/ BranchEnd(n) \/ Raise(n)

LEMMA FirstKid ==
  ASSUME NEW p \in Nodes, Kind[p] # "agent"
  PROVE  1 \in 1..Len(Kids[p]) /\ Len(Kids[p]) \in Nat
<1>1. Kids[p] \in Seq(Nodes) /\ Kids[p] # <<>>
  BY FlowAssumption
<1> QED BY <1>1

\* A call of one kid.
LEMMA CallOne ==
  ASSUME FlowTypeOK, NEW p \in Nodes, st[p] = "running", NEW i \in 1..Len(Kids[p]),
         st[Kid(p, i)] = "idle" \/ (st[Kid(p, i)] = "done" /\ Kind[p] \in PipelineKinds),
         NEW text, Call(p, {Kid(p, i)}, text), UNCHANGED <<queue, ends>>
  PROVE  /\ FlowStart(p, {Kid(p, i)})
         /\ st'[p] = "running" /\ st'[Kid(p, i)] = "running"
         /\ \A j \in 1..Len(Kids[p]) : j # i => st'[Kid(p, j)] = st[Kid(p, j)]
<1>1. FlowStart(p, {Kid(p, i)})
  BY DEF FlowStart, KidsOf
<1>2. ASSUME NEW j \in 1..Len(Kids[p]), j # i PROVE Kid(p, j) \notin {Kid(p, i)} /\ Kid(p, j) \in Nodes
  BY <1>2, KidsDiffer, AboveKid
<1> QED BY <1>1, <1>2, StartFrame

LastStep(p) == IF Kind[p] = "while" THEN MaxLoopRounds + 1 ELSE Len(Kids[p])

LEMMA StartingStarts ==
  ASSUME FlowTypeOK, NEW p \in Nodes, AtStep(p), Starting(p)
  PROVE  \E S, i : /\ FlowStart(p, S) /\ AtStep(p)' /\ pos' = [pos EXCEPT ![p] = i]
                   /\ i \in Nat \ {0} /\ i <= LastStep(p)
<1>0. pos \in [Nodes -> Nat] /\ MaxLoopRounds \in Nat \ {0}
  BY FlowAssumption DEF FlowTypeOK
<1>1. CASE SeqNext(p)
  <2> DEFINE i == pos[p] + 1
  <2>1. /\ Kind[p] = "seq" /\ st[p] = "running" /\ i \in 1..Len(Kids[p]) /\ i \in Nat \ {0}
        /\ pos[p] # 0 => st[Kid(p, pos[p])] = "done"
        /\ pos' = [pos EXCEPT ![p] = i] /\ UNCHANGED <<queue, ends>>
        /\ \E text : Call(p, {Kid(p, i)}, text)
    BY <1>0, <1>1, KidCount DEF SeqNext, Running, Current, stream
  <2>2. st[Kid(p, i)] = "idle"
    BY <1>0, <2>1 DEF AtStep
  <2>3. /\ FlowStart(p, {Kid(p, i)}) /\ st'[p] = "running"
        /\ \A j \in 1..Len(Kids[p]) : j # i => st'[Kid(p, j)] = st[Kid(p, j)]
    BY <2>1, <2>2, CallOne
  <2>4. pos'[p] = i /\ i # 0
    BY <1>0, <2>1
  <2>5. AtStep(p)'
    <3> HIDE DEF i
    <3>1. \A j \in 1..Len(Kids[p]) : j < i => st'[Kid(p, j)] = "done"
      <4>1. \A j \in 1..Len(Kids[p]) : j < i => j < pos[p] \/ (j = pos[p] /\ pos[p] # 0)
        BY <1>0 DEF i
      <4> QED BY <2>1, <2>3, <4>1 DEF AtStep
    <3>2. \A j \in 1..Len(Kids[p]) : j > i => st'[Kid(p, j)] = "idle"
      <4>1. \A j \in 1..Len(Kids[p]) : j > i => j > pos[p]
        BY <1>0 DEF i
      <4> QED BY <2>1, <2>3, <4>1 DEF AtStep
    <3> QED BY <2>1, <2>3, <2>4, <3>1, <3>2 DEF AtStep
  <2> WITNESS {Kid(p, i)}, i
  <2> QED BY <1>0, <2>1, <2>3, <2>5 DEF LastStep
<1>2. CASE ParFork(p)
  <2>1. /\ Kind[p] = "par" /\ st[p] = "running" /\ pos[p] = 0 /\ pos' = [pos EXCEPT ![p] = 1]
        /\ \E text : Call(p, KidsOf(p), text)
        /\ UNCHANGED <<queue, ends>>
    BY <1>2 DEF ParFork, Running, stream
  <2>2. FlowStart(p, KidsOf(p))
    BY <2>1 DEF FlowStart, AtStep
  <2>3. AtStep(p)'
    BY <1>0, <2>1, <2>2, StartFrame DEF AtStep
  <2> WITNESS KidsOf(p), 1
  <2> QED BY <2>1, <2>2, <2>3, FirstKid DEF LastStep
<1>3. CASE CondPick(p)
  <2>1. Kind[p] = "cond" /\ Len(Kids[p]) = 2 /\ st[p] = "running" /\ pos[p] = 0
    BY <1>3, FlowAssumption DEF CondPick, Running
  <2>2. PICK i \in 1..2 : pos' = [pos EXCEPT ![p] = i] /\ Call(p, {Kid(p, i)}, input[p])
    BY <1>3 DEF CondPick
  <2>3. UNCHANGED <<queue, ends>>
    BY <1>3 DEF CondPick, stream
  <2>4. \A j \in 1..Len(Kids[p]) : st[Kid(p, j)] = "idle"
    BY <2>1 DEF AtStep, KidsOf
  <2>5. /\ FlowStart(p, {Kid(p, i)}) /\ st'[p] = "running"
        /\ \A j \in 1..Len(Kids[p]) : j # i => st'[Kid(p, j)] = st[Kid(p, j)]
    <3>1. i \in 1..Len(Kids[p])
      BY <2>1
    <3> QED BY <2>1, <2>2, <2>3, <2>4, <3>1, CallOne
  <2>6. AtStep(p)'
    BY <1>0, <2>1, <2>2, <2>4, <2>5 DEF AtStep
  <2> WITNESS {Kid(p, i)}, i
  <2> QED BY <2>1, <2>2, <2>5, <2>6 DEF LastStep
<1>4. CASE WhileBody(p)
  <2> DEFINE i == pos[p] + 1
  <2>1. /\ Kind[p] = "while" /\ st[p] = "running" /\ pos[p] < MaxLoopRounds
        /\ pos[p] # 0 => st[Kid(p, 1)] = "done"
        /\ pos' = [pos EXCEPT ![p] = i] /\ UNCHANGED <<queue, ends>>
        /\ \E text : Call(p, {Kid(p, 1)}, text)
    BY <1>4 DEF WhileBody, Running, stream
  <2>2. 1 \in 1..Len(Kids[p]) /\ Len(Kids[p]) \in Nat
    BY <2>1, FirstKid
  <2>3. st[Kid(p, 1)] \in {"idle", "done"}
    BY <2>1, <2>2, KidsDiffer DEF AtStep, KidsOf
  <2>4. /\ FlowStart(p, {Kid(p, 1)}) /\ st'[p] = "running"
        /\ \A j \in 1..Len(Kids[p]) : j # 1 => st'[Kid(p, j)] = st[Kid(p, j)]
    BY <2>1, <2>2, <2>3, CallOne DEF PipelineKinds
  <2>5. pos'[p] = i /\ i <= MaxLoopRounds /\ i # 0 /\ i \in Nat /\ ~ (i > MaxLoopRounds)
    BY <1>0, <2>1
  <2>6. AtStep(p)'
    <3>1. \A j \in 2..Len(Kids[p]) : st'[Kid(p, j)] = "idle"
      <4>1. \A j \in 2..Len(Kids[p]) : j \in 1..Len(Kids[p]) /\ j # 1
        BY <2>2
      <4>2. pos[p] <= MaxLoopRounds
        BY <1>0, <2>1
      <4> QED BY <2>1, <2>4, <4>1, <4>2 DEF AtStep
    <3> HIDE DEF i
    <3> QED BY <2>1, <2>4, <2>5, <3>1 DEF AtStep
  <2> WITNESS {Kid(p, 1)}, i
  <2> QED BY <1>0, <2>1, <2>4, <2>5, <2>6 DEF LastStep
<1>5. CASE WhileDone(p)
  <2> DEFINE i == MaxLoopRounds + 1
  <2>1. /\ Kind[p] = "while" /\ st[p] = "running" /\ pos[p] <= MaxLoopRounds /\ Len(Kids[p]) = 2
        /\ st[Kid(p, 1)] = "done"
        /\ pos' = [pos EXCEPT ![p] = i] /\ UNCHANGED <<queue, ends>>
        /\ \E text : Call(p, {Kid(p, 2)}, text)
    BY <1>5 DEF WhileDone, Running, stream
  <2>2. st[Kid(p, 2)] = "idle"
    BY <2>1 DEF AtStep
  <2>3. /\ FlowStart(p, {Kid(p, 2)}) /\ st'[p] = "running"
        /\ \A j \in 1..Len(Kids[p]) : j # 2 => st'[Kid(p, j)] = st[Kid(p, j)]
    <3>1. 2 \in 1..Len(Kids[p])
      BY <2>1
    <3> QED BY <2>1, <2>2, <3>1, CallOne
  <2>4. st'[Kid(p, 1)] = "done"
    BY <2>1, <2>3
  <2>5. pos'[p] = i /\ i # 0 /\ i \in Nat /\ ~ (i <= MaxLoopRounds)
    BY <1>0, <2>1
  <2>6. AtStep(p)'
    <3> HIDE DEF i
    <3> QED BY <2>1, <2>3, <2>4, <2>5 DEF AtStep
  <2> WITNESS {Kid(p, 2)}, i
  <2> QED BY <1>0, <2>1, <2>3, <2>5, <2>6 DEF LastStep
<1>6. CASE BranchUpstream(p)
  <2>1. /\ Kind[p] = "branch" /\ st[p] = "running" /\ pos[p] = 0
        /\ pos' = [pos EXCEPT ![p] = 1] /\ UNCHANGED <<queue, ends>>
        /\ \E text : Call(p, {Kid(p, 1)}, text)
    BY <1>6 DEF BranchUpstream, Running, stream
  <2>2. 1 \in 1..Len(Kids[p]) /\ Len(Kids[p]) \in Nat
    BY <2>1, FirstKid
  <2>3. \A j \in 1..Len(Kids[p]) : st[Kid(p, j)] = "idle"
    BY <2>1 DEF AtStep, KidsOf
  <2>4. /\ FlowStart(p, {Kid(p, 1)}) /\ st'[p] = "running"
        /\ \A j \in 1..Len(Kids[p]) : j # 1 => st'[Kid(p, j)] = st[Kid(p, j)]
    BY <2>1, <2>2, <2>3, CallOne
  <2>5. \A j \in 2..Len(Kids[p]) : st'[Kid(p, j)] = "idle"
    BY <2>2, <2>3, <2>4
  <2>6. AtStep(p)'
    BY <1>0, <2>1, <2>4, <2>5 DEF AtStep
  <2> WITNESS {Kid(p, 1)}, 1
  <2> QED BY <2>1, <2>2, <2>4, <2>6 DEF LastStep
<1>7. CASE BranchPick(p)
  <2>1. /\ Kind[p] = "branch" /\ st[p] = "running" /\ pos[p] = 1 /\ st[Kid(p, 1)] = "done"
        /\ UNCHANGED <<queue, ends>>
    BY <1>7 DEF BranchPick, UpstreamRead, UpstreamDone, Running, stream
  <2>2. PICK i \in 2..Len(Kids[p]) : /\ pos' = [pos EXCEPT ![p] = i]
                                     /\ Call(p, {Kid(p, i)}, output[Kid(p, 1)] \o input[p])
    BY <1>7 DEF BranchPick
  <2>3. 1 \in 1..Len(Kids[p]) /\ Len(Kids[p]) \in Nat
    BY <2>1, FirstKid
  <2>4. i \in 1..Len(Kids[p]) /\ i # 1 /\ i > 1
    BY <2>3
  <2>5. \A j \in 2..Len(Kids[p]) : j # 1 /\ st[Kid(p, j)] = "idle"
    BY <2>1 DEF AtStep
  <2>6. /\ FlowStart(p, {Kid(p, i)}) /\ st'[p] = "running"
        /\ \A j \in 1..Len(Kids[p]) : j # i => st'[Kid(p, j)] = st[Kid(p, j)]
    BY <2>1, <2>2, <2>4, <2>5, CallOne
  <2>7. /\ st'[Kid(p, 1)] = "done"
        /\ \A j \in 2..Len(Kids[p]) : j # i => st'[Kid(p, j)] = "idle"
    <3>1. \A j \in 2..Len(Kids[p]) : j \in 1..Len(Kids[p])
      BY <2>3
    <3> QED BY <2>1, <2>3, <2>4, <2>5, <2>6, <3>1
  <2>8. pos'[p] = i /\ i # 0
    BY <1>0, <2>2, <2>4
  <2>9. AtStep(p)'
    BY <1>0, <2>1, <2>6, <2>7, <2>8 DEF AtStep
  <2> WITNESS {Kid(p, i)}, i
  <2> QED BY <2>1, <2>2, <2>3, <2>4, <2>6, <2>9 DEF LastStep
<1> QED BY <1>1, <1>2, <1>3, <1>4, <1>5, <1>6, <1>7 DEF Starting

\* A flow whose stream has ended has had the sentinel of every branch.
LEMMA AllTaken ==
  ASSUME NEW p \in Nodes, Kind[p] = "par", how = "stream", Sentinels(p),
         ends[p] = Len(Kids[p])
  PROVE  Taken(p) = KidsOf(p)
<1>1. Taken(p) \subseteq KidsOf(p)
  BY DEF Taken
<1>2. Cardinality(Taken(p)) = Cardinality(KidsOf(p)) /\ IsFiniteSet(KidsOf(p))
  BY KidCount DEF Sentinels
<1> QED BY <1>1, <1>2, FS_Subset

LEMMA EndingReturns ==
  ASSUME FlowTypeOK, NEW n \in Nodes, AtStep(n), Sentinels(n), Ending(n)
  PROVE  \E o : FlowReturn(n, o)
<1>0. /\ pos \in [Nodes -> Nat] /\ ended \in [Nodes -> Nat] /\ MaxLoopRounds \in Nat \ {0}
      /\ pos[n] <= IF Kind[n] = "while" THEN MaxLoopRounds + 1 ELSE Len(Kids[n])
  BY FlowAssumption DEF FlowTypeOK
<1>a. ASSUME st[n] = "running", \E text : Complete(n, text),
             \A k \in KidsOf(n) : \/ st[k] \in {"idle", "done"}
                                  \/ how = "stream" /\ Kind[n] = "par" /\ st[k] = "failed",
             Kind[n] = "par" /\ how = "stream" => ends[n] = Len(Kids[n])
      PROVE  FlowReturn(n, "done")
  BY <1>a DEF FlowReturn, Complete, Returned
<1>b. ASSUME st[n] = "running", \E text : Leave(n, "failed", text), ended' = ended,
             how = "stream" =>
               Kind[n] # "par" /\ \A k \in KidsOf(n) : st[k] \in {"idle", "done", "failed"}
      PROVE  FlowReturn(n, "failed")
  BY <1>b DEF FlowReturn, Returned
<1>c. \A k \in KidsOf(n) : \E i \in 1..Len(Kids[n]) : k = Kid(n, i)
  BY DEF KidsOf
<1>d. Kind[n] # "agent" => 1 \in 1..Len(Kids[n]) /\ Len(Kids[n]) \in Nat
  BY FirstKid
<1>e. \A i \in 1..Len(Kids[n]) : i = 1 \/ i \in 2..Len(Kids[n])
  BY KidCount
<1>1. CASE AgentEnds(n)
  <2>1. KidsOf(n) = {} /\ st[n] = "running" /\ Kind[n] = "agent" /\ ended' = ended
    <3>1. Kind[n] = "agent" => Kids[n] = <<>>
      BY FlowAssumption
    <3> QED BY <1>1, <3>1 DEF AgentEnds, Running, KidsOf
  <2>2. CASE \E text : Leave(n, "done", text)
    BY <2>1, <2>2 DEF FlowReturn, Returned, FlowKinds
  <2>3. CASE Leave(n, "failed", <<>>)
    BY <2>1, <2>3, <1>b
  <2> QED BY <1>1, <2>2, <2>3 DEF AgentEnds
<1>2. CASE SeqEnd(n)
  <2>1. /\ Kind[n] = "seq" /\ st[n] = "running" /\ pos[n] = Len(Kids[n])
        /\ st[Kid(n, pos[n])] = "done" /\ \E text : Complete(n, text)
    BY <1>2 DEF SeqEnd, Running, Current
  <2>2. \A i \in 1..Len(Kids[n]) : i < pos[n] \/ i = pos[n]
    BY <2>1, <1>d
  <2>3. \A i \in 1..Len(Kids[n]) : st[Kid(n, i)] = "done"
    BY <2>1, <2>2 DEF AtStep
  <2> QED BY <1>a, <1>c, <2>1, <2>3
<1>3. CASE ParJoin(n)
  BY <1>3, <1>a DEF ParJoin, Running
<1>4. CASE ParStreamEnd(n)
  <2>1. /\ Kind[n] = "par" /\ st[n] = "running" /\ how = "stream" /\ ends[n] = Len(Kids[n])
        /\ \E text : Complete(n, text)
    BY <1>4 DEF ParStreamEnd, Running
  <2>2. \A k \in KidsOf(n) : st[k] \in {"done", "failed"}
    BY <2>1, AllTaken DEF Taken, Returned
  <2> QED BY <1>a, <2>1, <2>2
<1>5. CASE CondEnd(n)
  <2>1. /\ Kind[n] = "cond" /\ st[n] = "running"
        /\ st[Kid(n, pos[n])] = "done" /\ \E text : Complete(n, text)
    BY <1>5 DEF CondEnd, Running, Current
  <2>2. \A i \in 1..Len(Kids[n]) : st[Kid(n, i)] \in {"idle", "done"}
    BY <2>1 DEF AtStep
  <2> QED BY <1>a, <1>c, <2>1, <2>2
<1>6. CASE WhileNone(n)
  <2>1. /\ Kind[n] = "while" /\ st[n] = "running" /\ Len(Kids[n]) = 1
        /\ st[Kid(n, 1)] = "done" /\ \E text : Complete(n, text)
    BY <1>6 DEF WhileNone, Running
  <2>2. \A i \in 1..Len(Kids[n]) : i = 1
    BY <2>1
  <2> QED BY <1>a, <1>c, <2>1, <2>2
<1>7. CASE WhileEnd(n)
  <2>1. /\ Kind[n] = "while" /\ st[n] = "running" /\ pos[n] > MaxLoopRounds
        /\ st[Kid(n, 2)] = "done" /\ \E text : Complete(n, text)
    BY <1>0, <1>7 DEF WhileEnd, Running
  <2>2. Len(Kids[n]) = 2 /\ st[Kid(n, 1)] = "done"
    BY <2>1 DEF AtStep
  <2>3. \A i \in 1..Len(Kids[n]) : i = 1 \/ i = 2
    BY <2>2
  <2> QED BY <1>a, <1>c, <2>1, <2>2, <2>3
<1>8. CASE BranchNone(n)
  <2>1. /\ Kind[n] = "branch" /\ st[n] = "running" /\ pos[n] = 1
        /\ st[Kid(n, 1)] = "done" /\ \E text : Complete(n, text)
    BY <1>8 DEF BranchNone, UpstreamRead, UpstreamDone, Running
  <2>2. \A i \in 2..Len(Kids[n]) : st[Kid(n, i)] = "idle"
    BY <2>1 DEF AtStep
  <2> QED BY <1>a, <1>c, <1>e, <2>1, <2>2
<1>9. CASE BranchEnd(n)
  <2>1. /\ Kind[n] = "branch" /\ st[n] = "running" /\ pos[n] > 1
        /\ st[Kid(n, pos[n])] = "done" /\ \E text : Complete(n, text)
    BY <1>9 DEF BranchEnd, Running, Current
  <2>2. /\ st[Kid(n, 1)] = "done"
        /\ \A i \in 2..Len(Kids[n]) : st[Kid(n, i)] \in {"idle", "done"}
    BY <2>1 DEF AtStep
  <2> QED BY <1>a, <1>c, <1>e, <2>1, <2>2
<1>10. CASE Raise(n)
  <2>1. /\ st[n] = "running" /\ Kind[n] # "agent" /\ pos[n] # 0 /\ ended' = ended
        /\ Leave(n, "failed", <<>>)
        /\ how = "stream" => Kind[n] # "par" /\ st[Current(n)] = "failed"
    BY <1>10 DEF Raise, FlowTypeOK
  <2>2. ASSUME how = "stream", NEW i \in 1..Len(Kids[n])
        PROVE  st[Kid(n, i)] \in {"idle", "done", "failed"}
    <3>1. Kind[n] # "par" /\ st[Current(n)] = "failed"
      BY <2>1, <2>2
    <3>2. CASE Kind[n] = "seq"
      <4>1. i < pos[n] \/ i = pos[n] \/ i > pos[n]
        BY <1>0
      <4> QED BY <3>1, <3>2, <4>1 DEF AtStep, Current
    <3>3. CASE Kind[n] = "cond"
      BY <3>1, <3>3 DEF AtStep, Current
    <3>4. CASE Kind[n] = "while" /\ pos[n] <= MaxLoopRounds
      BY <1>e, <3>1, <3>4 DEF AtStep, Current
    <3>5. CASE Kind[n] = "while" /\ ~ (pos[n] <= MaxLoopRounds)
      <4>1. st[Kid(n, 2)] = "failed" /\ pos[n] > MaxLoopRounds
        BY <1>0, <3>1, <3>5 DEF Current
      <4>2. Len(Kids[n]) = 2 /\ st[Kid(n, 1)] = "done"
        BY <3>5, <4>1 DEF AtStep
      <4>3. i = 1 \/ i = 2
        BY <4>2
      <4> QED BY <4>1, <4>2, <4>3
    <3>6. CASE Kind[n] = "branch"
      <4>1. pos[n] = 1 \/ pos[n] > 1
        BY <1>0, <2>1
      <4>2. st[Kid(n, pos[n])] = "failed"
        BY <3>1, <3>6 DEF Current
      <4>3. \A j \in 2..Len(Kids[n]) : st[Kid(n, j)] \in {"idle", "failed"}
        BY <3>6, <4>2 DEF AtStep
      <4>4. st[Kid(n, 1)] \in {"done", "failed"}
        BY <3>6, <4>1, <4>2 DEF AtStep
      <4> QED BY <1>e, <4>3, <4>4
    <3>7. Kind[n] \in {"seq", "par", "cond", "while", "branch", "agent"}
      BY FlowAssumption DEF FlowKinds, PipelineKinds
    <3> QED BY <2>1, <3>1, <3>2, <3>3, <3>4, <3>5, <3>6, <3>7
  <2> QED BY <1>b, <1>c, <2>1, <2>2
<1> QED BY <1>1, <1>2, <1>3, <1>4, <1>5, <1>6, <1>7, <1>8, <1>9, <1>10 DEF Ending

-----------------------------------------------------------------------------
(* A flow is called once, and its events are counted.                      *)

LEMMA StartKeepsCounts ==
  ASSUME FlowTypeOK, \A n \in Nodes : CalledOnce(n), NEW p, NEW S, FlowStart(p, S)
  PROVE  \A n \in Nodes : CalledOnce(n)'
<1> SUFFICES ASSUME NEW n \in Nodes PROVE CalledOnce(n)'
  OBVIOUS
<1>1. begun' = [m \in Nodes |-> IF m \in S /\ Kind[m] \in FlowKinds THEN begun[m] + 1 ELSE begun[m]]
  BY DEF FlowStart, Call
<1>2. CASE n \notin S
  BY <1>1, <1>2, StartFrame DEF CalledOnce
<1>3. CASE n \in S
  <2>1. Kind[n] \in FlowKinds => st[n] = "idle"
    <3>1. n \in KidsOf(p) /\ p \in Nodes /\ (st[n] = "idle" \/ Kind[p] \in PipelineKinds)
      BY <1>3, StartFrame
    <3>2. Kind[p] \in PipelineKinds => Kind[n] = "agent"
      BY <3>1, FlowAssumption
    <3> QED BY <3>1, <3>2 DEF FlowKinds
  <2>2. begun' [n] = IF Kind[n] \in FlowKinds THEN begun[n] + 1 ELSE begun[n]
    BY <1>1, <1>3
  <2>3. st'[n] = "running" /\ ended' = ended
    BY <1>3, StartFrame
  <2>4. CASE Kind[n] \in FlowKinds
    BY <2>1, <2>2, <2>3, <2>4 DEF CalledOnce
  <2>5. CASE Kind[n] \notin FlowKinds
    BY <2>2, <2>3, <2>5 DEF CalledOnce
  <2> QED BY <2>4, <2>5
<1> QED BY <1>2, <1>3

LEMMA ReturnKeepsCounts ==
  ASSUME FlowTypeOK, \A n \in Nodes : CalledOnce(n), NEW m, NEW o, FlowReturn(m, o)
  PROVE  \A n \in Nodes : CalledOnce(n)'
<1> SUFFICES ASSUME NEW n \in Nodes PROVE CalledOnce(n)'
  OBVIOUS
<1>1. /\ m \in Nodes /\ st[m] = "running" /\ o \in {"done", "failed"} /\ begun' = begun
      /\ st' = [st EXCEPT ![m] = o]
      /\ ended' = IF Kind[m] \in FlowKinds /\ o = "done" THEN [ended EXCEPT ![m] = @ + 1] ELSE ended
  BY DEF FlowReturn, Leave, Returned
<1>2. CASE n # m
  BY <1>1, <1>2 DEF CalledOnce, FlowTypeOK
<1>3. CASE n = m
  <2>1. st'[n] = o /\ begun[n] = (IF Kind[n] \in FlowKinds THEN 1 ELSE 0) /\ ended[n] = 0
    BY <1>1, <1>3 DEF CalledOnce, FlowTypeOK
  <2>2. ended'[n] = IF Kind[n] \in FlowKinds /\ o = "done" THEN ended[n] + 1 ELSE ended[n]
    BY <1>1, <1>3 DEF FlowTypeOK
  <2>3. begun'[n] = begun[n]
    BY <1>1
  <2> QED BY <1>1, <2>1, <2>2, <2>3 DEF CalledOnce
<1> QED BY <1>2, <1>3

LEMMA CloseKeepsCounts ==
  ASSUME FlowTypeOK, \A n \in Nodes : CalledOnce(n), CloseFlow
  PROVE  \A n \in Nodes : CalledOnce(n)'
<1>1. /\ begun' = begun /\ ended' = ended
      /\ \A m \in Nodes : st'[m] = st[m] \/ (st[m] = "running" /\ st'[m] = "closed")
  BY DEF CloseFlow
<1> QED BY <1>1 DEF CalledOnce

-----------------------------------------------------------------------------
(* Sequences of items.                                                     *)

Items == Nodes \X Nat
Points == Nodes \cup {User}

LEMMA PutLast ==
  ASSUME NEW q \in Seq(Items), NEW c \in Items
  PROVE  /\ Append(q, c) \in Seq(Items) /\ ToSet(Append(q, c)) = ToSet(q) \cup {c}
         /\ Sorted(q) /\ (\A x \in ToSet(q) : Earlier(x, c) /\ Behind(x, c)) => Sorted(Append(q, c))
<1> DEFINE r == Append(q, c)
<1>1. /\ r \in Seq(Items) /\ Len(q) \in Nat /\ Len(r) = Len(q) + 1 /\ r[Len(q) + 1] = c
      /\ \A i \in 1..Len(q) : r[i] = q[i]
      /\ DOMAIN q = 1..Len(q) /\ DOMAIN r = 1..Len(q) + 1
  OBVIOUS
<1> HIDE DEF r
<1>2. ToSet(r) = ToSet(q) \cup {c}
  BY <1>1 DEF ToSet
<1>3. ASSUME Sorted(q), \A x \in ToSet(q) : Earlier(x, c) /\ Behind(x, c) PROVE Sorted(r)
  <2> SUFFICES ASSUME NEW i \in 1..Len(q) + 1, NEW j \in 1..Len(q) + 1, i < j
               PROVE  Earlier(r[i], r[j]) /\ Behind(r[i], r[j])
    BY <1>1 DEF Sorted
  <2>1. i \in 1..Len(q) /\ r[i] = q[i] /\ q[i] \in ToSet(q)
    BY <1>1 DEF ToSet
  <2>2. CASE j = Len(q) + 1
    BY <1>1, <1>3, <2>1, <2>2
  <2>3. CASE j \in 1..Len(q)
    BY <1>1, <1>3, <2>1, <2>3 DEF Sorted
  <2> QED BY <1>1, <2>2, <2>3
<1> QED BY <1>1, <1>2, <1>3 DEF r

LEMMA TakeFirst ==
  ASSUME NEW q \in Seq(Items), q # <<>>
  PROVE  /\ Tail(q) \in Seq(Items) /\ Head(q) \in Items /\ Head(q) \in ToSet(q)
         /\ ToSet(q) = ToSet(Tail(q)) \cup {Head(q)}
         /\ Sorted(q) => /\ Sorted(Tail(q))
                         /\ \A y \in ToSet(Tail(q)) : Earlier(Head(q), y) /\ Behind(Head(q), y)
<1> DEFINE r == Tail(q)
           h == Head(q)
<1>1. /\ r \in Seq(Items) /\ h \in Items /\ Len(q) \in Nat \ {0} /\ Len(r) = Len(q) - 1 /\ h = q[1]
      /\ \A i \in 1..Len(r) : r[i] = q[i + 1]
      /\ DOMAIN q = 1..Len(q) /\ DOMAIN r = 1..Len(r)
  OBVIOUS
<1> HIDE DEF r, h
<1>2. \A i \in 1..Len(q) : i = 1 \/ (i - 1 \in 1..Len(r) /\ r[i - 1] = q[i])
  BY <1>1
<1>3. \A i \in 1..Len(r) : i + 1 \in 1..Len(q) /\ r[i] = q[i + 1]
  BY <1>1
<1>4. ToSet(q) = ToSet(r) \cup {h}
  <2>1. ASSUME NEW i \in 1..Len(q) PROVE q[i] \in ToSet(r) \cup {h}
    <3>1. i = 1 \/ (i - 1 \in DOMAIN r /\ r[i - 1] = q[i])
      BY <1>1, <1>2
    <3> QED BY <1>1, <3>1 DEF ToSet
  <2>2. ASSUME NEW i \in 1..Len(r) PROVE r[i] \in ToSet(q)
    BY <1>1, <1>3 DEF ToSet
  <2>3. h \in ToSet(q)
    BY <1>1 DEF ToSet
  <2> QED BY <1>1, <2>1, <2>2, <2>3 DEF ToSet
<1>5. ASSUME Sorted(q) PROVE Sorted(r)
  <2>1. \A i, j \in 1..Len(r) : i < j => i + 1 < j + 1
    BY <1>1
  <2> QED BY <1>1, <1>3, <1>5, <2>1 DEF Sorted
<1>6. ASSUME Sorted(q), NEW y \in ToSet(r) PROVE Earlier(h, y) /\ Behind(h, y)
  <2>1. PICK i \in 1..Len(r) : y = r[i]
    BY <1>1, <1>6 DEF ToSet
  <2>2. y = q[i + 1] /\ i + 1 \in 1..Len(q) /\ 1 \in 1..Len(q) /\ 1 < i + 1
    BY <1>1, <1>3, <2>1
  <2> QED BY <1>1, <1>6, <2>2 DEF Sorted
<1> QED BY <1>1, <1>4, <1>5, <1>6 DEF r, h

LEMMA LineType ==
  ASSUME FlowTypeOK
  PROVE  /\ \A q \in Points : Line(q) \in Seq(Items)
         /\ User \notin Nodes /\ User \in Points /\ \A q \in Nodes : Line(q) = queue[q] /\ q \in Points
         /\ \A q \in Points : \A c \in ToSet(Line(q)) : c \in Items /\ c[1] \in Nodes /\ c[2] \in Nat
<1>1. User \notin Nodes
  BY DEF User, Nodes
<1>2. \A q \in Points : Line(q) \in Seq(Items)
  BY DEF FlowTypeOK, Line, Points, Items
<1>3. \A q \in Points : \A c \in ToSet(Line(q)) : c \in Items
  BY <1>2 DEF ToSet
<1> QED BY <1>1, <1>2, <1>3 DEF Line, Points, Items

\* What comes to the sink of a node goes on to the others above it.
LEMMA SinksOf ==
  ASSUME NEW n \in Nodes
  PROVE  /\ Sink[n] \in Sinks(n) /\ Sinks(n) \subseteq Points /\ Sinks(User) = {} /\ User \in Sinks(n)
         /\ \A r \in Sinks(n) : r = Sink[n] \/ r \in Sinks(Sink[n])
         /\ \A r \in Sinks(n) : Sinks(r) \subseteq Sinks(n) /\ r \notin Sinks(r) /\ r # n
         /\ \A p \in Nodes : p \in Sinks(n) <=> p \in Pars[n]
<1>1. User \notin Nodes /\ n # User
  BY DEF User, Nodes
<1>2. \A p \in Pars[n] : p \in Nodes /\ p # User /\ p # n /\ Pars[p] \subseteq Pars[n]
  BY <1>1, ParsAreAbove
<1>3. \A p \in Pars[n] : p \notin Pars[p]
  BY <1>2, ParsAreAbove
<1>4. /\ Pars[n] = {} => Sink[n] = User
      /\ Pars[n] # {} => /\ Sink[n] \in Pars[n] /\ Sink[n] # User
                         /\ \A q \in Pars[n] : q = Sink[n] \/ q \in Pars[Sink[n]]
  BY SinkIsNearest
<1> QED BY <1>1, <1>2, <1>3, <1>4 DEF Sinks, Points

LEMMA SinksAreALine ==
  ASSUME NEW n \in Nodes, NEW p \in Sinks(n), NEW q \in Sinks(n)
  PROVE  p = q \/ p \in Sinks(q) \/ q \in Sinks(p)
<1>1. User \notin Nodes /\ n # User /\ \A r \in Pars[n] : r \in Nodes /\ r \in Above[n] /\ Kind[r] = "par"
  BY ParsAreAbove DEF User, Nodes
<1>2. CASE p = User \/ q = User
  BY <1>1, <1>2 DEF Sinks
<1>3. CASE p # User /\ q # User
  <2>1. p \in Pars[n] /\ q \in Pars[n]
    BY <1>1, <1>3 DEF Sinks
  <2>2. p = q \/ p \in Above[q] \/ q \in Above[p]
    BY <1>1, <2>1, AboveIsALine
  <2> QED BY <1>1, <1>3, <2>1, <2>2 DEF Sinks, Pars
<1> QED BY <1>2, <1>3

\* A branch on the way from a flow to a node that works has not returned.
LEMMA NotReturned ==
  ASSUME WorkingUnder, how = "stream", NEW w \in Nodes, st[w] = "running",
         NEW n \in Nodes, n = w \/ w \in Above[n],
         NEW s \in Above[w], NEW k \in KidsOf(s), st[k] \in Returned
  PROVE  k # n /\ k \notin Above[n]
<1> SUFFICES ASSUME k = n \/ k \in Above[n] PROVE FALSE
  OBVIOUS
<1>1. s \in Nodes
  BY AboveIsTransitive
<1>2. PICK l \in KidsOf(s) : l = w \/ l \in Above[w]
  BY KidTowards
<1>3. l = n \/ l \in Above[n]
  BY <1>2, AboveIsTransitive
<1>4. k = l
  BY <1>1, <1>2, <1>3, OneKidTowards
<1>5. st[l] \in {"running", "closed"}
  BY <1>2 DEF WorkingUnder
<1> QED BY <1>4, <1>5 DEF Returned

-----------------------------------------------------------------------------
(* Chunks on their way.                                                    *)

\* The chunk c of n comes to the sink of w, which is n or passes it on.
LEMMA ChunkMoves ==
  ASSUME FlowTypeOK, FlowTypeOK', Chunks, how = "stream", how' = how,
         NEW w \in Nodes, NEW n \in Nodes, NEW c \in Items, c[1] = n, c[2] > 0,
         w = n \/ w \in Pars[n],
         NEW s \in Sinks(w), s = Sink[w], s # User => st'[s] # "idle",
         \A p \in Nodes : st[p] # "idle" => st'[p] # "idle",
         \A m \in Nodes : told[m] <= told'[m],
         c[2] <= told'[n],
         \A m \in Nodes : \A k \in 1..told'[m] : k \in 1..told[m] \/ <<m, k>> = c,
         Line(s)' = Append(Line(s), c),
         \A q \in Points : q # s => /\ Sorted(Line(q)')
                                    /\ ToSet(Line(q)') \subseteq ToSet(Line(q))
                                    /\ ToSet(Line(q)) \subseteq ToSet(Line(q)') \cup {c},
         \A r \in Sinks(w) : \A x \in ToSet(Line(r)) : Earlier(x, c),
         \A x \in ToSet(Line(s)) : Behind(x, c),
         \A q \in Nodes : s \in Sinks(q) => \A y \in ToSet(Line(q)') : Earlier(c, y)
  PROVE  Chunks'
<1>1. s \in Points /\ s \in Sinks(n)
  <2>1. CASE w = n
    BY <2>1, SinksOf
  <2>2. CASE w \in Pars[n]
    BY <2>2, SinksOf, ParsAreAbove
  <2> QED BY <2>1, <2>2
<1>2. /\ ToSet(Line(s)') = ToSet(Line(s)) \cup {c} /\ Sorted(Line(s)')
      /\ Line(s) \in Seq(Items)
  <2>1. Line(s) \in Seq(Items)
    BY <1>1, LineType
  <2>2. Sorted(Line(s))
    BY <1>1 DEF Chunks, Points
  <2> QED BY <2>1, <2>2, PutLast
<1>3. \A q \in Points : /\ Sorted(Line(q)')
                        /\ \A x \in ToSet(Line(q)') : x \in ToSet(Line(q)) \/ (q = s /\ x = c)
                        /\ \A x \in ToSet(Line(q)) : x \in ToSet(Line(q)') \/ x = c
  BY <1>2
<1>4. ASSUME NEW p \in Nodes, queue'[p] # <<>>
      PROVE  how' = "stream" /\ Kind[p] = "par" /\ st'[p] # "idle"
  <2>1. p \in Points /\ p # User /\ Line(p)' = queue'[p] /\ Line(p) = queue[p]
    BY LineType DEF Line
  <2>2. CASE p = s
    <3>1. p \in Pars[w]
      BY <2>2, SinksOf
    <3> QED BY <2>1, <2>2, <3>1, ParsAreAbove
  <2>3. CASE p # s
    <3>1. queue'[p] \in Seq(Items)
      BY DEF FlowTypeOK, Items
    <3>2. Head(queue'[p]) \in ToSet(queue'[p])
      BY <1>4, <3>1, TakeFirst
    <3>3. Head(queue'[p]) \in ToSet(queue[p])
      BY <2>1, <2>3, <3>2
    <3>4. queue[p] # <<>>
      BY <3>3 DEF ToSet
    <3> QED BY <3>4 DEF Chunks
  <2> QED BY <2>2, <2>3
<1>5. ASSUME NEW x \in ToSet(delivered') PROVE x[2] > 0
  <2>1. User \in Points /\ Line(User)' = delivered' /\ Line(User) = delivered
    BY DEF Line, Points
  <2> QED BY <1>3, <1>5, <2>1 DEF Chunks
<1>6. ASSUME NEW q \in Points, NEW x \in ToSet(Line(q)'), x[2] > 0
      PROVE  q \in Sinks(x[1]) /\ x[2] <= told'[x[1]]
  <2>1. CASE x \in ToSet(Line(q))
    <3>1. q \in Sinks(x[1]) /\ x[2] <= told[x[1]]
      BY <1>6, <2>1 DEF Chunks, Points
    <3>2. x[1] \in Nodes /\ x[2] \in Nat
      BY <2>1, LineType
    <3>3. told[x[1]] <= told'[x[1]] /\ told[x[1]] \in Nat /\ told'[x[1]] \in Nat
      BY <3>2 DEF FlowTypeOK
    <3> QED BY <3>1, <3>2, <3>3
  <2>2. CASE q = s /\ x = c
    BY <1>1, <2>2
  <2> QED BY <1>3, <2>1, <2>2
<1>7. ASSUME NEW q \in Points, NEW r \in Sinks(q) PROVE AllEarlier(ToSet(Line(r)'), ToSet(Line(q)'))
  <2>0. q \in Nodes /\ q # User /\ r \in Points /\ r # q
    <3>1. q # User
      BY <1>7 DEF Sinks
    <3>2. q \in Nodes
      BY <3>1 DEF Points
    <3> QED BY <3>1, <3>2, SinksOf
  <2>1. SUFFICES ASSUME NEW x \in ToSet(Line(r)'), NEW y \in ToSet(Line(q)') PROVE Earlier(x, y)
    BY DEF AllEarlier
  <2>2. CASE x \in ToSet(Line(r)) /\ y \in ToSet(Line(q))
    BY <2>2 DEF Chunks, AllEarlier, Points
  <2>3. CASE r = s /\ x = c
    BY <2>0, <2>3
  <2>4. CASE q = s /\ y = c
    <3>1. r \in Sinks(w)
      BY <2>4, SinksOf
    <3>2. r # s
      BY <2>0, <2>4
    <3> QED BY <1>3, <2>0, <2>4, <3>1, <3>2
  <2> QED BY <1>3, <2>0, <2>2, <2>3, <2>4
<1>8. ASSUME NEW m \in Nodes, NEW k \in 1..told'[m]
      PROVE  \E q \in Sinks(m) : <<m, k>> \in ToSet(Line(q)')
  <2>1. CASE <<m, k>> = c
    <3>1. m = n
      BY <2>1
    <3> QED BY <1>1, <1>2, <2>1, <3>1
  <2>2. CASE <<m, k>> # c
    <3>1. k \in 1..told[m]
      BY <2>2
    <3>2. PICK q \in Sinks(m) : <<m, k>> \in ToSet(Line(q))
      BY <3>1 DEF Chunks
    <3>3. q \in Points
      BY SinksOf
    <3> QED BY <1>3, <2>2, <3>2, <3>3
  <2> QED BY <2>1, <2>2
<1> QED BY <1>3, <1>4, <1>5, <1>6, <1>7, <1>8 DEF Chunks, Points

\* Nothing is on its way below a node, or at a node that is not above it, of that node.
LEMMA OnTheWay ==
  ASSUME FlowTypeOK, Chunks, NEW q \in Points, NEW x \in ToSet(Line(q)), x[2] > 0
  PROVE  q \in Sinks(x[1]) /\ x[2] <= told[x[1]] /\ x[1] \in Nodes /\ x[2] \in Nat
<1> QED BY LineType DEF Chunks, Points

LEMMA YieldKeepsChunks ==
  ASSUME FlowTypeOK, FlowTypeOK', Rooted, WorkingUnder, Chunks, \A p \in Nodes : Sentinels(p),
         how = "stream", how' = how, NEW n \in Nodes,
         st[n] = "running" \/ Sink[n] = User, st[n] # "idle",
         \A p \in Nodes : st[p] # "idle" => st'[p] # "idle",
         told' = [told EXCEPT ![n] = @ + 1],
         delivered' = IF Sink[n] = User THEN Append(delivered, <<n, told'[n]>>) ELSE delivered,
         queue' = IF Sink[n] = User THEN queue
                  ELSE [queue EXCEPT ![Sink[n]] = Append(@, <<n, told'[n]>>)]
  PROVE  Chunks'
<1> DEFINE c == <<n, told[n] + 1>>
           s == Sink[n]
<1>1. /\ told[n] \in Nat /\ told'[n] = told[n] + 1 /\ c \in Items /\ c[1] = n /\ c[2] = told[n] + 1
      /\ \A m \in Nodes : told[m] \in Nat /\ (m # n => told'[m] = told[m])
  BY DEF FlowTypeOK, Items
<1>2. s \in Sinks(n) /\ s \in Points
  BY SinksOf
<1>3. /\ Line(s)' = Append(Line(s), c)
      /\ \A q \in Points : q # s => Line(q)' = Line(q)
  BY <1>1, <1>2 DEF Line, FlowTypeOK, Points, User, Nodes
<1>4. c[2] > 0 /\ c[2] <= told'[n] /\ \A m \in Nodes : told[m] <= told'[m]
  BY <1>1
<1>5. \A m \in Nodes : \A k \in 1..told'[m] : k \in 1..told[m] \/ <<m, k>> = c
  BY <1>1
<1>6. s # User => s \in Pars[n] /\ s \in Above[n] /\ s \in Nodes /\ st'[s] # "idle"
  <2>1. s # User => s \in Pars[n]
    BY SinkIsNearest
  <2>2. s # User => s \in Above[n] /\ s \in Nodes
    BY <2>1, ParsAreAbove
  <2> QED BY <2>1, <2>2 DEF Rooted
<1>7. ASSUME NEW r \in Sinks(n), NEW x \in ToSet(Line(r)) PROVE Earlier(x, c)
  <2>1. r \in Points
    BY SinksOf
  <2>2. CASE x[2] > 0 /\ x[1] = n
    <3>1. x[2] <= told[n] /\ x[2] \in Nat
      BY <2>1, <2>2, OnTheWay
    <3> QED BY <1>1, <3>1 DEF Earlier
  <2> QED BY <1>1, <2>2 DEF Earlier
<1>8. ASSUME NEW x \in ToSet(Line(s)) PROVE Behind(x, c)
  <2> SUFFICES ASSUME x[2] = 0 PROVE x[1] # n /\ x[1] \notin Above[n]
    BY <1>1 DEF Behind
  <2>1. s # User
    BY DEF Chunks, Line
  <2>2. Kind[s] = "par" /\ Line(s) = queue[s] /\ st[n] = "running"
    BY <1>6, <2>1, ParsAreAbove DEF Line
  <2>3. x[1] \in KidsOf(s) /\ st[x[1]] \in Returned
    BY <1>6, <2>1, <2>2 DEF Sentinels
  <2> QED BY <1>6, <2>1, <2>2, <2>3, NotReturned
<1>9. ASSUME NEW q \in Nodes, s \in Sinks(q), NEW y \in ToSet(Line(q)') PROVE Earlier(c, y)
  <2>1. q # s /\ Line(q)' = Line(q) /\ q \in Points
    BY <1>3, <1>9, SinksOf DEF Points
  <2>2. CASE y[1] = n /\ y[2] > 0
    <3>1. q \in Sinks(n)
      BY <1>9, <2>1, <2>2, OnTheWay
    <3>2. q \in Sinks(s)
      BY <2>1, <3>1, SinksOf
    <3>3. s # User
      BY <3>2, SinksOf
    <3>4. s \notin Sinks(s) /\ Sinks(q) \subseteq Sinks(s)
      BY <1>6, <3>2, <3>3, SinksOf
    <3> QED BY <1>9, <3>4
  <2> QED BY <1>1, <2>2 DEF Earlier
<1>10. \A q \in Points : q # s => /\ Sorted(Line(q)')
                                  /\ ToSet(Line(q)') \subseteq ToSet(Line(q))
                                  /\ ToSet(Line(q)) \subseteq ToSet(Line(q)') \cup {c}
  BY <1>3 DEF Chunks, Points
<1> HIDE DEF c
<1>11. c[1] = n /\ c[2] > 0 /\ c \in Items /\ c[2] <= told'[n]
  BY <1>1, <1>4
<1> QED BY <1>2, <1>3, <1>4, <1>5, <1>6, <1>7, <1>8, <1>9, <1>10, <1>11, ChunkMoves

\* A ParallelFlow passes the first chunk of its queue on.
LEMMA TakeKeepsChunks ==
  ASSUME FlowTypeOK, FlowTypeOK', Rooted, WorkingUnder, Chunks, \A q \in Nodes : Sentinels(q),
         how = "stream", how' = how, NEW p \in Nodes, st[p] = "running", st' = st, told' = told,
         queue[p] # <<>>, NEW c, c = Head(queue[p]), c[2] > 0,
         delivered' = IF Sink[p] = User THEN Append(delivered, c) ELSE delivered,
         queue' = IF Sink[p] = User THEN [queue EXCEPT ![p] = Tail(@)]
                  ELSE [[queue EXCEPT ![p] = Tail(@)] EXCEPT ![Sink[p]] = Append(@, c)]
  PROVE  Chunks'
<1> DEFINE s == Sink[p]
           n == c[1]
<1>0. queue \in [Nodes -> Seq(Items)] /\ queue[p] \in Seq(Items) /\ p # User
  <2>1. p # User
    BY DEF User, Nodes
  <2> QED BY <2>1 DEF FlowTypeOK, Items
<1>1. /\ c \in Items /\ c \in ToSet(queue[p]) /\ ToSet(queue[p]) = ToSet(Tail(queue[p])) \cup {c}
      /\ Tail(queue[p]) \in Seq(Items)
      /\ Sorted(queue[p]) => /\ Sorted(Tail(queue[p]))
                             /\ \A y \in ToSet(Tail(queue[p])) : Earlier(c, y) /\ Behind(c, y)
  BY <1>0, TakeFirst
<1>2. s \in Sinks(p) /\ s \in Points /\ s # p
  BY SinksOf
<1>3. p \in Points /\ Line(p) = queue[p] /\ Sorted(queue[p])
  BY <1>0 DEF Chunks, Points, Line
<1>4. n \in Nodes /\ c[2] \in Nat /\ p \in Pars[n] /\ p \in Above[n] /\ c[2] <= told[n]
  <2>1. p \in Sinks(n) /\ c[2] <= told[n] /\ n \in Nodes /\ c[2] \in Nat
    BY <1>1, <1>3, OnTheWay
  <2>2. p \in Pars[n]
    BY <2>1, SinksOf
  <2> QED BY <2>1, <2>2, ParsAreAbove
<1>5. /\ Line(s)' = Append(Line(s), c)
      /\ Line(p)' = Tail(queue[p])
      /\ \A q \in Points : q # s /\ q # p => Line(q)' = Line(q)
  <2>1. CASE s = User
    <3>1. Line(s)' = Append(Line(s), c) /\ Line(p)' = Tail(queue[p])
      BY <1>0, <2>1 DEF Line
    <3>2. \A q \in Points : q # s /\ q # p => Line(q)' = Line(q)
      BY <1>0, <2>1 DEF Line, Points
    <3> QED BY <3>1, <3>2
  <2>2. CASE s # User
    <3>1. s \in Nodes
      BY <1>2, <2>2 DEF Points
    <3>2. /\ queue'[s] = Append(queue[s], c) /\ queue'[p] = Tail(queue[p]) /\ delivered' = delivered
          /\ \A q \in Nodes : q # s /\ q # p => queue'[q] = queue[q]
      BY <1>0, <1>2, <2>2, <3>1
    <3> QED BY <1>0, <2>2, <3>2 DEF Line, Points
  <2> QED BY <2>1, <2>2
<1>6. s # User => s \in Pars[p] /\ s \in Above[p] /\ s \in Nodes /\ st'[s] # "idle"
  <2>1. s # User => s \in Pars[p]
    BY SinkIsNearest
  <2>2. s # User => s \in Above[p] /\ s \in Nodes
    BY <2>1, ParsAreAbove
  <2> QED BY <2>1, <2>2 DEF Rooted
<1>7. ASSUME NEW r \in Sinks(p), NEW x \in ToSet(Line(r)) PROVE Earlier(x, c)
  <2>1. AllEarlier(ToSet(Line(r)), ToSet(Line(p)))
    BY <1>3 DEF Chunks, Points
  <2> QED BY <1>1, <1>3, <2>1 DEF AllEarlier
<1>8. ASSUME NEW x \in ToSet(Line(s)) PROVE Behind(x, c)
  <2> SUFFICES ASSUME x[2] = 0 PROVE x[1] # n /\ x[1] \notin Above[n]
    BY DEF Behind
  <2>1. s # User
    BY DEF Chunks, Line
  <2>2. Kind[s] = "par" /\ Line(s) = queue[s]
    BY <1>6, <2>1, ParsAreAbove DEF Line
  <2>3. x[1] \in KidsOf(s) /\ st[x[1]] \in Returned
    BY <1>6, <2>1, <2>2 DEF Sentinels
  <2> QED BY <1>4, <1>6, <2>1, <2>3, NotReturned
<1>9. ASSUME NEW q \in Nodes, s \in Sinks(q), NEW y \in ToSet(Line(q)') PROVE Earlier(c, y)
  <2>1. q # s /\ q \in Points
    BY <1>9, SinksOf DEF Points
  <2>2. CASE q = p
    BY <1>1, <1>3, <1>5, <1>9, <2>2
  <2>3. CASE q # p /\ y[1] = n /\ y[2] > 0
    <3>1. y \in ToSet(Line(q))
      BY <1>5, <1>9, <2>1, <2>3
    <3>2. q \in Sinks(n) /\ p \in Sinks(n)
      BY <1>4, <2>1, <2>3, <3>1, OnTheWay, SinksOf
    <3>3. p \in Sinks(q) \/ q \in Sinks(p)
      BY <1>4, <2>3, <3>2, SinksAreALine
    <3>4. CASE q \in Sinks(p)
      <4>1. q \in Sinks(s)
        BY <2>1, <3>4, SinksOf
      <4>2. s # User
        BY <4>1, SinksOf
      <4>3. s \notin Sinks(s) /\ Sinks(q) \subseteq Sinks(s)
        BY <1>6, <4>1, <4>2, SinksOf
      <4> QED BY <1>9, <4>3
    <3>5. CASE p \in Sinks(q)
      <4>1. AllEarlier(ToSet(Line(p)), ToSet(Line(q)))
        BY <2>1, <3>5 DEF Chunks, Points
      <4> QED BY <1>1, <1>3, <3>1, <4>1 DEF AllEarlier
    <3> QED BY <3>3, <3>4, <3>5
  <2> QED BY <2>2, <2>3 DEF Earlier
<1>10. ASSUME NEW q \in Points, q # s
       PROVE  /\ Sorted(Line(q)')
              /\ ToSet(Line(q)') \subseteq ToSet(Line(q))
              /\ ToSet(Line(q)) \subseteq ToSet(Line(q)') \cup {c}
  <2>1. CASE q = p
    BY <1>1, <1>3, <1>5, <2>1
  <2>2. CASE q # p
    BY <1>5, <1>10, <2>2 DEF Chunks, Points
  <2> QED BY <2>1, <2>2
<1>11. /\ \A m \in Nodes : told[m] <= told'[m]
       /\ \A m \in Nodes : \A k \in 1..told'[m] : k \in 1..told[m] \/ <<m, k>> = c
       /\ c[2] <= told'[n]
  BY <1>4 DEF FlowTypeOK
<1>12. /\ \A q \in Nodes : st[q] # "idle" => st'[q] # "idle"
       /\ c[1] = n /\ s = Sink[p]
       /\ p = n \/ p \in Pars[n]
  BY <1>4
<1> HIDE DEF n, s
<1> QED BY <1>1, <1>2, <1>4, <1>5, <1>6, <1>7, <1>8, <1>9, <1>10, <1>11, <1>12, ChunkMoves

\* A line that gets or loses nothing but sentinels.
LEMMA SentinelKeepsChunks ==
  ASSUME FlowTypeOK, FlowTypeOK', Chunks, how' = how, told' = told, delivered' = delivered,
         \A p \in Nodes : st[p] # "idle" => st'[p] # "idle",
         \A p \in Nodes : queue'[p] # <<>> => how = "stream" /\ Kind[p] = "par" /\ st'[p] # "idle",
         \A p \in Nodes : Sorted(queue'[p]),
         \A p \in Nodes : \A c \in Items :
           c[2] > 0 => (c \in ToSet(queue'[p]) <=> c \in ToSet(queue[p]))
  PROVE  Chunks'
<1>1. \A q \in Points : Sorted(Line(q)')
  BY DEF Chunks, Line, Points
<1>2. ASSUME NEW q \in Points, NEW c \in Items, c[2] > 0
      PROVE  c \in ToSet(Line(q)') <=> c \in ToSet(Line(q))
  BY <1>2 DEF Line, Points
<1>3. \A q \in Points : \A c \in ToSet(Line(q)') : c \in Items /\ c[2] \in Nat
  <2>1. \A q \in Points : Line(q)' \in Seq(Items)
    BY DEF FlowTypeOK, Line, Points, Items
  <2> QED BY <2>1 DEF ToSet, Items
<1>4. \A c \in ToSet(delivered') : c[2] > 0
  BY DEF Chunks
<1>5. ASSUME NEW q \in Points, NEW c \in ToSet(Line(q)'), c[2] > 0
      PROVE  q \in Sinks(c[1]) /\ c[2] <= told'[c[1]]
  <2>1. c \in ToSet(Line(q))
    BY <1>2, <1>3, <1>5
  <2> QED BY <1>5, <2>1 DEF Chunks, Points
<1>6. ASSUME NEW q \in Points, NEW r \in Sinks(q) PROVE AllEarlier(ToSet(Line(r)'), ToSet(Line(q)'))
  <2>1. r \in Points
    <3>1. q \in Nodes
      BY <1>6 DEF Sinks, Points
    <3> QED BY <3>1, SinksOf
  <2> SUFFICES ASSUME NEW x \in ToSet(Line(r)'), NEW y \in ToSet(Line(q)') PROVE Earlier(x, y)
    BY DEF AllEarlier
  <2>2. CASE x[2] > 0 /\ y[2] > 0
    <3>1. x \in ToSet(Line(r)) /\ y \in ToSet(Line(q))
      BY <1>2, <1>3, <2>1, <2>2
    <3> QED BY <3>1 DEF Chunks, AllEarlier, Points
  <2> QED BY <2>2 DEF Earlier
<1>7. ASSUME NEW n \in Nodes, NEW k \in 1..told'[n] PROVE \E q \in Sinks(n) : <<n, k>> \in ToSet(Line(q)')
  <2>1. PICK q \in Sinks(n) : <<n, k>> \in ToSet(Line(q))
    BY <1>7 DEF Chunks
  <2>2. q \in Points /\ <<n, k>> \in Items /\ k > 0
    <3>1. q \in Points
      BY SinksOf
    <3>2. told[n] \in Nat
      BY DEF FlowTypeOK
    <3> QED BY <3>1, <3>2 DEF Items
  <2> QED BY <1>2, <2>1, <2>2
<1> QED BY <1>1, <1>4, <1>5, <1>6, <1>7 DEF Chunks, Points

-----------------------------------------------------------------------------
(* Sentinels.                                                              *)

LEMMA SentinelsKept ==
  ASSUME NEW q \in Nodes, Sentinels(q), how' = how, ends'[q] = ends[q],
         Kind[q] = "par" /\ how = "stream" =>
           /\ \/ st'[q] = st[q]
              \/ st'[q] \notin Returned
              \/ st'[q] = "done" /\ ends[q] = Len(Kids[q])
           /\ Taken(q)' = Taken(q)
           /\ \A k \in KidsOf(q) : st[k] \in Returned => st'[k] \in Returned
           /\ \A c \in ToSet(queue'[q]) :
                \/ c \in ToSet(queue[q])
                \/ /\ c[2] = 0 => c[1] \in KidsOf(q) /\ st'[c[1]] \in Returned
                   /\ \A k \in Taken(q) : k # c[1] /\ k \notin Above[c[1]]
  PROVE  Sentinels(q)'
<1> SUFFICES ASSUME Kind[q] = "par", how = "stream"
             PROVE  /\ ends'[q] = Cardinality(Taken(q)')
                    /\ \A c \in ToSet(queue'[q]) :
                         c[2] = 0 => c[1] \in KidsOf(q) /\ st'[c[1]] \in Returned
                    /\ \A k \in Taken(q) : \A c \in ToSet(queue'[q]) : k # c[1] /\ k \notin Above[c[1]]
                    /\ st'[q] # "failed"
                    /\ st'[q] = "done" => ends'[q] = Len(Kids[q])
  BY DEF Sentinels
<1>1. ends'[q] = Cardinality(Taken(q)')
  BY DEF Sentinels
<1>2. \A c \in ToSet(queue'[q]) : c[2] = 0 => c[1] \in KidsOf(q) /\ st'[c[1]] \in Returned
  BY DEF Sentinels
<1>3. \A k \in Taken(q) : \A c \in ToSet(queue'[q]) : k # c[1] /\ k \notin Above[c[1]]
  BY DEF Sentinels
<1>4. st'[q] # "failed" /\ (st'[q] = "done" => ends'[q] = Len(Kids[q]))
  BY DEF Sentinels, Returned
<1> QED BY <1>1, <1>2, <1>3, <1>4

\* A step in which no branch returns, and no queue changes.
LEMMA QuietKeepsSentinels ==
  ASSUME \A q \in Nodes : Sentinels(q), how' = how, ends' = ends, queue' = queue,
         \A q \in Nodes : st'[q] = st[q] \/ st'[q] \notin Returned,
         \A q \in Nodes : Kind[q] = "par" /\ how = "stream" =>
           \A k \in KidsOf(q) : st'[k] = st[k] \/ (st[k] \notin Returned /\ st'[k] \notin Returned)
  PROVE  \A q \in Nodes : Sentinels(q)'
<1> SUFFICES ASSUME NEW q \in Nodes PROVE Sentinels(q)'
  OBVIOUS
<1>1. ASSUME Kind[q] = "par", how = "stream"
      PROVE  /\ Taken(q)' = Taken(q)
             /\ \A k \in KidsOf(q) : st[k] \in Returned => st'[k] \in Returned
  <2>1. \A k \in KidsOf(q) : st[k] \in Returned <=> st'[k] \in Returned
    BY <1>1
  <2> QED BY <2>1 DEF Taken
<1> QED BY <1>1, SentinelsKept

LEMMA StartKeepsSentinels ==
  ASSUME FlowTypeOK, \A q \in Nodes : Sentinels(q), NEW p, NEW S, FlowStart(p, S)
  PROVE  \A q \in Nodes : Sentinels(q)'
<1>1. \A q \in Nodes : st'[q] = st[q] \/ st'[q] \notin Returned
  BY StartFrame DEF Returned
<1>2. ASSUME NEW q \in Nodes, Kind[q] = "par", NEW k \in KidsOf(q)
      PROVE  st'[k] = st[k] \/ (st[k] \notin Returned /\ st'[k] \notin Returned)
  <2>1. k \in S => q = p /\ Kind[p] \notin PipelineKinds
    BY <1>2, StartFrame DEF PipelineKinds
  <2>2. k \in Nodes
    BY AboveKid
  <2> QED BY <2>1, <2>2, StartFrame DEF Returned
<1> QED BY <1>1, <1>2, StartFrame, QuietKeepsSentinels

LEMMA CloseKeepsSentinels ==
  ASSUME FlowTypeOK, \A q \in Nodes : Sentinels(q), CloseFlow
  PROVE  \A q \in Nodes : Sentinels(q)'
<1>1. /\ how' = how /\ ends' = ends /\ queue' = queue
      /\ \A m \in Nodes : st'[m] = st[m] \/ (st[m] = "running" /\ st'[m] = "closed")
  BY DEF CloseFlow, stream
<1>2. \A q \in Nodes : \A k \in KidsOf(q) : k \in Nodes
  BY AboveKid
<1> QED BY <1>1, <1>2, QuietKeepsSentinels DEF Returned

\* Chunks come and go.
LEMMA ChunkKeepsSentinels ==
  ASSUME \A q \in Nodes : Sentinels(q), how' = how, ends' = ends, st' = st,
         NEW c, c[2] # 0, NEW s,
         s \in Nodes => \A k \in KidsOf(s) : st[k] \in Returned => k # c[1] /\ k \notin Above[c[1]],
         \A q \in Nodes : /\ ToSet(queue'[q]) \subseteq ToSet(queue[q]) \cup (IF q = s THEN {c} ELSE {})
                          /\ ToSet(queue[q]) \subseteq ToSet(queue'[q]) \cup {c}
  PROVE  \A q \in Nodes : Sentinels(q)'
<1> SUFFICES ASSUME NEW q \in Nodes PROVE Sentinels(q)'
  OBVIOUS
<1>1. \A k \in KidsOf(q) : Sentinel(k) \in ToSet(queue'[q]) <=> Sentinel(k) \in ToSet(queue[q])
  <2>1. \A k : Sentinel(k) # c
    BY DEF Sentinel
  <2> QED BY <2>1
<1>2. Taken(q)' = Taken(q)
  BY <1>1 DEF Taken
<1>3. ASSUME NEW x \in ToSet(queue'[q])
      PROVE  \/ x \in ToSet(queue[q])
             \/ x[2] # 0 /\ \A k \in Taken(q) : k # x[1] /\ k \notin Above[x[1]]
  <2>1. x \in ToSet(queue[q]) \/ (q = s /\ x = c)
    BY <1>3
  <2> QED BY <2>1 DEF Taken
<1> QED BY <1>2, <1>3, SentinelsKept

\* n returns: its drain task, if it has one, puts the sentinel behind all that came of it.
LEMMA ReturnKeepsSentinels ==
  ASSUME FlowTypeOK, FlowTypeOK', TreeInv, Chunks, \A q \in Nodes : Sentinels(q),
         NEW n, NEW o, FlowReturn(n, o)
  PROVE  Chunks' /\ \A q \in Nodes : Sentinels(q)'
<1>1. /\ n \in Nodes /\ st[n] = "running" /\ o \in Returned /\ st' = [st EXCEPT ![n] = o]
      /\ how' = how /\ ends' = ends /\ told' = told /\ delivered' = delivered
      /\ queue' = IF Drained(n) THEN [queue EXCEPT ![Drain(n)] = Append(@, Sentinel(n))] ELSE queue
      /\ o = "done" /\ Kind[n] = "par" /\ how = "stream" => ends[n] = Len(Kids[n])
      /\ o = "failed" /\ how = "stream" => Kind[n] # "par"
  BY DEF FlowReturn, Leave
<1>2. /\ st'[n] = o /\ \A m \in Nodes : m # n => st'[m] = st[m]
      /\ queue \in [Nodes -> Seq(Items)]
  BY <1>1 DEF FlowTypeOK, Items
<1>3. /\ \A p \in Nodes : st[p] # "idle" => st'[p] # "idle"
      /\ \A k \in Nodes : st[k] \in Returned => st'[k] \in Returned
  BY <1>1, <1>2 DEF Returned
<1>4. \A q \in Nodes : \A k \in KidsOf(q) : k \in Nodes
  BY AboveKid
<1>5. \A q \in Nodes : Kind[q] = "par" /\ how = "stream" =>
        \/ st'[q] = st[q]
        \/ st'[q] = "done" /\ ends[q] = Len(Kids[q])
  BY <1>1, <1>2 DEF Returned
<1>6. CASE ~ Drained(n)
  <2>1. queue' = queue
    BY <1>1, <1>6
  <2>2. Chunks'
    BY <1>1, <1>3, <2>1, LineType, SentinelKeepsChunks DEF Chunks, Line, Points
  <2>3. ASSUME NEW q \in Nodes PROVE Sentinels(q)'
    <3>1. ASSUME Kind[q] = "par", how = "stream" PROVE Taken(q)' = Taken(q)
      <4>1. n \notin KidsOf(q)
        BY <1>6, <3>1 DEF Drained
      <4>2. \A k \in KidsOf(q) : st'[k] = st[k]
        BY <1>2, <1>4, <4>1
      <4> QED BY <2>1, <4>2 DEF Taken
    <3> QED BY <1>1, <1>3, <1>4, <1>5, <2>1, <3>1, SentinelsKept
  <2> QED BY <2>2, <2>3
<1>7. CASE Drained(n)
  <2> DEFINE d == Drain(n)
             c == Sentinel(n)
  <2>1. d \in Nodes /\ Kind[d] = "par" /\ n \in KidsOf(d) /\ how = "stream"
    BY <1>7 DEF Drained, Drain
  <2>2. /\ c \in Items /\ c[1] = n /\ c[2] = 0 /\ n # d /\ d \in Above[n]
    BY <1>1, <2>1, AboveKid, AboveIsStrict DEF Sentinel, Items
  <2>3. /\ queue'[d] = Append(queue[d], c)
        /\ \A q \in Nodes : q # d => queue'[q] = queue[q]
    BY <1>1, <1>2, <1>7, <2>1
  <2>4. \A x \in ToSet(queue[d]) : x[2] = 0 => x[1] \in KidsOf(d) /\ st[x[1]] \in Returned
    BY <2>1 DEF Sentinels
  <2>5. \A k \in KidsOf(d) : st[k] \in Returned => k # n /\ k \notin Above[n]
    BY <1>1, <2>1, <2>2, NotReturned DEF TreeInv
  <2> HIDE DEF d, c
  <2>6. ASSUME NEW x \in ToSet(queue[d]) PROVE Earlier(x, c) /\ Behind(x, c)
    BY <2>2, <2>4, <2>5 DEF Earlier, Behind
  <2>7. /\ ToSet(queue'[d]) = ToSet(queue[d]) \cup {c}
        /\ Sorted(queue'[d])
    <3>1. Sorted(queue[d]) /\ queue[d] \in Seq(Items)
      BY <1>2, <2>1 DEF Chunks, Line, User, Nodes
    <3> QED BY <2>2, <2>3, <2>6, <3>1, PutLast
  <2>8. Chunks'
    <3>1. ASSUME NEW p \in Nodes, queue'[p] # <<>>
          PROVE  how = "stream" /\ Kind[p] = "par" /\ st'[p] # "idle"
      <4>1. CASE p = d
        BY <1>1, <1>3, <2>1, <2>2, <4>1 DEF TreeInv, Rooted
      <4>2. CASE p # d
        BY <1>3, <2>3, <3>1, <4>2 DEF Chunks
      <4> QED BY <4>1, <4>2
    <3>2. \A p \in Nodes : Sorted(queue'[p])
      BY <2>3, <2>7, LineType DEF Chunks, Points
    <3>3. \A p \in Nodes : \A x \in Items :
            x[2] > 0 => (x \in ToSet(queue'[p]) <=> x \in ToSet(queue[p]))
      <4>1. \A x \in Items : x[2] > 0 => x # c
        BY <2>2
      <4> QED BY <2>3, <2>7, <4>1
    <3> QED BY <1>1, <1>3, <3>1, <3>2, <3>3, SentinelKeepsChunks
  <2>9. ASSUME NEW q \in Nodes PROVE Sentinels(q)'
    <3>1. CASE q = d
      <4>1. ASSUME NEW k \in KidsOf(d)
            PROVE  (st'[k] \in Returned /\ Sentinel(k) \notin ToSet(queue'[d])) <=>
                   (st[k] \in Returned /\ Sentinel(k) \notin ToSet(queue[d]))
        <5>1. CASE k = n
          BY <1>1, <2>7, <5>1 DEF c, Returned
        <5>2. CASE k # n
          <6>1. Sentinel(k) # c /\ st'[k] = st[k]
            BY <1>2, <1>4, <2>1, <5>2 DEF c, Sentinel
          <6> QED BY <2>7, <6>1
        <5> QED BY <5>1, <5>2
      <4>2. Taken(d)' = Taken(d)
        BY <4>1 DEF Taken
      <4>3. \A k \in Taken(d) : k # n /\ k \notin Above[n]
        BY <2>5 DEF Taken
      <4>4. \A x \in ToSet(queue'[d]) :
              \/ x \in ToSet(queue[d])
              \/ /\ x[1] \in KidsOf(d) /\ st'[x[1]] \in Returned
                 /\ \A k \in Taken(d) : k # x[1] /\ k \notin Above[x[1]]
        BY <1>1, <1>2, <2>1, <2>2, <2>7, <4>3
      <4>5. \A k \in KidsOf(d) : st[k] \in Returned => st'[k] \in Returned
        BY <1>3, <1>4, <2>1
      <4> QED BY <1>1, <1>5, <2>1, <3>1, <4>2, <4>4, <4>5, SentinelsKept
    <3>2. CASE q # d
      <4>1. n \notin KidsOf(q)
        BY <2>1, <3>2, OneParent
      <4>2. \A k \in KidsOf(q) : st'[k] = st[k]
        BY <1>2, <1>4, <4>1
      <4>3. queue'[q] = queue[q] /\ ends'[q] = ends[q]
        BY <1>1, <2>3, <3>2
      <4>4. Taken(q)' = Taken(q)
        BY <4>2, <4>3 DEF Taken
      <4> QED BY <1>1, <1>5, <4>2, <4>3, <4>4, SentinelsKept
    <3> QED BY <3>1, <3>2
  <2> QED BY <2>8, <2>9
<1> QED BY <1>6, <1>7

\* A ParallelFlow has the sentinel of a branch.
LEMMA TakenKeepsSentinels ==
  ASSUME FlowTypeOK, FlowTypeOK', Chunks, \A q \in Nodes : Sentinels(q),
         NEW p \in Nodes, st[p] = "running", queue[p] # <<>>, NEW k, Head(queue[p]) = Sentinel(k),
         how' = how, st' = st, told' = told, delivered' = delivered,
         ends' = [ends EXCEPT ![p] = @ + 1], queue' = [queue EXCEPT ![p] = Tail(@)]
  PROVE  Chunks' /\ \A q \in Nodes : Sentinels(q)'
<1> DEFINE r == Tail(queue[p])
<1>1. /\ queue[p] \in Seq(Items) /\ how = "stream" /\ Kind[p] = "par" /\ Sorted(queue[p])
      /\ ends[p] \in Nat /\ ends'[p] = ends[p] + 1 /\ queue'[p] = r
      /\ \A q \in Nodes : q # p => queue'[q] = queue[q] /\ ends'[q] = ends[q]
  <2>1. Sorted(queue[p])
    BY LineType DEF Chunks, Points
  <2> QED BY <2>1 DEF FlowTypeOK, Items, Chunks
<1>2. /\ ToSet(queue[p]) = ToSet(r) \cup {Sentinel(k)}
      /\ Sorted(r) /\ \A y \in ToSet(r) : Behind(Sentinel(k), y)
  BY <1>1, TakeFirst
<1> HIDE DEF r
<1>3. \A y \in ToSet(r) : k # y[1] /\ k \notin Above[y[1]]
  BY <1>2 DEF Behind, Sentinel
<1>4. k \in KidsOf(p) /\ st[k] \in Returned
  <2>1. Sentinel(k) \in ToSet(queue[p]) /\ Sentinel(k)[1] = k /\ Sentinel(k)[2] = 0
    BY <1>2 DEF Sentinel
  <2>2. \A c \in ToSet(queue[p]) : c[2] = 0 => c[1] \in KidsOf(p) /\ st[c[1]] \in Returned
    BY <1>1 DEF Sentinels
  <2>3. Sentinel(k)[1] \in KidsOf(p) /\ st[Sentinel(k)[1]] \in Returned
    BY <2>1, <2>2
  <2> QED BY <2>1, <2>3
<1>5. Chunks'
  <2>1. ASSUME NEW q \in Nodes, queue'[q] # <<>>
        PROVE  how = "stream" /\ Kind[q] = "par" /\ st'[q] # "idle"
    BY <1>1, <2>1 DEF Chunks
  <2>2. ASSUME NEW q \in Nodes PROVE Sorted(queue'[q])
    <3>1. Sorted(Line(q)) /\ Line(q) = queue[q]
      BY LineType DEF Chunks, Points
    <3> QED BY <1>1, <1>2, <3>1
  <2>3. \A q \in Nodes : \A x \in Items :
          x[2] > 0 => (x \in ToSet(queue'[q]) <=> x \in ToSet(queue[q]))
    <3>1. \A x \in Items : x[2] > 0 => x # Sentinel(k)
      BY DEF Sentinel
    <3> QED BY <1>1, <1>2, <3>1
  <2> QED BY <2>1, <2>2, <2>3, SentinelKeepsChunks
<1>6. ASSUME NEW q \in Nodes, q # p PROVE Sentinels(q)'
  <2>1. Taken(q)' = Taken(q)
    BY <1>1, <1>6 DEF Taken
  <2> QED BY <1>1, <1>6, <2>1, SentinelsKept
<1>7. Sentinels(p)'
  <2>1. Sentinel(k) \notin ToSet(r)
    BY <1>3 DEF Sentinel
  <2>2. \A l \in KidsOf(p) : l # k => (Sentinel(l) \in ToSet(r) <=> Sentinel(l) \in ToSet(queue[p]))
    BY <1>2 DEF Sentinel
  <2>3. Taken(p)' = Taken(p) \cup {k} /\ k \notin Taken(p)
    BY <1>1, <1>2, <1>4, <2>1, <2>2 DEF Taken
  <2>4. IsFiniteSet(Taken(p))
    BY KidCount, FS_Subset DEF Taken
  <2>5. Cardinality(Taken(p)') = Cardinality(Taken(p)) + 1
    BY <2>3, <2>4, FS_AddElement
  <2>6. ends'[p] = Cardinality(Taken(p)')
    BY <1>1, <2>5 DEF Sentinels
  <2>7. \A c \in ToSet(r) : c[2] = 0 => c[1] \in KidsOf(p) /\ st'[c[1]] \in Returned
    BY <1>1, <1>2 DEF Sentinels
  <2>8. \A l \in Taken(p)' : \A c \in ToSet(r) : l # c[1] /\ l \notin Above[c[1]]
    BY <1>1, <1>2, <1>3, <2>3 DEF Sentinels
  <2> QED BY <1>1, <2>6, <2>7, <2>8 DEF Sentinels
<1> QED BY <1>5, <1>6, <1>7

-----------------------------------------------------------------------------
(* Types.                                                                  *)

LEMMA StartingStreams ==
  ASSUME NEW p \in Nodes, Starting(p)
  PROVE  UNCHANGED <<told, delivered>>
<1> QED BY DEF Starting, SeqNext, ParFork, CondPick, WhileBody, WhileDone, BranchUpstream,
               BranchPick, stream

\* A pipeline is the whole flow.
LEMMA UpstreamAlone ==
  ASSUME FlowTypeOK, Rooted, NEW p \in Nodes, st[p] # "idle", Kind[p] = "branch"
  PROVE  /\ p = root /\ Kid(p, 1) \in Nodes /\ Kid(p, 1) \in KidsOf(p) /\ Pars[Kid(p, 1)] = {}
         /\ Sink[Kid(p, 1)] = User
<1>1. Above[p] = {}
  BY FlowAssumption DEF PipelineKinds, Roots
<1>2. p = root
  BY <1>1 DEF Rooted
<1>3. Kid(p, 1) \in KidsOf(p)
  BY FirstKid DEF KidsOf
<1>4. Kid(p, 1) \in Nodes /\ Above[Kid(p, 1)] = {p}
  BY <1>1, <1>3, AboveKid
<1>5. Pars[Kid(p, 1)] = {}
  BY <1>4 DEF Pars
<1> QED BY <1>2, <1>3, <1>4, <1>5, SinkIsNearest

LEMMA StartKeepsType ==
  ASSUME FlowTypeOK, Rooted, NEW p \in Nodes, AtStep(p), Starting(p)
  PROVE  FlowTypeOK'
<1>1. PICK S, i : /\ FlowStart(p, S) /\ pos' = [pos EXCEPT ![p] = i]
                  /\ i \in Nat /\ i <= LastStep(p)
  BY StartingStarts
<1>2. /\ root' \in Roots /\ how' \in {"run", "stream"} /\ queue' = queue /\ ends' = ends
      /\ st' \in [Nodes -> {"idle", "running", "done", "failed", "closed"}]
      /\ ended' = ended
  BY <1>1, StartFrame DEF FlowTypeOK
<1>3. begun' \in [Nodes -> Nat]
  BY <1>1 DEF FlowStart, Call, FlowTypeOK
<1>4. pos' \in [Nodes -> Nat] /\ \A n \in Nodes : pos'[n] <= LastStep(n)
  BY <1>1 DEF FlowTypeOK, LastStep
<1>5. told' \in [Nodes -> Nat] /\ delivered' \in Seq(Nodes \X Nat)
  BY StartingStreams DEF FlowTypeOK
<1> QED BY <1>2, <1>3, <1>4, <1>5 DEF FlowTypeOK, LastStep

LEMMA ReturnKeepsType ==
  ASSUME FlowTypeOK, NEW n, NEW o, FlowReturn(n, o)
  PROVE  FlowTypeOK'
<1>1. /\ n \in Nodes /\ o \in {"done", "failed"} /\ st' = [st EXCEPT ![n] = o]
      /\ UNCHANGED <<root, how, pos, ends, told, delivered, begun>>
      /\ queue' = IF Drained(n) THEN [queue EXCEPT ![Drain(n)] = Append(@, Sentinel(n))] ELSE queue
      /\ ended' = IF Kind[n] \in FlowKinds /\ o = "done" THEN [ended EXCEPT ![n] = @ + 1] ELSE ended
  BY DEF FlowReturn, Leave, Returned
<1>2. queue' \in [Nodes -> Seq(Nodes \X Nat)]
  <2>1. CASE Drained(n)
    <3>1. Drain(n) \in Nodes
      BY <2>1 DEF Drained, Drain
    <3>2. Sentinel(n) \in Nodes \X Nat
      BY <1>1 DEF Sentinel
    <3> QED BY <1>1, <2>1, <3>1, <3>2 DEF FlowTypeOK
  <2>2. CASE ~ Drained(n)
    BY <1>1, <2>2 DEF FlowTypeOK
  <2> QED BY <2>1, <2>2
<1>3. ended' \in [Nodes -> Nat]
  BY <1>1 DEF FlowTypeOK
<1>4. st' \in [Nodes -> {"idle", "running", "done", "failed", "closed"}]
  BY <1>1 DEF FlowTypeOK
<1> QED BY <1>1, <1>2, <1>3, <1>4 DEF FlowTypeOK

LEMMA SinkNode ==
  ASSUME NEW n \in Nodes
  PROVE  Sink[n] = User \/ (Sink[n] \in Nodes /\ Sink[n] # n)
<1>1. Sink[n] \in Points /\ Sink[n] # n
  BY SinksOf
<1> QED BY <1>1 DEF Points

LEMMA YieldKeepsType ==
  ASSUME FlowTypeOK, NEW n \in Nodes, Yield(n)
  PROVE  FlowTypeOK'
<1>1. /\ told' = [told EXCEPT ![n] = @ + 1]
      /\ delivered' = IF Sink[n] = User THEN Append(delivered, <<n, told'[n]>>) ELSE delivered
      /\ queue' = IF Sink[n] = User THEN queue
                  ELSE [queue EXCEPT ![Sink[n]] = Append(@, <<n, told'[n]>>)]
      /\ UNCHANGED <<root, how, st, pos, ends, begun, ended>>
  BY DEF Yield, Pass, Push
<1>2. told' \in [Nodes -> Nat] /\ <<n, told'[n]>> \in Nodes \X Nat
  BY <1>1 DEF FlowTypeOK
<1>3. delivered' \in Seq(Nodes \X Nat)
  BY <1>1, <1>2 DEF FlowTypeOK
<1>4. queue' \in [Nodes -> Seq(Nodes \X Nat)]
  <2>1. CASE Sink[n] = User
    BY <1>1, <2>1 DEF FlowTypeOK
  <2>2. CASE Sink[n] # User
    BY <1>1, <1>2, <2>2, SinkNode DEF FlowTypeOK
  <2> QED BY <2>1, <2>2
<1> QED BY <1>1, <1>2, <1>3, <1>4 DEF FlowTypeOK

\* What a ParallelFlow takes is a sentinel or a chunk.
LEMMA TakeCases ==
  ASSUME FlowTypeOK, NEW p \in Nodes, ParTake(p), NEW c, c = Head(queue[p])
  PROVE  /\ queue[p] # <<>> /\ c \in Items /\ st[p] = "running" /\ Kind[p] = "par"
         /\ UNCHANGED <<root, how, st, input, output, pos, told, begun, ended>>
         /\ \/ /\ c = Sentinel(c[1]) /\ ends' = [ends EXCEPT ![p] = @ + 1]
               /\ queue' = [queue EXCEPT ![p] = Tail(@)]
               /\ UNCHANGED <<carry, delivered>>
            \/ /\ c[2] > 0 /\ Pass(p, c) /\ ends' = ends
               /\ queue' = IF Sink[p] = User THEN [queue EXCEPT ![p] = Tail(@)]
                           ELSE [[queue EXCEPT ![p] = Tail(@)] EXCEPT ![Sink[p]] = Append(@, c)]
<1>1. queue[p] # <<>> /\ queue[p] \in Seq(Items)
  BY DEF ParTake, FlowTypeOK, Items
<1>2. c \in Items /\ c[1] \in Nodes /\ c[2] \in Nat /\ c = <<c[1], c[2]>>
  <2>1. c \in Items
    BY <1>1
  <2> QED BY <2>1 DEF Items
<1>3. CASE c = Sentinel(c[1])
  BY <1>1, <1>2, <1>3 DEF ParTake, Running
<1>4. CASE c # Sentinel(c[1])
  <2>1. c[2] > 0
    BY <1>2, <1>4 DEF Sentinel
  <2> QED BY <1>1, <1>2, <1>4, <2>1 DEF ParTake, Running
<1> QED BY <1>3, <1>4

LEMMA TakeKeepsType ==
  ASSUME FlowTypeOK, NEW p \in Nodes, ParTake(p)
  PROVE  FlowTypeOK'
<1> DEFINE c == Head(queue[p])
<1> HIDE DEF c
<1>1. /\ queue[p] # <<>> /\ c \in Items
      /\ UNCHANGED <<root, how, st, pos, told, begun, ended>>
      /\ \/ /\ ends' = [ends EXCEPT ![p] = @ + 1] /\ queue' = [queue EXCEPT ![p] = Tail(@)]
            /\ delivered' = delivered
         \/ /\ ends' = ends /\ delivered' = IF Sink[p] = User THEN Append(delivered, c) ELSE delivered
            /\ queue' = IF Sink[p] = User THEN [queue EXCEPT ![p] = Tail(@)]
                        ELSE [[queue EXCEPT ![p] = Tail(@)] EXCEPT ![Sink[p]] = Append(@, c)]
  BY TakeCases DEF c, Pass
<1>2. Tail(queue[p]) \in Seq(Nodes \X Nat)
  BY <1>1 DEF FlowTypeOK
<1>3. [queue EXCEPT ![p] = Tail(@)] \in [Nodes -> Seq(Nodes \X Nat)]
  BY <1>2 DEF FlowTypeOK
<1>4. queue' \in [Nodes -> Seq(Nodes \X Nat)]
  <2> DEFINE r == [queue EXCEPT ![p] = Tail(@)]
  <2>1. r \in [Nodes -> Seq(Nodes \X Nat)] /\ c \in Nodes \X Nat
    BY <1>1, <1>3 DEF Items
  <2>2. queue' = r \/ (Sink[p] # User /\ queue' = [r EXCEPT ![Sink[p]] = Append(@, c)])
    BY <1>1
  <2>3. Sink[p] = User \/ Sink[p] \in Nodes
    BY SinkNode
  <2> HIDE DEF r
  <2>4. CASE queue' = r
    BY <2>1, <2>4
  <2>5. CASE Sink[p] \in Nodes /\ queue' = [r EXCEPT ![Sink[p]] = Append(@, c)]
    <3>1. Append(r[Sink[p]], c) \in Seq(Nodes \X Nat)
      BY <2>1, <2>5
    <3> QED BY <2>1, <2>5, <3>1
  <2> QED BY <2>2, <2>3, <2>4, <2>5
<1>5. ends' \in [Nodes -> Nat]
  <2>1. ends \in [Nodes -> Nat] /\ (ends' = ends \/ ends' = [ends EXCEPT ![p] = @ + 1])
    BY <1>1 DEF FlowTypeOK
  <2> QED BY <2>1
<1>6. delivered' \in Seq(Nodes \X Nat)
  <2>1. delivered \in Seq(Nodes \X Nat) /\ c \in Nodes \X Nat
    BY <1>1 DEF FlowTypeOK, Items
  <2>2. delivered' = delivered \/ delivered' = Append(delivered, c)
    BY <1>1
  <2> QED BY <2>1, <2>2
<1> QED BY <1>1, <1>4, <1>5, <1>6 DEF FlowTypeOK

LEMMA CloseKeepsType ==
  ASSUME FlowTypeOK, CloseFlow
  PROVE  FlowTypeOK'
<1>1. st' \in [Nodes -> {"idle", "running", "done", "failed", "closed"}]
  BY DEF FlowTypeOK, CloseFlow
<1> QED BY <1>1 DEF FlowTypeOK, CloseFlow, stream

-----------------------------------------------------------------------------
(* Texts.                                                                  *)

\* What a call does to the texts.
LEMMA CallTexts ==
  ASSUME Texts, NEW p \in Nodes, NEW S, NEW text, Call(p, S, text)
  PROVE  /\ Texts' /\ output' = output
         /\ \A m \in Nodes : /\ m \in S => input'[m] = text /\ carry'[m] = text
                             /\ m \notin S => input'[m] = input[m]
                             /\ m \notin S /\ m # p => carry'[m] = carry[m]
         /\ carry'[p] = text
<1>1. /\ output' = output
      /\ input' = [n \in Nodes |-> IF n \in S THEN text ELSE input[n]]
      /\ carry' = [n \in Nodes |-> IF n \in S \cup {p} THEN text ELSE carry[n]]
  BY DEF Call
<1>2. Texts'
  BY <1>1 DEF Texts
<1> QED BY <1>1, <1>2

\* Only a SequentialFlow calls its next step.
LEMMA SeqStarts ==
  ASSUME FlowTypeOK, NEW p \in Nodes, Kind[p] = "seq", Starting(p)
  PROVE  LET i == pos[p] + 1
             text == IF pos[p] = 0 \/ how = "stream" THEN carry[p]
                     ELSE carry[p] \o output[Kid(p, pos[p])] IN
         /\ Call(p, {Kid(p, i)}, text) /\ pos'[p] = i /\ i \in 1..Len(Kids[p]) /\ pos[p] \in Nat
         /\ pos[p] # 0 => st[Kid(p, pos[p])] = "done"
         /\ UNCHANGED stream
<1>1. SeqNext(p)
  BY DEF Starting, ParFork, CondPick, WhileBody, WhileDone, BranchUpstream, BranchPick,
         UpstreamRead, UpstreamDone, Running
<1>2. pos[p] \in Nat /\ pos'[p] = pos[p] + 1 /\ pos[p] < Len(Kids[p]) /\ Len(Kids[p]) \in Nat
  BY <1>1, KidCount DEF SeqNext, FlowTypeOK
<1> QED BY <1>1, <1>2 DEF SeqNext, Current, Running

LEMMA StartKeepsCombined ==
  ASSUME FlowTypeOK, Texts, \A q \in Nodes : AtStep(q), \A q \in Nodes : Combined(q),
         NEW p \in Nodes, Starting(p)
  PROVE  \A q \in Nodes : Combined(q)'
<1> SUFFICES ASSUME NEW q \in Nodes, Kind[q] = "seq", how' = "run" PROVE Combined(q)'
  BY DEF Combined
<1>1. PICK S, i : FlowStart(p, S) /\ pos' = [pos EXCEPT ![p] = i]
  BY StartingStarts
<1>2. PICK text : Call(p, S, text)
  BY <1>1 DEF FlowStart
<1>3. how = "run" /\ output' = output
  BY <1>1, StartFrame
<1>4. pos[q] \in Nat /\ pos[q] <= Len(Kids[q]) /\ Len(Kids[q]) \in Nat
  BY KidCount DEF FlowTypeOK
<1>5. \A j \in 1..Len(Kids[q]) : Kid(q, j) \in KidsOf(q) /\ Kid(q, j) \in Nodes
  BY AboveKid DEF KidsOf
<1>6. CASE q = p
  <2> DEFINE k == pos[p] + 1
  <2>1. /\ pos'[p] = k /\ k \in 1..Len(Kids[p]) /\ pos[p] \in Nat
        /\ \E t : /\ Call(p, {Kid(p, k)}, t)
                  /\ t = IF pos[p] = 0 THEN carry[p] ELSE carry[p] \o output[Kid(p, pos[p])]
        /\ st[p] = "running"
    BY <1>1, <1>3, <1>6, SeqStarts, StartFrame
  <2>2. PICK t : /\ Call(p, {Kid(p, k)}, t)
                 /\ t = IF pos[p] = 0 THEN carry[p] ELSE carry[p] \o output[Kid(p, pos[p])]
    BY <2>1
  <2>3. /\ input'[Kid(p, k)] = t /\ carry'[p] = t
        /\ \A m \in Nodes : m # Kid(p, k) => input'[m] = input[m]
    BY <1>5, <1>6, <2>1, <2>2, CallTexts
  <2>4. p # Kid(p, k) /\ input'[p] = input[p]
    <3>1. Kid(p, k) \in KidsOf(p)
      BY <1>5, <1>6, <2>1
    <3>2. p \in Above[Kid(p, k)] /\ Kid(p, k) \in Nodes
      BY <3>1, AboveKid
    <3>3. p # Kid(p, k)
      BY <3>2, AboveIsStrict
    <3> QED BY <2>3, <3>3
  <2>5. \A j \in 1..pos[p] : /\ j \in 1..Len(Kids[p]) /\ j # k /\ Kid(p, j) # Kid(p, k)
                             /\ input'[Kid(p, j)] = input[Kid(p, j)]
    BY <1>4, <1>5, <1>6, <2>1, <2>3, KidsDiffer
  <2>6. \A j \in 1..k : j \in 1..pos[p] \/ j = k
    BY <2>1
  <2>7. /\ pos[p] = 0 => t = input[p]
        /\ pos[p] # 0 => t = input[Kid(p, pos[p])] \o output[Kid(p, pos[p])] /\ pos[p] \in 1..pos[p]
        /\ k - 1 = pos[p] /\ (k = 1 <=> pos[p] = 0) /\ k > 0
    <3>1. /\ st[p] # "idle" /\ pos[p] = 0 => carry[p] = input[p]
          /\ pos[p] > 0 => carry[p] = input[Kid(p, pos[p])]
      BY <1>3, <1>6 DEF Combined
    <3>2. pos[p] # 0 => pos[p] > 0 /\ pos[p] \in 1..pos[p]
      BY <2>1
    <3>3. k - 1 = pos[p] /\ (k = 1 <=> pos[p] = 0) /\ k > 0
      BY <2>1
    <3>4. st[p] # "idle"
      BY <2>1
    <3>5. pos[p] = 0 => t = input[p]
      BY <2>2, <3>1, <3>4
    <3>6. pos[p] # 0 => t = input[Kid(p, pos[p])] \o output[Kid(p, pos[p])]
      BY <2>2, <3>1, <3>2
    <3> QED BY <3>2, <3>3, <3>5, <3>6
  <2>8. ASSUME NEW j \in 1..k
        PROVE  input'[Kid(p, j)] = IF j = 1 THEN input'[p]
                                   ELSE input'[Kid(p, j - 1)] \o output'[Kid(p, j - 1)]
    <3>1. CASE j = k
      BY <1>3, <2>3, <2>4, <2>5, <2>7, <3>1
    <3>2. CASE j # k
      <4>1. j \in 1..pos[p] /\ (j # 1 => j - 1 \in 1..pos[p])
        BY <2>1, <2>6, <3>2
      <4>2. input[Kid(p, j)] = IF j = 1 THEN input[p] ELSE input[Kid(p, j - 1)] \o output[Kid(p, j - 1)]
        BY <1>3, <1>6, <4>1 DEF Combined
      <4> QED BY <1>3, <2>4, <2>5, <4>1, <4>2
    <3> QED BY <3>1, <3>2
  <2> HIDE DEF k
  <2> QED BY <1>6, <2>1, <2>3, <2>7, <2>8 DEF Combined
<1>7. CASE q # p
  <2>1. pos'[q] = pos[q] /\ \A j \in 1..Len(Kids[q]) : input'[Kid(q, j)] = input[Kid(q, j)]
    <3>1. \A k \in KidsOf(q) : k \notin S
      BY <1>1, <1>7, StartFrame
    <3> QED BY <1>1, <1>2, <1>5, <1>7, <3>1, CallTexts DEF FlowTypeOK
  <2>2. CASE q \notin S
    <3>1. carry'[q] = carry[q] /\ input'[q] = input[q] /\ st'[q] = st[q]
      BY <1>1, <1>2, <1>7, <2>2, CallTexts, StartFrame
    <3>2. /\ st[q] # "idle" /\ pos[q] = 0 => carry[q] = input[q]
          /\ pos[q] > 0 => carry[q] = input[Kid(q, pos[q])]
          /\ \A j \in 1..pos[q] : input[Kid(q, j)] =
               IF j = 1 THEN input[q] ELSE input[Kid(q, j - 1)] \o output[Kid(q, j - 1)]
      BY <1>3 DEF Combined
    <3>3. \A j \in 1..pos[q] : j \in 1..Len(Kids[q]) /\ (j # 1 => j - 1 \in 1..Len(Kids[q]))
      BY <1>4
    <3>4. pos[q] > 0 => pos[q] \in 1..Len(Kids[q])
      BY <1>4
    <3> QED BY <1>3, <2>1, <3>1, <3>2, <3>3, <3>4 DEF Combined
  <2>3. CASE q \in S
    <3>1. pos[q] = 0
      <4>1. st[q] = "idle" \/ Kind[p] \in PipelineKinds
        BY <1>1, <2>3, StartFrame
      <4>2. Kind[p] \in PipelineKinds => Kind[q] = "agent"
        BY <1>1, <2>3, StartFrame, FlowAssumption
      <4> QED BY <4>1, <4>2 DEF AtStep
    <3>2. carry'[q] = text /\ input'[q] = text
      BY <1>2, <2>3, CallTexts
    <3>3. pos'[q] = 0
      BY <2>1, <3>1
    <3> QED BY <3>2, <3>3 DEF Combined
  <2> QED BY <2>2, <2>3
<1> QED BY <1>6, <1>7

LEMMA ReturnKeepsTexts ==
  ASSUME FlowTypeOK, Texts, NEW n, NEW o, FlowReturn(n, o)
  PROVE  Texts' /\ input' = input /\ carry' = carry /\ \A m \in Nodes : m # n => output'[m] = output[m]
<1>1. PICK text : Leave(n, o, text)
  BY DEF FlowReturn
<1>2. output' = [output EXCEPT ![n] = text] /\ input' = input /\ carry' = carry
  BY <1>1 DEF Leave
<1>3. output = [m \in Nodes |-> output[m]]
  BY DEF Texts
<1>4. output' = [m \in Nodes |-> output'[m]] /\ \A m \in Nodes : m # n => output'[m] = output[m]
  BY <1>2, <1>3
<1> QED BY <1>2, <1>4 DEF Texts

LEMMA ReturnKeepsCombined ==
  ASSUME FlowTypeOK, Texts, \A q \in Nodes : AtStep(q), \A q \in Nodes : Combined(q),
         NEW n, NEW o, FlowReturn(n, o)
  PROVE  \A q \in Nodes : Combined(q)'
<1> SUFFICES ASSUME NEW q \in Nodes, Kind[q] = "seq", how' = "run" PROVE Combined(q)'
  BY DEF Combined
<1>1. /\ n \in Nodes /\ st[n] = "running" /\ how = "run" /\ pos' = pos
      /\ st' = [st EXCEPT ![n] = o] /\ o \in Returned
  BY DEF FlowReturn, Leave
<1>2. input' = input /\ carry' = carry /\ \A m \in Nodes : m # n => output'[m] = output[m]
  BY ReturnKeepsTexts
<1>3. st'[q] # "idle" => st[q] # "idle"
  BY <1>1 DEF FlowTypeOK
<1>4. pos[q] \in Nat /\ pos[q] <= Len(Kids[q]) /\ Len(Kids[q]) \in Nat
  BY KidCount DEF FlowTypeOK
<1>5. ASSUME NEW j \in 1..pos[q], j # 1 PROVE output'[Kid(q, j - 1)] = output[Kid(q, j - 1)]
  <2>1. j - 1 \in 1..Len(Kids[q]) /\ j - 1 < pos[q]
    BY <1>4, <1>5
  <2>2. st[Kid(q, j - 1)] = "done"
    BY <2>1 DEF AtStep
  <2>3. Kid(q, j - 1) \in Nodes
    BY <2>1, AboveKid DEF KidsOf
  <2> QED BY <1>1, <1>2, <2>2, <2>3
<1>6. /\ st[q] # "idle" /\ pos[q] = 0 => carry[q] = input[q]
      /\ pos[q] > 0 => carry[q] = input[Kid(q, pos[q])]
      /\ \A j \in 1..pos[q] : input[Kid(q, j)] =
           IF j = 1 THEN input[q] ELSE input[Kid(q, j - 1)] \o output[Kid(q, j - 1)]
  BY <1>1 DEF Combined
<1> QED BY <1>1, <1>2, <1>3, <1>5, <1>6 DEF Combined

-----------------------------------------------------------------------------
(* What a sequential flow streams to the consumer.                         *)

Pieces == Points \X Nat

LEMMA LongerText ==
  ASSUME NEW s \in Seq(Pieces), NEW c \in Pieces
  PROVE  /\ Append(s, c) \in Seq(Pieces) /\ Len(s) \in Nat /\ Len(s) <= Len(Append(s, c))
         /\ \A i \in 1..Len(s) : Append(s, c)[i] = s[i]
  OBVIOUS

LEMMA AppendToBoth ==
  ASSUME NEW s \in Seq(Pieces), NEW t \in Seq(Pieces), NEW c \in Pieces
  PROVE  Append(s \o t, c) = s \o Append(t, c)
<1> DEFINE a == Append(s \o t, c)
           b == s \o Append(t, c)
           m == Len(s) + Len(t)
<1>1. Len(s) \in Nat /\ Len(t) \in Nat /\ a \in Seq(Pieces) /\ b \in Seq(Pieces)
      /\ Len(a) = m + 1 /\ Len(b) = m + 1
  OBVIOUS
<1>2. ASSUME NEW i \in 1..m + 1 PROVE a[i] = b[i]
  <2>1. CASE i \in 1..Len(s)
    BY <1>1, <2>1
  <2>2. CASE i \in Len(s)+1..m
    BY <1>1, <2>2
  <2>3. CASE i = m + 1
    BY <1>1, <2>3
  <2> QED BY <1>1, <2>1, <2>2, <2>3
<1> HIDE DEF a, b
<1>3. a = b
  BY <1>1, <1>2
<1> QED BY <1>3 DEF a, b

LEMMA DeliveredPieces ==
  ASSUME FlowTypeOK
  PROVE  /\ <<<<User, 0>>>> \in Seq(Pieces) /\ delivered \in Seq(Pieces)
         /\ <<<<User, 0>>>> \o delivered \in Seq(Pieces)
         /\ Items \subseteq Pieces
<1>1. Items \subseteq Pieces /\ <<User, 0>> \in Pieces
  BY DEF Items, Pieces, Points
<1>2. delivered \in Seq(Items)
  BY DEF FlowTypeOK, Items
<1>3. delivered \in Seq(Pieces)
  BY <1>1, <1>2
<1>4. <<<<User, 0>>>> \in Seq(Pieces)
  BY <1>1
<1> QED BY <1>1, <1>3, <1>4

\* The clauses about the text of the current step.
LEMMA RootKids ==
  ASSUME FlowTypeOK
  PROVE  /\ root \in Nodes /\ Above[root] = {} /\ Pars[root] = {} /\ Sink[root] = User
         /\ \A p \in Nodes : root \notin KidsOf(p)
<1>1. root \in Nodes /\ Above[root] = {}
  BY DEF FlowTypeOK, Roots
<1>2. Pars[root] = {}
  BY <1>1 DEF Pars
<1>3. \A p \in Nodes : root \notin KidsOf(p)
  BY <1>1, AboveKid
<1> QED BY <1>1, <1>2, <1>3, SinkIsNearest

LEMMA StartKeepsPiped ==
  ASSUME FlowTypeOK, Texts, Rooted, \A q \in Nodes : AtStep(q), Piped, NEW p \in Nodes, Starting(p)
  PROVE  Piped'
<1>1. PICK S, i : FlowStart(p, S) /\ pos' = [pos EXCEPT ![p] = i]
  BY StartingStarts
<1>2. PICK text : Call(p, S, text)
  BY <1>1 DEF FlowStart
<1>3. root' = root /\ how' = how /\ st[p] = "running" /\ \A k \in S : k \in KidsOf(p)
  BY <1>1, StartFrame
<1>4. root \in Nodes /\ root \notin S
  BY <1>3, RootKids
<1> SUFFICES ASSUME Kind[root] = "seq", how = "stream", st'[root] # "closed"
             PROVE  /\ input'[root] = <<<<User, 0>>>>
                    /\ carry'[root] = input'[root] \o delivered'
                    /\ pos'[root] > 0 =>
                         /\ input'[Kid(root, pos'[root])] \in Seq(Pieces)
                         /\ Len(input'[Kid(root, pos'[root])]) <= Len(carry'[root])
                         /\ \A j \in 1..Len(input'[Kid(root, pos'[root])]) :
                              input'[Kid(root, pos'[root])][j] = carry'[root][j]
  BY <1>3 DEF Piped, Pieces, Points
<1>5. st[root] # "closed"
  <2>1. st'[root] = st[root]
    BY <1>1, <1>4, StartFrame
  <2> QED BY <2>1
<1>6. input[root] = <<<<User, 0>>>> /\ carry[root] = input[root] \o delivered
  BY <1>5 DEF Piped
<1>7. carry[root] \in Seq(Pieces)
  BY <1>6, DeliveredPieces
<1>8. input'[root] = input[root]
  BY <1>2, <1>4, CallTexts
<1>9. delivered' = delivered
  BY StartingStreams
<1>10. CASE p = root
  <2> DEFINE k == pos[p] + 1
  <2>1. Call(p, {Kid(p, k)}, carry[p]) /\ pos'[p] = k /\ k \in 1..Len(Kids[p])
    BY <1>10, SeqStarts
  <2>2. Kid(p, k) \in Nodes
    BY <2>1, AboveKid DEF KidsOf
  <2> HIDE DEF k
  <2>3. input'[Kid(p, k)] = carry[p] /\ carry'[p] = carry[p]
    BY <2>1, <2>2, CallTexts
  <2>4. Len(carry[p]) \in Nat
    BY <1>7, <1>10
  <2> QED BY <1>6, <1>7, <1>8, <1>9, <1>10, <2>1, <2>3, <2>4
<1>11. CASE p # root
  <2>1. pos'[root] = pos[root] /\ carry'[root] = carry[root]
    BY <1>1, <1>2, <1>4, <1>11, CallTexts DEF FlowTypeOK
  <2>2. ASSUME pos[root] > 0 PROVE input'[Kid(root, pos[root])] = input[Kid(root, pos[root])]
    <3>1. pos[root] \in 1..Len(Kids[root])
      BY <1>4, <2>2, KidCount DEF FlowTypeOK
    <3>2. Kid(root, pos[root]) \in KidsOf(root)
      BY <3>1 DEF KidsOf
    <3>3. Kid(root, pos[root]) \in Nodes /\ Kid(root, pos[root]) \notin S
      BY <1>1, <1>4, <1>11, <3>2, AboveKid, StartFrame
    <3> QED BY <1>2, <3>3, CallTexts
  <2> QED BY <1>5, <1>6, <1>8, <1>9, <2>1, <2>2 DEF Piped, Pieces, Points
<1> QED BY <1>10, <1>11

LEMMA ReturnKeepsPiped ==
  ASSUME FlowTypeOK, Texts, Piped, NEW n, NEW o, FlowReturn(n, o)
  PROVE  Piped'
<1>1. /\ root' = root /\ how' = how /\ pos' = pos /\ delivered' = delivered
      /\ st' = [st EXCEPT ![n] = o] /\ o \in {"done", "failed"} /\ n \in Nodes /\ st[n] = "running"
  BY DEF FlowReturn, Leave, Returned
<1>2. input' = input /\ carry' = carry
  BY ReturnKeepsTexts
<1>3. st'[root] # "closed" => st[root] # "closed"
  BY <1>1 DEF FlowTypeOK
<1> QED BY <1>1, <1>2, <1>3 DEF Piped

\* A chunk goes to the consumer when it goes through the run_stream of the root.
LEMMA PassKeepsPiped ==
  ASSUME FlowTypeOK, Texts, TreeInv, Piped, NEW n \in Nodes, st[n] # "idle", NEW c \in Items,
         Pass(n, c), Kind[n] # "seq", UNCHANGED <<root, how, st, input, pos>>
  PROVE  Piped'
<1> SUFFICES ASSUME Kind[root] = "seq", how = "stream", st[root] # "closed"
             PROVE  /\ input[root] = <<<<User, 0>>>>
                    /\ carry'[root] = input[root] \o delivered'
                    /\ pos[root] > 0 =>
                         /\ input[Kid(root, pos[root])] \in Seq(Pieces)
                         /\ Len(input[Kid(root, pos[root])]) <= Len(carry'[root])
                         /\ \A j \in 1..Len(input[Kid(root, pos[root])]) :
                              input[Kid(root, pos[root])][j] = carry'[root][j]
  BY DEF Piped, Pieces, Points
<1>1. /\ input[root] = <<<<User, 0>>>>
      /\ carry[root] = input[root] \o delivered
      /\ pos[root] > 0 =>
           /\ input[Kid(root, pos[root])] \in Seq(Pieces)
           /\ Len(input[Kid(root, pos[root])]) <= Len(carry[root])
           /\ \A j \in 1..Len(input[Kid(root, pos[root])]) :
                input[Kid(root, pos[root])][j] = carry[root][j]
  BY DEF Piped, Pieces, Points
<1>2. root \in Nodes /\ root \in Above[n]
  BY RootKids DEF TreeInv, Rooted
<1>3. Sink[n] = User <=> root \in Through[n]
  <2>1. CASE Pars[n] = {}
    BY <1>2, <2>1, SinkIsNearest DEF Through
  <2>2. CASE Pars[n] # {}
    <3>1. PICK p \in Pars[n] : TRUE
      BY <2>2
    <3>2. p \in Above[n] /\ p \in Nodes
      BY <3>1, ParsAreAbove
    <3>3. p = root \/ root \in Above[p]
      BY <1>2, <3>2, AboveIsALine, RootKids
    <3>4. ~ (p < root)
      BY <1>2, <3>2, <3>3, AboveIsTransitive DEF Nodes
    <3>5. Sink[n] # User
      BY <2>2, SinkIsNearest
    <3> QED BY <3>1, <3>4, <3>5 DEF Through
  <2> QED BY <2>1, <2>2
<1>4. carry'[root] = IF Sink[n] = User THEN Append(carry[root], c) ELSE carry[root]
  BY <1>2, <1>3 DEF Pass
<1>5. delivered' = IF Sink[n] = User THEN Append(delivered, c) ELSE delivered
  BY DEF Pass
<1>6. CASE Sink[n] # User
  BY <1>1, <1>4, <1>5, <1>6
<1>7. CASE Sink[n] = User
  <2>1. /\ <<<<User, 0>>>> \in Seq(Pieces) /\ delivered \in Seq(Pieces) /\ c \in Pieces
        /\ carry[root] \in Seq(Pieces)
    BY <1>1, DeliveredPieces
  <2>2. carry'[root] = input[root] \o delivered'
    BY <1>1, <1>4, <1>5, <1>7, <2>1, AppendToBoth
  <2>3. /\ Len(carry[root]) \in Nat /\ Len(carry[root]) <= Len(carry'[root])
        /\ Len(carry'[root]) \in Nat
        /\ \A j \in 1..Len(carry[root]) : carry'[root][j] = carry[root][j]
    <3> DEFINE s == carry[root]
    <3>1. s \in Seq(Pieces) /\ c \in Pieces /\ carry'[root] = Append(s, c)
      BY <1>4, <1>7, <2>1
    <3> HIDE DEF s
    <3>2. /\ Append(s, c) \in Seq(Pieces) /\ Len(s) \in Nat /\ Len(s) <= Len(Append(s, c))
          /\ \A j \in 1..Len(s) : Append(s, c)[j] = s[j]
      BY <3>1, LongerText
    <3>3. Len(Append(s, c)) \in Nat
      BY <3>2
    <3> QED BY <3>1, <3>2, <3>3 DEF s
  <2>4. ASSUME pos[root] > 0
        PROVE  /\ Len(input[Kid(root, pos[root])]) <= Len(carry'[root])
               /\ \A j \in 1..Len(input[Kid(root, pos[root])]) :
                    input[Kid(root, pos[root])][j] = carry'[root][j]
    <3> DEFINE t == input[Kid(root, pos[root])]
    <3>1. t \in Seq(Pieces) /\ Len(t) \in Nat /\ Len(t) <= Len(carry[root])
      BY <1>1, <2>4
    <3>2. \A j \in 1..Len(t) : t[j] = carry[root][j] /\ j \in 1..Len(carry[root])
      <4>1. \A j \in 1..Len(t) : t[j] = carry[root][j]
        BY <1>1, <2>4
      <4> HIDE DEF t
      <4>2. \A j \in 1..Len(t) : j \in 1..Len(carry[root])
        BY <2>3, <3>1
      <4> QED BY <4>1, <4>2
    <3> HIDE DEF t
    <3>3. Len(t) <= Len(carry'[root]) /\ \A j \in 1..Len(t) : t[j] = carry'[root][j]
      BY <2>3, <3>1, <3>2
    <3> QED BY <3>3 DEF t
  <2> QED BY <1>1, <2>2, <2>4
<1> QED BY <1>6, <1>7

LEMMA CloseKeepsPiped ==
  ASSUME FlowTypeOK, CloseFlow
  PROVE  Piped'
<1>1. root' = root /\ root \in Nodes /\ st[root] = "running" /\ Sink[root] = User
  BY RootKids DEF CloseFlow
<1>2. st'[root] = "closed"
  BY <1>1 DEF CloseFlow
<1> QED BY <1>1, <1>2 DEF Piped

-----------------------------------------------------------------------------
(* The invariant holds.                                                    *)

LEMMA FlowStarts == FlowInit => FlowInv
<1> SUFFICES ASSUME FlowInit PROVE FlowInv
  OBVIOUS
<1>1. root \in Nodes /\ root \in Roots /\ Above[root] = {}
  BY DEF FlowInit, Roots
<1>2. /\ how \in {"run", "stream"}
      /\ st = [n \in Nodes |-> IF n = root THEN "running" ELSE "idle"]
      /\ input = [n \in Nodes |-> IF n = root THEN <<<<User, 0>>>> ELSE <<>>]
      /\ output = [n \in Nodes |-> <<>>] /\ carry = input
      /\ pos = [n \in Nodes |-> 0] /\ queue = [n \in Nodes |-> <<>>] /\ ends = [n \in Nodes |-> 0]
      /\ told = [n \in Nodes |-> 0] /\ delivered = <<>>
      /\ begun = [n \in Nodes |-> IF n = root /\ Kind[n] \in FlowKinds THEN 1 ELSE 0]
      /\ ended = [n \in Nodes |-> 0]
  BY DEF FlowInit
<1>3. FlowTypeOK
  <2>1. \A n \in Nodes : 0 <= IF Kind[n] = "while" THEN MaxLoopRounds + 1 ELSE Len(Kids[n])
    BY KidCount, FlowAssumption
  <2>2. begun \in [Nodes -> Nat]
    BY <1>2
  <2>3. queue \in [Nodes -> Seq(Nodes \X Nat)] /\ delivered \in Seq(Nodes \X Nat)
    BY <1>2
  <2>4. st \in [Nodes -> {"idle", "running", "done", "failed", "closed"}]
    BY <1>2
  <2> QED BY <1>1, <1>2, <2>1, <2>2, <2>3, <2>4 DEF FlowTypeOK
<1>4. Texts
  BY <1>2 DEF Texts
<1>5. TreeInv
  BY <1>1, <1>2 DEF TreeInv, Rooted, WorkingUnder, FailingUnder, ClosedUnder
<1>6. ASSUME NEW p \in Nodes PROVE AtStep(p) /\ CalledOnce(p) /\ Sentinels(p) /\ Combined(p)
  <2>1. \A k \in KidsOf(p) : k \in Nodes /\ k # root /\ st[k] = "idle"
    <3>1. \A k \in KidsOf(p) : k \in Nodes /\ k # root
      BY <1>1, AboveKid
    <3> QED BY <1>2, <3>1
  <2>2. \A i \in 1..Len(Kids[p]) : st[Kid(p, i)] = "idle"
    BY <2>1 DEF KidsOf
  <2>3. pos[p] = 0 /\ MaxLoopRounds \in Nat /\ \A i \in 2..Len(Kids[p]) : i \in 1..Len(Kids[p])
    BY <1>2, FlowAssumption, KidCount
  <2>4. AtStep(p)
    BY <2>1, <2>2, <2>3 DEF AtStep
  <2>5. CalledOnce(p)
    BY <1>2 DEF CalledOnce
  <2>6. Sentinels(p)
    <3>1. Taken(p) = {}
      BY <2>1 DEF Taken, Returned
    <3>2. queue[p] = <<>> /\ ends[p] = 0 /\ st[p] \in {"idle", "running"}
      BY <1>2
    <3>3. ToSet(queue[p]) = {}
      BY <3>2 DEF ToSet
    <3>4. ends[p] = Cardinality(Taken(p))
      BY <3>1, <3>2, FS_EmptySet
    <3> QED BY <3>1, <3>2, <3>3, <3>4 DEF Sentinels
  <2>7. Combined(p)
    BY <1>2, <2>3 DEF Combined
  <2> QED BY <2>4, <2>5, <2>6, <2>7
<1>7. Chunks
  <2>1. \A q \in Nodes \cup {User} : Line(q) = <<>>
    BY <1>2 DEF Line
  <2>2. \A q \in Nodes \cup {User} : ToSet(Line(q)) = {} /\ Sorted(Line(q))
    BY <2>1 DEF ToSet, Sorted
  <2>3. ToSet(delivered) = {}
    BY <1>2 DEF ToSet
  <2>4. \A n \in Nodes : 1..told[n] = {}
    BY <1>2
  <2>5. \A q \in Nodes \cup {User} : \A r \in Sinks(q) : AllEarlier(ToSet(Line(r)), ToSet(Line(q)))
    BY <2>2 DEF AllEarlier
  <2> QED BY <1>2, <2>2, <2>3, <2>4, <2>5 DEF Chunks
<1>8. Piped
  <2>1. <<<<User, 0>>>> \o <<>> = <<<<User, 0>>>>
    OBVIOUS
  <2>2. input[root] = <<<<User, 0>>>> /\ carry[root] = <<<<User, 0>>>> /\ ~ (pos[root] > 0)
    BY <1>1, <1>2
  <2> QED BY <1>2, <2>1, <2>2 DEF Piped
<1> QED BY <1>3, <1>4, <1>5, <1>6, <1>7, <1>8 DEF FlowInv

LEMMA StartKeepsFlow ==
  ASSUME FlowInv, NEW p \in Nodes, Starting(p)
  PROVE  FlowInv'
<1>1. /\ FlowTypeOK /\ Texts /\ TreeInv /\ Rooted /\ WorkingUnder /\ Chunks /\ Piped
      /\ \A q \in Nodes : AtStep(q)
      /\ \A q \in Nodes : CalledOnce(q)
      /\ \A q \in Nodes : Sentinels(q)
      /\ \A q \in Nodes : Combined(q)
  BY DEF FlowInv, TreeInv
<1>2. PICK S, i : FlowStart(p, S) /\ AtStep(p)' /\ pos' = [pos EXCEPT ![p] = i]
  BY <1>1, StartingStarts
<1>3. FlowTypeOK'
  BY <1>1, StartKeepsType
<1>4. Texts'
  <2>1. PICK text : Call(p, S, text)
    BY <1>2 DEF FlowStart
  <2> QED BY <1>1, <2>1, CallTexts
<1>5. TreeInv'
  BY <1>1, <1>2, StartKeepsTree
<1>6. \A q \in Nodes : AtStep(q)'
  BY <1>1, <1>2, StartKeepsSteps
<1>7. \A q \in Nodes : CalledOnce(q)'
  BY <1>1, <1>2, StartKeepsCounts
<1>8. \A q \in Nodes : Sentinels(q)'
  BY <1>1, <1>2, StartKeepsSentinels
<1>9. \A q \in Nodes : Combined(q)'
  BY <1>1, StartKeepsCombined
<1>10. Piped'
  BY <1>1, StartKeepsPiped
<1>11. Chunks'
  <2>1. /\ how' = how /\ queue' = queue
        /\ \A q \in Nodes : st[q] # "idle" => st'[q] # "idle"
    BY <1>1, <1>2, StartFrame
  <2>2. UNCHANGED <<told, delivered>>
    BY StartingStreams
  <2>3. \A q \in Nodes : queue'[q] # <<>> => how = "stream" /\ Kind[q] = "par" /\ st'[q] # "idle"
    BY <1>1, <2>1 DEF Chunks
  <2>4. \A q \in Nodes : Sorted(queue'[q])
    BY <1>1, <2>1, LineType DEF Chunks, Points
  <2> QED BY <1>1, <1>3, <2>1, <2>2, <2>3, <2>4, SentinelKeepsChunks
<1> QED BY <1>3, <1>4, <1>5, <1>6, <1>7, <1>8, <1>9, <1>10, <1>11 DEF FlowInv

LEMMA EndKeepsFlow ==
  ASSUME FlowInv, NEW n \in Nodes, Ending(n)
  PROVE  FlowInv'
<1>1. /\ FlowTypeOK /\ Texts /\ TreeInv /\ Chunks /\ Piped
      /\ \A q \in Nodes : AtStep(q)
      /\ \A q \in Nodes : CalledOnce(q)
      /\ \A q \in Nodes : Sentinels(q)
      /\ \A q \in Nodes : Combined(q)
  BY DEF FlowInv
<1>2. PICK o : FlowReturn(n, o)
  BY <1>1, EndingReturns
<1>3. FlowTypeOK'
  BY <1>1, <1>2, ReturnKeepsType
<1>4. Texts'
  BY <1>1, <1>2, ReturnKeepsTexts
<1>5. TreeInv'
  BY <1>1, <1>2, ReturnKeepsTree
<1>6. \A q \in Nodes : AtStep(q)'
  BY <1>1, <1>2, ReturnKeepsSteps
<1>7. \A q \in Nodes : CalledOnce(q)'
  BY <1>1, <1>2, ReturnKeepsCounts
<1>8. Chunks' /\ \A q \in Nodes : Sentinels(q)'
  BY <1>1, <1>2, <1>3, ReturnKeepsSentinels
<1>9. \A q \in Nodes : Combined(q)'
  BY <1>1, <1>2, ReturnKeepsCombined
<1>10. Piped'
  BY <1>1, <1>2, ReturnKeepsPiped
<1> QED BY <1>3, <1>4, <1>5, <1>6, <1>7, <1>8, <1>9, <1>10 DEF FlowInv

\* A step that streams leaves what the flows are at alone.
LEMMA StreamingKeeps ==
  ASSUME TreeInv, Texts, how = "stream", UNCHANGED <<root, how, st, input, output, pos, begun, ended>>,
         \A p \in Nodes : AtStep(p) /\ CalledOnce(p),
         carry' = [n \in Nodes |-> carry'[n]]
  PROVE  TreeInv' /\ Texts' /\ \A p \in Nodes : AtStep(p)' /\ CalledOnce(p)' /\ Combined(p)'
<1>1. TreeInv'
  BY DEF TreeInv, Rooted, WorkingUnder, FailingUnder, ClosedUnder
<1>2. Texts'
  BY DEF Texts
<1>3. ASSUME NEW p \in Nodes PROVE AtStep(p)'
  BY SameStep
<1>4. ASSUME NEW p \in Nodes PROVE CalledOnce(p)'
  BY DEF CalledOnce
<1>5. ASSUME NEW p \in Nodes PROVE Combined(p)'
  BY DEF Combined
<1> QED BY <1>1, <1>2, <1>3, <1>4, <1>5

\* An agent that works streams, or the pipeline that is the root streams for it.
LEMMA YieldKeepsFlow ==
  ASSUME FlowInv, NEW n \in Nodes, Yield(n), how = "stream", Kind[n] = "agent",
         st[n] = "running" \/ (st[n] = "done" /\ Sink[n] = User)
  PROVE  FlowInv'
<1>1. /\ FlowTypeOK /\ Texts /\ TreeInv /\ Rooted /\ WorkingUnder /\ Chunks /\ Piped
      /\ \A q \in Nodes : AtStep(q) /\ CalledOnce(q)
      /\ \A q \in Nodes : Sentinels(q)
  BY DEF FlowInv, TreeInv
<1> DEFINE c == <<n, told'[n]>>
<1>2. /\ st[n] # "idle" /\ Kind[n] # "seq"
      /\ told' = [told EXCEPT ![n] = @ + 1] /\ Pass(n, c)
      /\ UNCHANGED <<root, how, st, input, output, pos, ends, begun, ended>>
      /\ delivered' = IF Sink[n] = User THEN Append(delivered, c) ELSE delivered
      /\ queue' = IF Sink[n] = User THEN queue ELSE [queue EXCEPT ![Sink[n]] = Append(@, c)]
  BY DEF Yield, Pass, Push
<1>3. FlowTypeOK'
  BY <1>1, YieldKeepsType
<1>4. c \in Items /\ c[1] = n /\ c[2] # 0
  <2>1. told[n] \in Nat /\ told'[n] = told[n] + 1
    BY <1>1, <1>2 DEF FlowTypeOK
  <2> QED BY <2>1 DEF Items
<1>5. carry' = [m \in Nodes |-> carry'[m]]
  BY <1>2 DEF Pass
<1>6. TreeInv' /\ Texts' /\ \A p \in Nodes : AtStep(p)' /\ CalledOnce(p)' /\ Combined(p)'
  BY <1>1, <1>2, <1>5, StreamingKeeps
<1>7. Chunks'
  BY <1>1, <1>2, <1>3, YieldKeepsChunks
<1>8. Piped'
  BY <1>1, <1>2, <1>4, PassKeepsPiped
<1>9. \A q \in Nodes : Sentinels(q)'
  <2> DEFINE s == Sink[n]
  <2>1. ASSUME s \in Nodes, NEW k \in KidsOf(s), st[k] \in Returned
        PROVE  k # n /\ k \notin Above[n]
    <3>1. s # User /\ st[n] = "running"
      BY <2>1 DEF User, Nodes
    <3>2. s \in Above[n]
      BY <3>1, SinkIsNearest, ParsAreAbove
    <3> QED BY <1>1, <2>1, <3>1, <3>2, NotReturned
  <2>2. ASSUME NEW q \in Nodes
        PROVE  /\ ToSet(queue'[q]) \subseteq ToSet(queue[q]) \cup (IF q = s THEN {c} ELSE {})
               /\ ToSet(queue[q]) \subseteq ToSet(queue'[q]) \cup {c}
    <3>1. queue \in [Nodes -> Seq(Items)]
      BY <1>1 DEF FlowTypeOK, Items
    <3>2. CASE q = s /\ s # User
      <4>1. queue'[q] = Append(queue[q], c) /\ queue[q] \in Seq(Items)
        BY <1>2, <3>1, <3>2
      <4> QED BY <1>4, <3>2, <4>1, PutLast
    <3>3. CASE ~ (q = s /\ s # User)
      BY <1>2, <3>1, <3>3
    <3> QED BY <3>2, <3>3
  <2>3. how' = how /\ ends' = ends /\ st' = st
    BY <1>2
  <2>4. s \in Nodes => \A k \in KidsOf(s) : st[k] \in Returned => k # c[1] /\ k \notin Above[c[1]]
    BY <1>4, <2>1
  <2> HIDE DEF s, c
  <2> QED BY <1>1, <1>4, <2>2, <2>3, <2>4, ChunkKeepsSentinels
<1> QED BY <1>3, <1>6, <1>7, <1>8, <1>9 DEF FlowInv

LEMMA TakeKeepsFlow ==
  ASSUME FlowInv, NEW p \in Nodes, ParTake(p)
  PROVE  FlowInv'
<1>1. /\ FlowTypeOK /\ Texts /\ TreeInv /\ Rooted /\ WorkingUnder /\ Chunks /\ Piped
      /\ \A q \in Nodes : AtStep(q) /\ CalledOnce(q)
      /\ \A q \in Nodes : Sentinels(q)
  BY DEF FlowInv, TreeInv
<1>2. PICK c : c = Head(queue[p])
  OBVIOUS
<1>3. /\ queue[p] # <<>> /\ c \in Items /\ st[p] = "running" /\ Kind[p] = "par"
      /\ UNCHANGED <<root, how, st, input, output, pos, told, begun, ended>>
      /\ \/ /\ c = Sentinel(c[1]) /\ ends' = [ends EXCEPT ![p] = @ + 1]
            /\ queue' = [queue EXCEPT ![p] = Tail(@)]
            /\ UNCHANGED <<carry, delivered>>
         \/ /\ c[2] > 0 /\ Pass(p, c) /\ ends' = ends
            /\ queue' = IF Sink[p] = User THEN [queue EXCEPT ![p] = Tail(@)]
                        ELSE [[queue EXCEPT ![p] = Tail(@)] EXCEPT ![Sink[p]] = Append(@, c)]
  BY <1>1, <1>2, TakeCases
<1>4. FlowTypeOK' /\ how = "stream"
  BY <1>1, <1>3, TakeKeepsType DEF Chunks
<1>5. carry' = [m \in Nodes |-> carry'[m]]
  BY <1>1, <1>3 DEF Pass, Texts
<1>6. TreeInv' /\ Texts' /\ \A q \in Nodes : AtStep(q)' /\ CalledOnce(q)' /\ Combined(q)'
  BY <1>1, <1>3, <1>4, <1>5, StreamingKeeps
<1>7. CASE /\ c = Sentinel(c[1]) /\ ends' = [ends EXCEPT ![p] = @ + 1]
           /\ queue' = [queue EXCEPT ![p] = Tail(@)]
           /\ UNCHANGED <<carry, delivered>>
  <2>1. Chunks' /\ \A q \in Nodes : Sentinels(q)'
    <3>1. Head(queue[p]) = Sentinel(c[1])
      BY <1>2, <1>7
    <3> QED BY <1>1, <1>3, <1>4, <1>7, <3>1, TakenKeepsSentinels
  <2>2. Piped'
    BY <1>1, <1>3, <1>7 DEF Piped
  <2> QED BY <1>4, <1>6, <2>1, <2>2 DEF FlowInv
<1>8. CASE /\ c[2] > 0 /\ Pass(p, c) /\ ends' = ends
           /\ queue' = IF Sink[p] = User THEN [queue EXCEPT ![p] = Tail(@)]
                       ELSE [[queue EXCEPT ![p] = Tail(@)] EXCEPT ![Sink[p]] = Append(@, c)]
  <2>1. delivered' = IF Sink[p] = User THEN Append(delivered, c) ELSE delivered
    BY <1>8 DEF Pass
  <2>2. Chunks'
    BY <1>1, <1>2, <1>3, <1>4, <1>8, <2>1, TakeKeepsChunks
  <2>3. Piped'
    <3>1. Kind[p] # "seq"
      BY <1>3
    <3> QED BY <1>1, <1>3, <1>8, <3>1, PassKeepsPiped
  <2>4. \A q \in Nodes : Sentinels(q)'
    <3> DEFINE s == Sink[p]
    <3>0. c \in ToSet(queue[p]) /\ queue \in [Nodes -> Seq(Items)]
      <4>1. queue \in [Nodes -> Seq(Items)]
        BY <1>1 DEF FlowTypeOK, Items
      <4> QED BY <1>2, <1>3, <4>1, TakeFirst
    <3>1. c[1] \in Nodes /\ p \in Above[c[1]]
      <4>1. p \in Points /\ Line(p) = queue[p]
        BY <1>1, LineType
      <4>2. p \in Sinks(c[1]) /\ c[1] \in Nodes
        BY <1>1, <1>8, <3>0, <4>1, OnTheWay
      <4> QED BY <4>2, SinksOf, ParsAreAbove
    <3>2. ASSUME s \in Nodes, NEW k \in KidsOf(s), st[k] \in Returned
          PROVE  k # c[1] /\ k \notin Above[c[1]]
      <4>1. s # User
        BY <3>2 DEF User, Nodes
      <4>2. s \in Above[p]
        BY <4>1, SinkIsNearest, ParsAreAbove
      <4> QED BY <1>1, <1>3, <1>4, <3>1, <3>2, <4>2, NotReturned
    <3>3. ASSUME NEW q \in Nodes
          PROVE  /\ ToSet(queue'[q]) \subseteq ToSet(queue[q]) \cup (IF q = s THEN {c} ELSE {})
                 /\ ToSet(queue[q]) \subseteq ToSet(queue'[q]) \cup {c}
      <4>1. s = User \/ (s \in Nodes /\ s # p)
        BY SinkNode
      <4>2. CASE q = p
        <5>1. queue'[p] = Tail(queue[p])
          BY <1>8, <3>0, <4>1
        <5>2. ToSet(queue[p]) = ToSet(Tail(queue[p])) \cup {c}
          BY <1>2, <1>3, <3>0, TakeFirst
        <5> QED BY <4>2, <5>1, <5>2
      <4>3. CASE q # p /\ q = s /\ s # User
        <5>1. queue'[q] = Append(queue[q], c) /\ queue[q] \in Seq(Items)
          BY <1>8, <3>0, <4>3
        <5> QED BY <1>3, <4>3, <5>1, PutLast
      <4>4. CASE q # p /\ ~ (q = s /\ s # User)
        BY <1>8, <3>0, <4>4
      <4> QED BY <4>2, <4>3, <4>4
    <3>4. c[2] # 0
      BY <1>8
    <3>5. how' = how /\ ends' = ends /\ st' = st
      BY <1>3, <1>8
    <3>6. s \in Nodes => \A k \in KidsOf(s) : st[k] \in Returned => k # c[1] /\ k \notin Above[c[1]]
      BY <3>2
    <3> HIDE DEF s
    <3> QED BY <1>1, <3>3, <3>4, <3>5, <3>6, ChunkKeepsSentinels
  <2> QED BY <1>4, <1>6, <2>2, <2>3, <2>4 DEF FlowInv
<1> QED BY <1>3, <1>7, <1>8

LEMMA CloseKeepsFlow ==
  ASSUME FlowInv, CloseFlow
  PROVE  FlowInv'
<1>1. /\ FlowTypeOK /\ Texts /\ TreeInv /\ Chunks
      /\ \A q \in Nodes : AtStep(q)
      /\ \A q \in Nodes : CalledOnce(q)
      /\ \A q \in Nodes : Sentinels(q)
  BY DEF FlowInv
<1>2. /\ how = "stream" /\ UNCHANGED <<how, input, output, carry, queue, told, delivered>>
      /\ \A m \in Nodes : st'[m] = st[m] \/ (st[m] = "running" /\ st'[m] = "closed")
  BY DEF CloseFlow, texts, stream
<1>3. FlowTypeOK'
  BY <1>1, CloseKeepsType
<1>4. Texts'
  BY <1>1, <1>2 DEF Texts
<1>5. TreeInv'
  BY <1>1, CloseKeepsTree
<1>6. \A q \in Nodes : AtStep(q)'
  BY <1>1, CloseKeepsSteps
<1>7. \A q \in Nodes : CalledOnce(q)'
  BY <1>1, CloseKeepsCounts
<1>8. \A q \in Nodes : Sentinels(q)'
  BY <1>1, CloseKeepsSentinels
<1>9. \A q \in Nodes : Combined(q)'
  BY <1>2 DEF Combined
<1>10. Piped'
  BY <1>1, CloseKeepsPiped
<1>11. Chunks'
  <2>1. \A q \in Nodes : st[q] # "idle" => st'[q] # "idle"
    BY <1>2
  <2>2. \A q \in Nodes : queue'[q] # <<>> => how = "stream" /\ Kind[q] = "par" /\ st'[q] # "idle"
    BY <1>1, <1>2, <2>1 DEF Chunks
  <2>3. \A q \in Nodes : Sorted(queue'[q])
    BY <1>1, <1>2, LineType DEF Chunks, Points
  <2> QED BY <1>1, <1>2, <1>3, <2>1, <2>2, <2>3, SentinelKeepsChunks
<1> QED BY <1>3, <1>4, <1>5, <1>6, <1>7, <1>8, <1>9, <1>10, <1>11 DEF FlowInv

LEMMA FlowStep == FlowInv /\ [FlowNext]_flowVars => FlowInv'
<1> SUFFICES ASSUME FlowInv, [FlowNext]_flowVars PROVE FlowInv'
  OBVIOUS
<1>1. CASE UNCHANGED flowVars
  <2>1. /\ UNCHANGED <<root, how, st, input, output, carry, pos>>
        /\ UNCHANGED <<queue, ends, told, delivered, begun, ended>>
    BY <1>1 DEF flowVars, texts, stream
  <2>2. FlowTypeOK' /\ Texts'
    BY <2>1 DEF FlowInv, FlowTypeOK, Texts
  <2>3. TreeInv'
    BY <2>1 DEF FlowInv, TreeInv, Rooted, WorkingUnder, FailingUnder, ClosedUnder
  <2>4. ASSUME NEW p \in Nodes PROVE AtStep(p)' /\ CalledOnce(p)' /\ Combined(p)'
    <3>1. AtStep(p)'
      BY <2>1 DEF FlowInv, AtStep
    <3>2. CalledOnce(p)'
      BY <2>1 DEF FlowInv, CalledOnce
    <3>3. Combined(p)'
      BY <2>1 DEF FlowInv, Combined
    <3> QED BY <3>1, <3>2, <3>3
  <2>5. ASSUME NEW p \in Nodes PROVE Sentinels(p)'
    <3>1. Taken(p)' = Taken(p)
      BY <2>1 DEF Taken
    <3> QED BY <2>1, <3>1 DEF FlowInv, Sentinels
  <2>6. Chunks'
    <3>1. \A q : Line(q)' = Line(q)
      BY <2>1 DEF Line
    <3> QED BY <2>1, <3>1 DEF FlowInv, Chunks
  <2>7. Piped'
    BY <2>1 DEF FlowInv, Piped
  <2> QED BY <2>2, <2>3, <2>4, <2>5, <2>6, <2>7 DEF FlowInv
<1>2. CASE CloseFlow
  BY <1>2, CloseKeepsFlow
<1>3. ASSUME NEW n \in Nodes, AgentYields(n) PROVE FlowInv'
  BY <1>3, YieldKeepsFlow DEF AgentYields, Running, Streams
<1>4. ASSUME NEW n \in Nodes, Work(n) PROVE FlowInv'
  <2>1. Starting(n) \/ Ending(n) \/ ParTake(n) \/ UpstreamShown(n)
    BY <1>4 DEF Work, Starting, Ending
  <2>2. CASE UpstreamShown(n)
    <3>1. /\ Kind[n] = "branch" /\ st[n] = "running" /\ st[Kid(n, 1)] = "done"
          /\ how = "stream" /\ Yield(Kid(n, 1))
      BY <2>2 DEF UpstreamShown, UpstreamDone, Running
    <3>2. Kid(n, 1) \in KidsOf(n) /\ Kid(n, 1) \in Nodes /\ Sink[Kid(n, 1)] = User
      BY <3>1, UpstreamAlone DEF FlowInv, TreeInv
    <3>3. Kind[Kid(n, 1)] = "agent"
      BY <3>1, <3>2, FlowAssumption DEF PipelineKinds
    <3> QED BY <3>1, <3>2, <3>3, YieldKeepsFlow
  <2> QED BY <2>1, <2>2, StartKeepsFlow, EndKeepsFlow, TakeKeepsFlow
<1> QED BY <1>1, <1>2, <1>3, <1>4 DEF FlowNext

-----------------------------------------------------------------------------
(* What the invariant gives.                                               *)

LEMMA StepsAreInTurn == FlowInv => StepsInTurn
<1> SUFFICES ASSUME FlowInv, NEW p \in Nodes, Kind[p] = "seq",
                    NEW i \in 1..Len(Kids[p]), NEW j \in 1..Len(Kids[p]), i < j,
                    st[Kid(p, j)] # "idle"
             PROVE  /\ st[Kid(p, i)] = "done"
                    /\ \A n \in Nodes : Kid(p, i) \in Above[n] => st[n] # "running"
  BY DEF StepsInTurn
<1>1. pos[p] \in Nat
  BY DEF FlowInv, FlowTypeOK
<1>2. /\ i < pos[p] => st[Kid(p, i)] = "done"
      /\ j > pos[p] => st[Kid(p, j)] = "idle"
  BY DEF FlowInv, AtStep
<1>3. st[Kid(p, i)] = "done"
  BY <1>1, <1>2
<1>4. \A n \in Nodes : Kid(p, i) \in Above[n] => st[n] # "running"
  BY <1>3 DEF FlowInv, TreeInv, WorkingUnder
<1> QED BY <1>3, <1>4

LEMMA InputsAreCombined == FlowInv => InputIsCombined
<1> SUFFICES ASSUME FlowInv, NEW p \in Nodes, Kind[p] = "seq", how = "run",
                    NEW i \in 1..Len(Kids[p]), st[Kid(p, i)] # "idle"
             PROVE  input[Kid(p, i)] = IF i = 1 THEN input[p]
                                       ELSE input[Kid(p, i - 1)] \o output[Kid(p, i - 1)]
  BY DEF InputIsCombined
<1>1. pos[p] \in Nat
  BY DEF FlowInv, FlowTypeOK
<1>2. i > pos[p] => st[Kid(p, i)] = "idle"
  BY DEF FlowInv, AtStep
<1>3. i \in 1..pos[p]
  BY <1>1, <1>2
<1> QED BY <1>3 DEF FlowInv, Combined

\* A text that agrees with the first pieces of another is a SubSeq of it.
LEMMA PrefixIsSubSeq ==
  ASSUME NEW s \in Seq(Pieces), NEW t \in Seq(Pieces), Len(t) <= Len(s),
         \A i \in 1..Len(t) : t[i] = s[i]
  PROVE  t = SubSeq(s, 1, Len(t))
<1> DEFINE r == SubSeq(s, 1, Len(t))
<1>1. /\ Len(t) \in Nat /\ Len(s) \in Nat /\ r \in Seq(Pieces) /\ Len(r) = Len(t)
      /\ \A i \in 1..Len(t) : r[i] = s[i]
  OBVIOUS
<1> HIDE DEF r
<1>2. t = r
  BY <1>1
<1> QED BY <1>2 DEF r

LEMMA TextIsPiped == FlowInv => PipedIsStreamed
<1> SUFFICES ASSUME FlowInv, Kind[root] = "seq", how = "stream", st[root] # "closed"
             PROVE  /\ carry[root] = input[root] \o delivered
                    /\ pos[root] > 0 =>
                         input[Current(root)] = SubSeq(carry[root], 1, Len(input[Current(root)]))
  BY DEF PipedIsStreamed
<1>1. /\ FlowTypeOK
      /\ input[root] = <<<<User, 0>>>>
      /\ carry[root] = input[root] \o delivered
      /\ pos[root] > 0 =>
           /\ input[Kid(root, pos[root])] \in Seq(Pieces)
           /\ Len(input[Kid(root, pos[root])]) <= Len(carry[root])
           /\ \A i \in 1..Len(input[Kid(root, pos[root])]) :
                input[Kid(root, pos[root])][i] = carry[root][i]
  BY DEF FlowInv, Piped, Pieces, Points
<1>2. carry[root] \in Seq(Pieces)
  BY <1>1, DeliveredPieces
<1>3. Current(root) = Kid(root, pos[root])
  BY DEF Current
<1>4. ASSUME pos[root] > 0
      PROVE  input[Kid(root, pos[root])] = SubSeq(carry[root], 1, Len(input[Kid(root, pos[root])]))
  <2> DEFINE t == input[Kid(root, pos[root])]
             s == carry[root]
  <2>1. t \in Seq(Pieces) /\ s \in Seq(Pieces) /\ Len(t) <= Len(s) /\ \A i \in 1..Len(t) : t[i] = s[i]
    BY <1>1, <1>2, <1>4
  <2> HIDE DEF s, t
  <2>2. t = SubSeq(s, 1, Len(t))
    BY <2>1, PrefixIsSubSeq
  <2> QED BY <2>2 DEF s, t
<1> QED BY <1>1, <1>3, <1>4

\* The chunk k of n is with the consumer if a later one of n is.
LEMMA NoGaps ==
  ASSUME FlowInv, NEW n \in Nodes, NEW k, <<n, k>> \in ToSet(delivered), NEW l \in 1..k
  PROVE  <<n, l>> \in ToSet(delivered)
<1>1. FlowTypeOK /\ Chunks
  BY DEF FlowInv
<1>2. Line(User) = delivered /\ User \in Points
  BY DEF Line, Points
<1>3. k \in Nat /\ k > 0 /\ k <= told[n]
  <2>1. k > 0
    BY <1>1 DEF Chunks
  <2> QED BY <1>1, <1>2, <2>1, OnTheWay
<1>4. l \in Nat /\ l > 0 /\ l <= k /\ l \in 1..told[n]
  BY <1>1, <1>3 DEF FlowTypeOK
<1>5. PICK q \in Sinks(n) : <<n, l>> \in ToSet(Line(q))
  BY <1>1, <1>4 DEF Chunks
<1>6. CASE q = User
  BY <1>2, <1>5, <1>6
<1>7. CASE q # User
  <2>1. q \in Points /\ User \in Sinks(q)
    BY <1>7, SinksOf DEF Sinks
  <2>2. AllEarlier(ToSet(Line(User)), ToSet(Line(q)))
    BY <1>1, <2>1 DEF Chunks, Points
  <2>3. Earlier(<<n, k>>, <<n, l>>)
    BY <1>2, <1>5, <2>2 DEF AllEarlier
  <2> QED BY <1>3, <1>4, <2>3 DEF Earlier
<1> QED BY <1>6, <1>7

LEMMA NothingStaysQueued ==
  ASSUME FlowInv, st[root] = "done", NEW p \in Nodes
  PROVE  st[p] # "running" /\ queue[p] = <<>>
<1>1. FlowTypeOK /\ TreeInv /\ Chunks /\ Sentinels(p)
  BY DEF FlowInv
<1>2. st[p] # "running" /\ st[p] # "closed"
  <2>1. st[p] # "idle" /\ p # root => root \in Above[p]
    BY <1>1 DEF TreeInv, Rooted
  <2> QED BY <1>1, <2>1 DEF TreeInv, WorkingUnder, ClosedUnder
<1>3. ASSUME queue[p] # <<>> PROVE FALSE
  <2>1. how = "stream" /\ Kind[p] = "par" /\ st[p] # "idle"
    BY <1>1, <1>3 DEF Chunks
  <2>2. st[p] = "done"
    <3>1. st[p] # "failed"
      BY <1>1, <2>1 DEF Sentinels
    <3> QED BY <1>1, <1>2, <2>1, <3>1 DEF FlowTypeOK
  <2>3. Taken(p) = KidsOf(p)
    <3>1. ends[p] = Len(Kids[p])
      BY <1>1, <2>1, <2>2 DEF Sentinels
    <3> QED BY <1>1, <2>1, <3>1, AllTaken
  <2> DEFINE c == Head(queue[p])
  <2>4. c \in ToSet(queue[p])
    <3>1. queue[p] \in Seq(Items)
      BY <1>1 DEF FlowTypeOK, Items
    <3> QED BY <1>3, <3>1, TakeFirst
  <2> HIDE DEF c
  <2>5. \A k \in KidsOf(p) : k # c[1] /\ k \notin Above[c[1]]
    BY <1>1, <2>1, <2>3, <2>4 DEF Sentinels
  <2>6. c[1] \in Nodes /\ c[2] \in Nat /\ p \in Points /\ c \in ToSet(Line(p))
    BY <1>1, <2>4, LineType
  <2>7. CASE c[2] = 0
    BY <1>1, <2>1, <2>4, <2>5, <2>7 DEF Sentinels
  <2>8. CASE c[2] > 0
    <3>1. p \in Above[c[1]]
      <4>1. p \in Sinks(c[1])
        BY <1>1, <2>6, <2>8, OnTheWay
      <4> QED BY <2>6, <4>1, SinksOf, ParsAreAbove
    <3> QED BY <2>5, <2>6, <3>1, KidTowards
  <2> QED BY <2>6, <2>7, <2>8
<1> QED BY <1>2, <1>3

LEMMA NothingStays == FlowInv => NothingIsLeft
<1> SUFFICES ASSUME FlowInv, st[root] = "done", NEW n \in Nodes
             PROVE  /\ st[n] # "running" /\ queue[n] = <<>>
                    /\ st[n] = "done" => begun[n] = ended[n]
  BY DEF NothingIsLeft
<1>1. st[n] = "done" => begun[n] = ended[n]
  BY DEF FlowInv, CalledOnce
<1> QED BY <1>1, NothingStaysQueued

LEMMA StreamsAreComplete == FlowInv => StreamIsComplete
<1> SUFFICES ASSUME FlowInv PROVE StreamIsComplete
  OBVIOUS
<1>1. FlowTypeOK /\ Chunks
  BY DEF FlowInv
<1>2. Line(User) = delivered /\ User \in Points
  BY DEF Line, Points
<1>3. ASSUME NEW i \in DOMAIN delivered, NEW j \in DOMAIN delivered, i < j,
             delivered[i][1] = delivered[j][1]
      PROVE  delivered[i][2] < delivered[j][2]
  <2>1. Sorted(delivered)
    BY <1>1, <1>2 DEF Chunks, Points
  <2>2. delivered[i] \in ToSet(delivered) /\ delivered[j] \in ToSet(delivered)
    BY DEF ToSet
  <2> QED BY <1>1, <1>3, <2>1, <2>2 DEF Sorted, Earlier, Chunks
<1>4. \A c \in ToSet(delivered) : c[1] \in Nodes /\ c[2] \in Nat /\ c = <<c[1], c[2]>>
  <2>1. \A c \in ToSet(delivered) : c \in Items
    BY <1>1, <1>2, LineType
  <2> QED BY <2>1 DEF Items
<1>5. ASSUME NEW n \in Nodes
      PROVE  \A k : k \in ChunksOf(n, ToSet(delivered)) <=> <<n, k>> \in ToSet(delivered)
  BY <1>4 DEF ChunksOf
<1>6. ASSUME NEW n \in Nodes, NEW k \in ChunksOf(n, ToSet(delivered))
      PROVE  1..k \subseteq ChunksOf(n, ToSet(delivered))
  BY <1>5, <1>6, NoGaps
<1>7. ASSUME st[root] = "done", NEW n \in Nodes PROVE ChunksOf(n, ToSet(delivered)) = 1..told[n]
  <2>1. ASSUME NEW k \in ChunksOf(n, ToSet(delivered)) PROVE k \in 1..told[n]
    <3>1. <<n, k>> \in ToSet(Line(User)) /\ k > 0
      BY <1>1, <1>2, <1>5, <2>1 DEF Chunks
    <3>2. k <= told[n] /\ k \in Nat
      BY <1>1, <1>2, <3>1, OnTheWay
    <3> QED BY <1>1, <3>1, <3>2 DEF FlowTypeOK
  <2>2. ASSUME NEW k \in 1..told[n] PROVE k \in ChunksOf(n, ToSet(delivered))
    <3>1. PICK q \in Sinks(n) : <<n, k>> \in ToSet(Line(q))
      BY <1>1 DEF Chunks
    <3>2. q = User
      <4>1. q \in Nodes => queue[q] = <<>> /\ Line(q) = queue[q]
        BY <1>1, <1>7, NothingStaysQueued, LineType
      <4>2. q \in Points
        BY SinksOf
      <4> QED BY <3>1, <4>1, <4>2 DEF Points, ToSet
    <3> QED BY <1>2, <1>5, <3>1, <3>2
  <2> QED BY <2>1, <2>2
<1> QED BY <1>3, <1>6, <1>7 DEF StreamIsComplete

LEMMA FailuresAreReported == FlowInv => RunReportsFailures
<1> SUFFICES ASSUME FlowInv, how = "run", st[root] = "done", NEW n \in Nodes, st[n] = "failed"
             PROVE  FALSE
  BY DEF RunReportsFailures
<1>1. root \in Above[n]
  BY DEF FlowInv, TreeInv, Rooted
<1> QED BY <1>1 DEF FlowInv, TreeInv, FailingUnder

LEMMA FlowInvHolds == FlowSpec => []FlowInv
<1> QED BY FlowStarts, FlowStep, PTL DEF FlowSpec

\* Theorem.  However flows are nested and branches interleave, every step of a
\* SequentialFlow starts when the subtree of the step before it has stopped, with the text
\* the steps before it have produced or, streamed, shown: SequentialFlow.run and
\* run_stream, with everything they call.
THEOREM TextIsAlwaysRouted == FlowSpec => []TextIsRouted
<1>1. FlowInv => TextIsRouted
  BY StepsAreInTurn, InputsAreCombined, TextIsPiped DEF TextIsRouted, FlowInv
<1> QED BY FlowInvHolds, <1>1, PTL

\* Theorem.  The consumer of a stream gets the chunks of every agent in order and without
\* gaps, and all of them when the flow returns; a flow that has returned leaves no task
\* and no item behind, and run never hides a failure: the queue, the drain tasks and the
\* count of sentinels of ParallelFlow, nested at will.
THEOREM NothingIsEverLost == FlowSpec => []NothingIsLost
<1>1. FlowInv => NothingIsLost
  BY StreamsAreComplete, NothingStays, FailuresAreReported DEF NothingIsLost
<1> QED BY FlowInvHolds, <1>1, PTL
==============================================================================
