----------------------- MODULE RestateWorkflowsProofs ------------------------
(***************************************************************************)
(* What holds of a durable workflow for any replies of the LLM, iterations,  *)
(* steps and lost attempts.                                                 *)
(*                                                                          *)
(* The argument is about the run that the journal stands for: the positions  *)
(* p[1], p[2], ... that the program goes through if its n-th step returns    *)
(* the n-th value of the journal.  Programs are deterministic (After) and    *)
(* never come back to a step (Precedes), so an attempt that has taken some   *)
(* entries stands where that run was, and a step that is not in the journal  *)
(* is the one position the journal leaves open.                             *)
(***************************************************************************)
EXTENDS RestateWorkflows, SequenceTheorems, FiniteSetTheorems, TLAPS

-----------------------------------------------------------------------------
(* The programs as a function: the position after s, when its step returns v. *)

Position == [at : Acts, step : Nat, call : Nat, calls : Seq(Tools), last : Values]

Pos == [at |-> at, step |-> step, call |-> call, calls |-> calls, last |-> last]

Top == [at |-> First, step |-> 0, call |-> 0, calls |-> <<>>, last |-> <<"ok">>]

CmdOf(s) == <<s.at, s.step, s.call>>

MsgOf(s) == [cmd |-> CmdOf(s), said |-> s.last]

Goes(s, a, v) == [s EXCEPT !.at = a, !.last = v]

OpensCall == [plain |-> "tool", gated |-> "approval_event", human |-> "hitl_event"]

Calling(s, seq, n, v) ==
    IF n <= Len(seq)
    THEN [at |-> OpensCall[seq[n]], step |-> s.step, call |-> n, calls |-> seq, last |-> v]
    ELSE IF s.step + 1 < MaxIterations
    THEN [at |-> "llm", step |-> s.step + 1, call |-> 0, calls |-> <<>>, last |-> v]
    ELSE [at |-> "completion_event", step |-> s.step, call |-> 0, calls |-> <<>>, last |-> v]

AfterReply(s, r) ==
    IF Called(r) = <<>> THEN Goes(s, "completion_event", r)
    ELSE IF Called(r) = r THEN Calling(s, r, 1, r)
    ELSE [s EXCEPT !.at = "persist_assistant", !.calls = Called(r), !.last = r]

AfterStep(s, v) ==
    IF v = <<"error">> \/ s.step + 1 = PipelineSteps THEN Goes(s, "end", v)
    ELSE [s EXCEPT !.step = s.step + 1, !.last = v]

After(s, v) ==
    CASE s.at = "restore_memory" -> Goes(s, "persist_user", v)
      [] s.at = "persist_user" -> Goes(s, "llm", v)
      [] s.at = "llm" -> AfterReply(s, v)
      [] s.at = "persist_assistant" -> Calling(s, s.calls, 1, v)
      [] s.at = "hitl_event" -> Goes(s, "human", v)
      [] s.at = "approval_event" -> Goes(s, "approval", v)
      [] s.at = "human" -> Goes(s, "persist_human", v)
      [] s.at = "approval" -> Goes(s, IF v = <<"deny">> THEN "persist_deny" ELSE "tool", v)
      [] s.at = "tool" -> Goes(s, "persist_tool", v)
      [] s.at \in {"persist_human", "persist_deny", "persist_tool"} ->
           Calling(s, s.calls, s.call + 1, v)
      [] s.at \in {"completion_event", "chain"} -> Goes(s, "end", v)
      [] s.at = "adapter" -> AfterStep(s, v)

\* What a step may return.
May(s, v) ==
    CASE s.at = "llm" -> v \in Replies
      [] s.at \in Promised -> v \in Answer
      [] s.at \in Works -> v \in {<<"ok">>, <<"error">>}
      [] OTHER -> v = <<"ok">>

-----------------------------------------------------------------------------
(* The positions a program comes to, and their order.                      *)

InCall == {"hitl_event", "human", "persist_human", "approval_event", "approval",
           "persist_deny", "tool", "persist_tool"}

Sound(s) ==
    /\ s \in Position
    /\ s.at \in InCall => s.call \in 1..Len(s.calls)
    /\ s.at \notin InCall => s.call = 0
    /\ s.at \in Acts \ {"adapter", "chain", "end"} => s.step < MaxIterations
    /\ s.at = "adapter" => s.step < PipelineSteps
    /\ s.at \in {"chain", "restore_memory", "persist_user"} => s.step = 0
    /\ s.step <= MaxIterations + PipelineSteps
    /\ s.at \in {"approval_event", "approval"} => s.calls[s.call] = "gated"

Phase(s) ==
    IF s.at \in InCall THEN 4
    ELSE [restore_memory |-> 0, persist_user |-> 1, llm |-> 2, persist_assistant |-> 3,
          completion_event |-> 5, adapter |-> 0, chain |-> 0, end |-> 6][s.at]

PhaseOfCall(s) ==
    IF s.at \in Events THEN 0
    ELSE IF s.at \in Promised THEN 1
    ELSE IF s.at = "tool" THEN 2 ELSE 3

Precedes(s, t) ==
    \/ s.step < t.step
    \/ /\ s.step = t.step
       /\ \/ Phase(s) < Phase(t)
          \/ /\ Phase(s) = 4 /\ Phase(t) = 4
             /\ \/ s.call < t.call
                \/ s.call = t.call /\ PhaseOfCall(s) < PhaseOfCall(t)

-----------------------------------------------------------------------------
(* The inductive invariant.                                                *)

Size == Len(journal)

Cmds == Acts \X Nat \X Nat

Typed ==
    /\ kind \in Kinds /\ streaming \in BOOLEAN
    /\ status \in {"none", "running", "done", "cancelled"}
    /\ journal \in Seq([cmd : Cmds, value : Values])
    /\ alive \in BOOLEAN
    /\ Sound(Pos)
    /\ taken \in 0..Size
    /\ outcome = {} \/ \E v \in Values : outcome = {v}
    /\ memory \in Seq([cmd : Cmds, said : Values])
    /\ ran \in Seq(Cmds)
    /\ \A i \in 1..Len(memory) : memory[i].cmd[1] \in Persists
    /\ \A i \in 1..Len(ran) : ran[i][1] \in Works
    /\ promises \in [DOMAIN promises -> Answer] /\ DOMAIN promises \subseteq asked
    /\ crashes \in 0..MaxCrashes

\* An attempt has at most the result of the step after the journal at hand, and
\* the next attempt starts without it.
OutcomeOK ==
    /\ status \in {"none", "running"} /\ ~alive => outcome = {}
    /\ status = "none" => ~alive
    /\ alive /\ outcome # {} =>
          /\ taken = Size
          /\ at \notin Promised \cup {"end"}
          /\ \A v \in outcome : May(Pos, v)
          /\ at \in Persists => \E k \in 1..Len(memory) : memory[k] = MsgOf(Pos)

\* p is the run the journal stands for, and the attempt is on it.
Journalled(p) ==
    /\ p[1] = Top
    /\ \A n \in 1..Size :
         /\ p[n].at # "end"
         /\ journal[n].cmd = CmdOf(p[n])
         /\ May(p[n], journal[n].value)
         /\ p[n + 1] = After(p[n], journal[n].value)
    /\ \A n \in 1..Size+1 : Sound(p[n])
    /\ \A m, n \in 1..Size+1 : m < n => Precedes(p[m], p[n])
    /\ alive => Pos = p[taken + 1]

\* The tool calls of a position are those of the reply, and a gated tool that is
\* run has been approved.
Permitted(p) ==
    /\ \A n \in 1..Size : p[n].at = "approval" =>
         /\ RequestId(p[n].step, p[n].call) \in DOMAIN promises
         /\ promises[RequestId(p[n].step, p[n].call)] = journal[n].value
    /\ \A n \in 1..Size+1 : p[n].at \in InCall \cup {"persist_assistant"} =>
         \E m \in 1..Size : /\ journal[m].cmd = <<"llm", p[n].step, 0>>
                            /\ Called(journal[m].value) = p[n].calls
    /\ \A n \in 1..Size+1 : p[n].at = "tool" /\ p[n].calls[p[n].call] = "gated" =>
         /\ RequestId(p[n].step, p[n].call) \in DOMAIN promises
         /\ promises[RequestId(p[n].step, p[n].call)] = <<"approve">>

\* What has run and what was persisted are positions of the run, in its order.
Performed(p) ==
    /\ \A k \in 1..Len(ran) : \E n \in 1..Size+1 : ran[k] = CmdOf(p[n])
    /\ \A k \in 1..Len(memory) : \E n \in 1..Size+1 : memory[k] = MsgOf(p[n])
    /\ \A k, l \in 1..Len(memory) : \A m, n \in 1..Size+1 :
         k <= l /\ memory[k] = MsgOf(p[m]) /\ memory[l] = MsgOf(p[n]) => m <= n
    /\ \A n \in 1..Size : p[n].at \in Persists =>
         \E k \in 1..Len(memory) : memory[k] = MsgOf(p[n])

Distinct(s) == {s[i] : i \in 1..Len(s)}

Excess(s) == Len(s) - Cardinality(Distinct(s))

\* The step after the journal was performed.
Begun(p) ==
    \/ CmdOf(p[Size + 1]) \in Distinct(ran)
    \/ MsgOf(p[Size + 1]) \in Distinct(memory)

\* What was performed twice was lost by an attempt, and so is what will be.
Counted(p) ==
    /\ Excess(ran) + Excess(memory) <= crashes
    /\ Begun(p) /\ outcome = {} => Excess(ran) + Excess(memory) + 1 <= crashes

Told(p) == Journalled(p) /\ Permitted(p) /\ Performed(p) /\ Counted(p)

IInv == Typed /\ OutcomeOK /\ \E p : Told(p)

-----------------------------------------------------------------------------
(* The programs.                                                           *)

\* What the assumption says of the numbers.
LEMMA Constants ==
    /\ MaxIterations \in Nat /\ MaxIterations >= 1
    /\ PipelineSteps \in Nat /\ PipelineSteps >= 1
    /\ MaxCrashes \in Nat
    /\ \A r \in Replies : Called(r) \in Seq(Tools)
  BY RestateAssumption

\* The next call of seq, or the next iteration, comes after s.
LEMMA CallingIsSound ==
    ASSUME NEW s, Sound(s), s.step < MaxIterations, NEW seq \in Seq(Tools),
           NEW n \in Nat, n >= 1, NEW v \in Values,
           \/ s.at \in {"llm", "persist_assistant"}
           \/ s.at \in {"persist_human", "persist_deny", "persist_tool"} /\ s.call < n
    PROVE  /\ Sound(Calling(s, seq, n, v))
           /\ Precedes(s, Calling(s, seq, n, v))
           /\ Calling(s, seq, n, v).last = v
           /\ Calling(s, seq, n, v).at \in InCall =>
                 Calling(s, seq, n, v).calls = seq /\ Calling(s, seq, n, v).step = s.step
           /\ Calling(s, seq, n, v).at = "tool" => seq[n] # "gated" /\ Calling(s, seq, n, v).call = n
           /\ Calling(s, seq, n, v).at \notin {"persist_assistant", "end"}
  <1> DEFINE t == Calling(s, seq, n, v)
  <1>0. s.step \in Nat /\ s.call \in Nat /\ Len(seq) \in Nat
    BY LenProperties DEF Sound, Position
  <1>1. CASE n <= Len(seq)
    <2>1. seq[n] \in Tools
      BY <1>0, <1>1, ElementOfSeq
    <2>2. /\ OpensCall[seq[n]] \in {"tool", "approval_event", "hitl_event"}
          /\ OpensCall[seq[n]] = "tool" => seq[n] # "gated"
          /\ OpensCall[seq[n]] = "approval_event" => seq[n] = "gated"
      BY <2>1 DEF Tools, OpensCall
    <2>3. t = [at |-> OpensCall[seq[n]], step |-> s.step, call |-> n, calls |-> seq, last |-> v]
      BY <1>1 DEF Calling
    <2> HIDE DEF t
    <2>4. t \in Position
      BY <1>0, <2>2, <2>3 DEF Position, Acts, Events, Works
    <2>5. /\ t.at \in {"tool", "approval_event", "hitl_event"} /\ t.step = s.step
          /\ t.call = n /\ t.calls = seq /\ t.last = v
          /\ t.at = "tool" => seq[n] # "gated"
          /\ t.at = "approval_event" => seq[n] = "gated"
      BY <2>2, <2>3
    <2>6. Sound(t)
      BY <1>0, <1>1, <2>4, <2>5, Constants DEF Sound, InCall
    <2>7. Precedes(s, t)
      BY <1>0, <2>5 DEF Precedes, Phase, PhaseOfCall, InCall, Events, Promised
    <2> QED BY <2>5, <2>6, <2>7 DEF t
  <1>2. CASE n > Len(seq) /\ s.step + 1 < MaxIterations
    <2>1. t = [at |-> "llm", step |-> s.step + 1, call |-> 0, calls |-> <<>>, last |-> v]
      BY <1>0, <1>2 DEF Calling
    <2> HIDE DEF t
    <2>2. /\ t.at = "llm" /\ t.step = s.step + 1 /\ t.call = 0 /\ t.last = v
      BY <2>1
    <2>3. <<>> \in Seq(Tools)
      BY EmptySeq
    <2>4. t \in Position
      BY <1>0, <2>1, <2>3 DEF Position, Acts
    <2>5. Sound(t)
      BY <1>0, <1>2, <2>2, <2>4, Constants DEF Sound, InCall
    <2>6. Precedes(s, t)
      BY <1>0, <2>2 DEF Precedes
    <2> QED BY <2>2, <2>5, <2>6 DEF t, InCall
  <1>3. CASE n > Len(seq) /\ ~(s.step + 1 < MaxIterations)
    <2>1. t = [at |-> "completion_event", step |-> s.step, call |-> 0, calls |-> <<>>, last |-> v]
      BY <1>0, <1>3 DEF Calling
    <2> HIDE DEF t
    <2>2. /\ t.at = "completion_event" /\ t.step = s.step /\ t.call = 0 /\ t.last = v
      BY <2>1
    <2>3. <<>> \in Seq(Tools)
      BY EmptySeq
    <2>4. t \in Position
      BY <1>0, <2>1, <2>3 DEF Position, Acts
    <2>5. Sound(t)
      BY <1>0, <2>2, <2>4, Constants DEF Sound, InCall
    <2>6. Precedes(s, t)
      BY <1>0, <2>2 DEF Precedes, Phase, InCall
    <2> QED BY <2>2, <2>5, <2>6 DEF t, InCall
  <1> QED BY <1>0, <1>1, <1>2, <1>3

\* A change of the act alone.
LEMMA GoesIsSound ==
    ASSUME NEW s, Sound(s), NEW v \in Values, NEW a \in Acts,
           \/ s.at = "restore_memory" /\ a = "persist_user"
           \/ s.at = "persist_user" /\ a = "llm"
           \/ s.at \in {"completion_event", "chain", "adapter"} /\ a = "end"
           \/ s.at = "llm" /\ a = "completion_event"
           \/ s.at = "hitl_event" /\ a = "human"
           \/ s.at = "human" /\ a = "persist_human"
           \/ s.at = "approval" /\ a \in {"persist_deny", "tool"}
           \/ s.at = "tool" /\ a = "persist_tool"
           \/ s.at = "approval_event" /\ a = "approval"
    PROVE  /\ Sound(Goes(s, a, v))
           /\ Precedes(s, Goes(s, a, v))
           /\ Goes(s, a, v).at = a /\ Goes(s, a, v).last = v
           /\ Goes(s, a, v).step = s.step /\ Goes(s, a, v).call = s.call
           /\ Goes(s, a, v).calls = s.calls
  <1> DEFINE t == Goes(s, a, v)
  <1>1. /\ t.at = a /\ t.step = s.step /\ t.call = s.call /\ t.calls = s.calls /\ t.last = v
        /\ t \in Position
    BY DEF Goes, Sound, Position
  <1> HIDE DEF t
  <1>2. s.step \in Nat /\ s.call \in Nat
    BY DEF Sound, Position
  <1>3. Sound(t)
    BY <1>1, <1>2, Constants DEF Sound, InCall, Acts, Events, Works, Promised, Persists
  <1>4. Precedes(s, t)
    BY <1>1, <1>2 DEF Precedes, Phase, PhaseOfCall, InCall, Events, Promised
  <1> QED BY <1>1, <1>3, <1>4 DEF t

\* Every step of a program comes later than the one before, and a tool call takes
\* the calls of the reply along.
LEMMA AfterIsSound ==
    ASSUME NEW s, Sound(s), s.at # "end", NEW v \in Values, May(s, v)
    PROVE  /\ Sound(After(s, v))
           /\ Precedes(s, After(s, v))
           /\ After(s, v).last = v
           /\ After(s, v).at \in InCall \cup {"persist_assistant"} =>
                /\ After(s, v).step = s.step
                /\ \/ s.at = "llm" /\ After(s, v).calls = Called(v)
                   \/ s.at \in InCall \cup {"persist_assistant"} /\ After(s, v).calls = s.calls
           /\ After(s, v).at = "tool" /\ After(s, v).calls[After(s, v).call] = "gated" =>
                s.at = "approval" /\ v = <<"approve">> /\ After(s, v).call = s.call
           /\ s.at = "adapter" /\ v = <<"error">> =>
                After(s, v).at = "end" /\ After(s, v).step = s.step
<1> DEFINE t == After(s, v)
<1>0. s.at \in Acts \ {"end"} /\ s.step \in Nat /\ s.call \in Nat /\ s.calls \in Seq(Tools)
  BY DEF Sound, Position
<1>1. ASSUME NEW a \in Acts, t = Goes(s, a, v),
             \/ s.at = "restore_memory" /\ a = "persist_user"
             \/ s.at = "persist_user" /\ a = "llm"
             \/ s.at \in {"completion_event", "chain", "adapter"} /\ a = "end"
             \/ s.at = "llm" /\ a = "completion_event"
             \/ s.at = "hitl_event" /\ a = "human"
             \/ s.at = "human" /\ a = "persist_human"
             \/ s.at = "approval" /\ a = "persist_deny"
             \/ s.at = "approval" /\ a = "tool" /\ v = <<"approve">>
             \/ s.at = "tool" /\ a = "persist_tool"
             \/ s.at = "approval_event" /\ a = "approval"
      PROVE  /\ Sound(t) /\ Precedes(s, t) /\ t.last = v
             /\ t.at \in InCall \cup {"persist_assistant"} =>
                  /\ t.step = s.step
                  /\ \/ s.at = "llm" /\ t.calls = Called(v)
                     \/ s.at \in InCall \cup {"persist_assistant"} /\ t.calls = s.calls
             /\ t.at = "tool" /\ t.calls[t.call] = "gated" =>
                  s.at = "approval" /\ v = <<"approve">> /\ t.call = s.call
             /\ s.at = "adapter" /\ v = <<"error">> => t.at = "end" /\ t.step = s.step
  <2> HIDE DEF t
  <2>1. /\ Sound(t) /\ Precedes(s, t) /\ t.last = v /\ t.at = a
        /\ t.step = s.step /\ t.call = s.call /\ t.calls = s.calls
    BY <1>1, GoesIsSound
  <2> QED BY <1>1, <2>1 DEF InCall
<1>2. ASSUME NEW seq \in Seq(Tools), NEW n \in Nat, n >= 1, t = Calling(s, seq, n, v),
             \/ s.at = "llm" /\ seq = Called(v)
             \/ s.at = "persist_assistant" /\ seq = s.calls
             \/ /\ s.at \in {"persist_human", "persist_deny", "persist_tool"}
                /\ s.call < n /\ seq = s.calls
      PROVE  /\ Sound(t) /\ Precedes(s, t) /\ t.last = v
             /\ t.at \in InCall \cup {"persist_assistant"} =>
                  /\ t.step = s.step
                  /\ \/ s.at = "llm" /\ t.calls = Called(v)
                     \/ s.at \in InCall \cup {"persist_assistant"} /\ t.calls = s.calls
             /\ t.at = "tool" /\ t.calls[t.call] = "gated" =>
                  s.at = "approval" /\ v = <<"approve">> /\ t.call = s.call
             /\ s.at = "adapter" /\ v = <<"error">> => t.at = "end" /\ t.step = s.step
  <2> HIDE DEF t
  <2>0. s.step < MaxIterations
    BY <1>2 DEF Sound, Acts, Persists
  <2>1. /\ Sound(t) /\ Precedes(s, t) /\ t.last = v
        /\ t.at \in InCall => t.calls = seq /\ t.step = s.step
        /\ t.at = "tool" => seq[n] # "gated" /\ t.call = n
        /\ t.at \notin {"persist_assistant", "end"}
    BY <1>2, <2>0, CallingIsSound
  <2> QED BY <1>2, <2>1 DEF InCall
<1>3. CASE s.at = "llm"
  <2>0. v \in Replies /\ Called(v) \in Seq(Tools)
    BY <1>3, Constants DEF May, Promised, Works
  <2>1. t = AfterReply(s, v)
    BY <1>3 DEF After
  <2>2. CASE Called(v) = <<>>
    <3>1. t = Goes(s, "completion_event", v)
      BY <2>1, <2>2 DEF AfterReply
    <3> HIDE DEF t
    <3> QED BY <1>1, <1>3, <3>1 DEF t, Acts
  <2>3. CASE Called(v) # <<>> /\ Called(v) = v
    <3>1. t = Calling(s, Called(v), 1, v)
      BY <2>1, <2>3 DEF AfterReply
    <3> QED BY <1>2, <1>3, <2>0, <3>1
  <2>4. CASE Called(v) # <<>> /\ Called(v) # v
    <3>1. t = [s EXCEPT !.at = "persist_assistant", !.calls = Called(v), !.last = v]
      BY <2>1, <2>4 DEF AfterReply
    <3> HIDE DEF t
    <3>2. /\ t.at = "persist_assistant" /\ t.step = s.step /\ t.call = s.call
          /\ t.calls = Called(v) /\ t.last = v /\ t \in Position
      BY <2>0, <3>1 DEF Sound, Position, Acts, Persists
    <3>3. Sound(t)
      BY <1>0, <1>3, <3>2, Constants DEF Sound, InCall, Acts
    <3>4. Precedes(s, t)
      BY <1>0, <1>3, <3>2 DEF Precedes, Phase, InCall
    <3> QED BY <1>3, <3>2, <3>3, <3>4 DEF t
  <2> QED BY <2>2, <2>3, <2>4
<1>4. CASE s.at = "persist_assistant"
  <2>1. t = Calling(s, s.calls, 1, v)
    BY <1>4 DEF After
  <2> QED BY <1>0, <1>2, <1>4, <2>1
<1>5. CASE s.at \in {"persist_human", "persist_deny", "persist_tool"}
  <2>1. t = Calling(s, s.calls, s.call + 1, v)
    BY <1>5 DEF After
  <2>2. s.call + 1 \in Nat /\ s.call + 1 >= 1 /\ s.call < s.call + 1
    BY <1>0
  <2> QED BY <1>0, <1>2, <1>5, <2>1, <2>2
<1>6. CASE s.at = "adapter"
  <2>1. t = AfterStep(s, v)
    BY <1>6 DEF After
  <2>2. CASE v = <<"error">> \/ s.step + 1 = PipelineSteps
    <3>1. t = Goes(s, "end", v)
      BY <2>1, <2>2 DEF AfterStep
    <3> QED BY <1>1, <1>6, <3>1, GoesIsSound DEF Acts
  <2>3. CASE ~(v = <<"error">> \/ s.step + 1 = PipelineSteps)
    <3>1. t = [s EXCEPT !.step = s.step + 1, !.last = v]
      BY <2>1, <2>3 DEF AfterStep
    <3> HIDE DEF t
    <3>2. /\ t.at = s.at /\ t.step = s.step + 1 /\ t.call = s.call /\ t.last = v
          /\ t \in Position
      <4>1. s = [at |-> s.at, step |-> s.step, call |-> s.call, calls |-> s.calls, last |-> s.last]
        BY DEF Sound, Position
      <4>2. t = [at |-> s.at, step |-> s.step + 1, call |-> s.call, calls |-> s.calls, last |-> v]
        BY <3>1, <4>1
      <4>3. s.step + 1 \in Nat
        BY <1>0
      <4> QED BY <1>0, <4>2, <4>3 DEF Position
    <3>3. Sound(t)
      BY <1>0, <1>6, <2>3, <3>2, Constants DEF Sound, InCall, Acts
    <3>4. Precedes(s, t)
      BY <1>0, <3>2 DEF Precedes
    <3> QED BY <1>6, <2>3, <3>2, <3>3, <3>4 DEF t, InCall
  <2> QED BY <2>2, <2>3
<1>7. CASE s.at = "approval"
  <2>0. v \in {<<"approve">>, <<"deny">>}
    BY <1>7 DEF May, Promised, Works, Answer
  <2>1. t = Goes(s, IF v = <<"deny">> THEN "persist_deny" ELSE "tool", v)
    BY <1>7 DEF After
  <2> QED BY <1>1, <1>7, <2>0, <2>1 DEF Acts, Persists, Works
<1>8. CASE s.at \in {"restore_memory", "persist_user", "hitl_event", "approval_event", "human",
                     "tool", "completion_event", "chain"}
  <2>1. /\ s.at = "restore_memory" => t = Goes(s, "persist_user", v)
        /\ s.at = "persist_user" => t = Goes(s, "llm", v)
        /\ s.at = "hitl_event" => t = Goes(s, "human", v)
        /\ s.at = "approval_event" => t = Goes(s, "approval", v)
        /\ s.at = "human" => t = Goes(s, "persist_human", v)
        /\ s.at = "tool" => t = Goes(s, "persist_tool", v)
        /\ s.at \in {"completion_event", "chain"} => t = Goes(s, "end", v)
    BY <1>8 DEF After
  <2> HIDE DEF t
  <2> QED BY <1>1, <1>8, <2>1 DEF t, Acts, Persists, Promised
<1> QED
  BY <1>0, <1>3, <1>4, <1>5, <1>6, <1>7, <1>8 DEF Acts, Persists, Events, Works, Promised

\* The order of positions is one, and tells their steps apart.
LEMMA Order ==
    ASSUME NEW s, NEW t, NEW u, Sound(s), Sound(t), Sound(u)
    PROVE  /\ Precedes(s, t) /\ Precedes(t, u) => Precedes(s, u)
           /\ Precedes(s, t) => CmdOf(s) # CmdOf(t) /\ s.step <= t.step
<1>1. \A x : Sound(x) => x.step \in Nat /\ x.call \in Nat /\ Phase(x) \in Nat /\ PhaseOfCall(x) \in Nat
  <2> SUFFICES ASSUME NEW x, Sound(x)
               PROVE  x.step \in Nat /\ x.call \in Nat /\ Phase(x) \in Nat /\ PhaseOfCall(x) \in Nat
    OBVIOUS
  <2>1. x.at \in Acts /\ x.step \in Nat /\ x.call \in Nat
    BY DEF Sound, Position
  <2>2. Phase(x) \in Nat
    BY <2>1 DEF Phase, InCall, Acts, Persists, Events, Works, Promised
  <2> QED BY <2>1, <2>2 DEF PhaseOfCall
<1>2. ASSUME Precedes(s, t), Precedes(t, u) PROVE Precedes(s, u)
  BY <1>1, <1>2 DEF Precedes
<1>3. ASSUME Precedes(s, t) PROVE CmdOf(s) # CmdOf(t) /\ s.step <= t.step
  <2>1. CmdOf(s) = CmdOf(t) => /\ s.step = t.step /\ s.call = t.call
                               /\ Phase(s) = Phase(t) /\ PhaseOfCall(s) = PhaseOfCall(t)
    BY DEF CmdOf, Phase, PhaseOfCall
  <2> QED BY <1>1, <1>3, <2>1 DEF Precedes
<1> QED BY <1>2, <1>3

-----------------------------------------------------------------------------
(* The actions of Program are the steps of After.                          *)

USE DEF attempt, outside, vars, Cmd, Size

\* The attempt takes the result v of its step, or writes it to the journal.
Takes(v) ==
    /\ alive /\ status = "running" /\ status' \in {"running", "done"}
    /\ \/ /\ taken < Size
          /\ journal[taken + 1] = [cmd |-> Cmd, value |-> v]
          /\ journal' = journal
       \/ /\ taken = Size
          /\ \/ outcome = {v}
             \/ /\ at \in Promised /\ RequestId(step, call) \in DOMAIN promises
                /\ promises[RequestId(step, call)] = v
          /\ journal' = Append(journal, [cmd |-> Cmd, value |-> v])
    /\ taken' = taken + 1 /\ outcome' = {}
    /\ UNCHANGED <<kind, streaming, alive, outside, promises, crashes>>

Advances(v) ==
    /\ Takes(v)
    /\ at # "end" /\ May(Pos, v) /\ Pos' = After(Pos, v)

\* The program comes to the n-th call of an answer.
LEMMA ActIsCalling ==
    ASSUME Typed, NEW seq \in Seq(Tools), NEW n \in Nat, n >= 1, NEW v, Act(seq, n), last' = v
    PROVE  Pos' = Calling(Pos, seq, n, v) /\ status' = status
  <1>0. Len(seq) \in Nat
    BY LenProperties
  <1>1. CASE n <= Len(seq)
    <2>1. seq[n] \in Tools
      BY <1>0, <1>1, ElementOfSeq
    <2>2. at' = OpensCall[seq[n]]
      BY <1>1, <2>1 DEF Act, OpensCall, Tools
    <2> QED BY <1>1, <2>2 DEF Act, Calling, Pos
  <1>2. CASE ~(n <= Len(seq))
    BY <1>2 DEF Act, Calling, Pos
  <1> QED BY <1>1, <1>2

\* The program uses the result of a step.
LEMMA TakesResult ==
    ASSUME NEW acts, NEW v, Result(acts, v), status' \in {"running", "done"}
    PROVE  Takes(v) /\ at \in acts /\ last' = v
  BY DEF Result, Takes

\* The lines between two steps advance the program.
LEMMA ProgramAdvances == Typed /\ Program => \E v \in Values : Advances(v)
<1> SUFFICES ASSUME Typed, Program PROVE \E v \in Values : Advances(v)
  OBVIOUS
<1> USE DEF GoTo, Pos, May, Works, Promised, Persists, Events, Answer, Values
<1>0. /\ at \in Acts /\ step \in Nat /\ call \in Nat /\ calls \in Seq(Tools)
  BY DEF Typed, Sound, Position
<1>1. CASE AfterRestore
  <2>1. Takes(<<"ok">>) /\ at = "restore_memory" /\ last' = <<"ok">>
    BY <1>1, TakesResult DEF AfterRestore, Result
  <2> QED BY <1>1, <2>1 DEF AfterRestore, Advances, After, Goes
<1>2. CASE AfterPersistUser
  <2>1. Takes(<<"ok">>) /\ at = "persist_user" /\ last' = <<"ok">>
    BY <1>2, TakesResult DEF AfterPersistUser, Result
  <2> QED BY <1>2, <2>1 DEF AfterPersistUser, Advances, After, Goes
<1>3. CASE AfterLlm
  <2>1. PICK r \in Replies :
          /\ Result({"llm"}, r)
          /\ IF Called(r) = <<>> THEN GoTo("completion_event")
             ELSE IF Called(r) = r THEN Act(r, 1)
             ELSE at' = "persist_assistant" /\ calls' = Called(r) /\ UNCHANGED <<status, step, call>>
    BY <1>3 DEF AfterLlm
  <2>2. Called(r) \in Seq(Tools)
    BY Constants
  <2>3. status = "running" /\ last' = r /\ at = "llm"
    BY <2>1 DEF Result
  <2>4. CASE Called(r) # <<>> /\ Called(r) = r
    <3>1. Pos' = Calling(Pos, r, 1, r) /\ status' = status
      BY <2>1, <2>2, <2>3, <2>4, ActIsCalling
    <3>2. Pos' = After(Pos, r)
      BY <2>3, <2>4, <3>1 DEF After, AfterReply
    <3> QED BY <2>1, <2>3, <3>1, <3>2, TakesResult DEF Advances
  <2>5. CASE Called(r) = <<>> \/ Called(r) # r
    <3>1. Pos' = After(Pos, r) /\ status' = status
      BY <2>1, <2>3, <2>5 DEF After, AfterReply, Goes
    <3> QED BY <2>1, <2>3, <3>1, TakesResult DEF Advances
  <2> QED BY <2>4, <2>5
<1>4. CASE AfterPersistAssistant
  <2>1. Result({"persist_assistant"}, <<"ok">>) /\ Act(calls, 1)
    BY <1>4 DEF AfterPersistAssistant
  <2>2. at = "persist_assistant" /\ last' = <<"ok">> /\ status = "running"
    BY <2>1 DEF Result
  <2>3. Pos' = Calling(Pos, calls, 1, <<"ok">>) /\ status' = status
    BY <1>0, <2>1, <2>2, ActIsCalling
  <2>4. Pos' = After(Pos, <<"ok">>)
    BY <2>2, <2>3 DEF After
  <2> QED BY <2>1, <2>2, <2>3, <2>4, TakesResult DEF Advances
<1>5. CASE AfterEvent
  <2>1. Result(Events, <<"ok">>) /\ status' = status
    BY <1>5 DEF AfterEvent
  <2>2. Pos' = After(Pos, <<"ok">>) /\ at \in Events /\ status = "running"
    BY <1>5, <2>1 DEF AfterEvent, After, Goes, Result
  <2>3. Takes(<<"ok">>)
    BY <2>1, <2>2, TakesResult
  <2> QED BY <2>2, <2>3 DEF Advances
<1>6. CASE AfterHuman
  <2>1. PICK v \in Answer : Result({"human"}, v) /\ GoTo("persist_human")
    BY <1>6 DEF AfterHuman
  <2>2. Pos' = After(Pos, v) /\ at = "human" /\ status = "running"
    BY <2>1 DEF After, Goes, Result
  <2>3. Takes(v)
    BY <2>1, <2>2, TakesResult
  <2> QED BY <2>2, <2>3 DEF Advances
<1>7. CASE AfterApproval
  <2>1. PICK v \in Answer : /\ Result({"approval"}, v)
                            /\ GoTo(IF v = <<"deny">> THEN "persist_deny" ELSE "tool")
    BY <1>7 DEF AfterApproval
  <2>2. Pos' = After(Pos, v) /\ at = "approval" /\ status = "running"
    BY <2>1 DEF After, Goes, Result
  <2>3. Takes(v)
    BY <2>1, <2>2, TakesResult
  <2> QED BY <2>2, <2>3 DEF Advances
<1>8. CASE AfterTool
  <2>1. PICK v \in {<<"ok">>, <<"error">>} : Result({"tool"}, v) /\ GoTo("persist_tool")
    BY <1>8 DEF AfterTool
  <2>2. Pos' = After(Pos, v) /\ at = "tool" /\ status = "running"
    BY <2>1 DEF After, Goes, Result
  <2>3. Takes(v)
    BY <2>1, <2>2, TakesResult
  <2> QED BY <2>2, <2>3 DEF Advances
<1>9. CASE AfterPersist
  <2>1. /\ Result({"persist_human", "persist_deny", "persist_tool"}, <<"ok">>)
        /\ Act(calls, call + 1)
    BY <1>9 DEF AfterPersist
  <2>2. /\ at \in {"persist_human", "persist_deny", "persist_tool"}
        /\ last' = <<"ok">> /\ status = "running"
    BY <2>1 DEF Result
  <2>3. Pos' = Calling(Pos, calls, call + 1, <<"ok">>) /\ status' = status
    <3>1. call + 1 \in Nat /\ call + 1 >= 1
      BY <1>0
    <3> QED BY <1>0, <2>1, <2>2, <3>1, ActIsCalling
  <2>4. Pos' = After(Pos, <<"ok">>)
    BY <2>2, <2>3 DEF After
  <2> QED BY <2>1, <2>2, <2>3, <2>4, TakesResult DEF Advances
<1>10. CASE AfterCompletion
  <2>1. Result({"completion_event"}, <<"ok">>) /\ End
    BY <1>10 DEF AfterCompletion
  <2>2. Pos' = After(Pos, <<"ok">>) /\ at = "completion_event" /\ status' = "done"
    BY <2>1 DEF End, After, Goes, Result
  <2>3. Takes(<<"ok">>)
    BY <2>1, <2>2, TakesResult
  <2> QED BY <2>2, <2>3 DEF Advances
<1>11. CASE AfterAdapter
  <2>1. PICK v \in {<<"ok">>, <<"error">>} :
          /\ Result({"adapter"}, v)
          /\ IF v = <<"error">> \/ step + 1 = PipelineSteps THEN End
             ELSE at' = "adapter" /\ step' = step + 1 /\ UNCHANGED <<status, call, calls>>
    BY <1>11 DEF AfterAdapter
  <2>2. Pos' = After(Pos, v) /\ at = "adapter" /\ status' \in {"running", "done"}
    BY <2>1 DEF End, After, AfterStep, Goes, Result
  <2>3. Takes(v)
    BY <2>1, <2>2, TakesResult
  <2> QED BY <2>2, <2>3 DEF Advances
<1>12. CASE AfterChain
  <2>1. PICK v \in {<<"ok">>, <<"error">>} : Result({"chain"}, v) /\ End
    BY <1>12 DEF AfterChain
  <2>2. Pos' = After(Pos, v) /\ at = "chain" /\ status' = "done"
    BY <2>1 DEF End, After, Goes, Result
  <2>3. Takes(v)
    BY <2>1, <2>2, TakesResult
  <2> QED BY <2>2, <2>3 DEF Advances
<1> QED
  BY <1>1, <1>2, <1>3, <1>4, <1>5, <1>6, <1>7, <1>8, <1>9, <1>10, <1>11, <1>12 DEF Program

-----------------------------------------------------------------------------
(* What the other actions do.                                              *)

\* An activity has performed the step that is not in the journal.
Performs(v) ==
    /\ alive /\ taken = Size /\ outcome = {} /\ outcome' = {v}
    /\ May(Pos, v) /\ at \notin Promised \cup {"end"}
    /\ UNCHANGED <<kind, streaming, status, journal, alive, at, step, call, calls, last,
                   taken, promises, crashes>>
    /\ asked \subseteq asked'
    /\ \/ at \in Persists /\ memory' = Append(memory, MsgOf(Pos)) /\ ran' = ran
       \/ at \in Works /\ ran' = Append(ran, CmdOf(Pos)) /\ memory' = memory
       \/ at \notin Persists \cup Works /\ memory' = memory /\ ran' = ran

\* An activity performs the step the program is at.
LEMMA ActivityPerforms == Activity => \E v \in Values : Performs(v)
<1> SUFFICES ASSUME Activity PROVE \E v \in Values : Performs(v)
  OBVIOUS
<1> USE DEF NotJournalled, Returns, Pos, May, Works, Promised, Persists, Events, Values, Performs
<1>1. CASE RestoreMemory \/ PublishCompletion
  <2>1. Performs(<<"ok">>)
    BY <1>1 DEF RestoreMemory, PublishCompletion
  <2> QED BY <2>1
<1>2. CASE LlmCall
  BY <1>2 DEF LlmCall
<1>3. CASE PersistMessage \/ PersistToolResult
  <2>1. Performs(<<"ok">>)
    BY <1>3 DEF PersistMessage, PersistToolResult, Persisting, Message, MsgOf, CmdOf
  <2> QED BY <2>1
<1>4. CASE PublishEvent
  <2>1. Performs(<<"ok">>)
    BY <1>4 DEF PublishEvent
  <2> QED BY <2>1
<1>5. CASE ToolExec \/ AdapterStep \/ CodeChain
  <2>1. PICK act \in {"tool", "adapter", "chain"} : NotJournalled /\ Working(act)
    BY <1>5 DEF ToolExec, AdapterStep, CodeChain
  <2>2. PICK v \in {<<"ok">>, <<"error">>} : Returns(v)
    BY <2>1 DEF Working
  <2>3. Performs(v)
    BY <2>1, <2>2 DEF Working, CmdOf
  <2> QED BY <2>2, <2>3
<1> QED BY <1>1, <1>2, <1>3, <1>4, <1>5 DEF Activity

\* Restate and the people leave the world alone.
Elsewhere == Start \/ Attempt \/ Crash \/ Suspend \/ Cancel \/ Abandon \/ Person

\* The four kinds of step.
LEMMA Moves ==
    ASSUME Typed, [Next]_vars
    PROVE  \/ \E v \in Values : Advances(v)
           \/ \E v \in Values : Performs(v)
           \/ Elsewhere
           \/ UNCHANGED vars
  BY ProgramAdvances, ActivityPerforms DEF Next, Elsewhere

\* The start of a program.
LEMMA TopIsSound ==
    kind \in Kinds => /\ Sound(Top) /\ Top.at # "end" /\ Top.last = <<"ok">>
                      /\ Top.at \in {"restore_memory", "adapter", "chain"}
<1> SUFFICES ASSUME kind \in Kinds
             PROVE  /\ Sound(Top) /\ Top.at # "end" /\ Top.last = <<"ok">>
                    /\ Top.at \in {"restore_memory", "adapter", "chain"}
  OBVIOUS
<1>1. First \in {"restore_memory", "adapter", "chain"}
  BY RestateAssumption DEF First
<1>2. <<>> \in Seq(Tools)
  BY EmptySeq
<1>3. /\ Top \in Position /\ Top.at \in {"restore_memory", "adapter", "chain"}
      /\ Top.step = 0 /\ Top.call = 0 /\ Top.last = <<"ok">>
  BY <1>1, <1>2 DEF Top, Position, Acts, Works, Values
<1>4. Sound(Top)
  BY <1>3, Constants DEF Sound, InCall
<1> QED BY <1>3, <1>4

\* Every step keeps the types.
LEMMA TypedStep == Typed /\ [Next]_vars => Typed'
<1> SUFFICES ASSUME Typed, [Next]_vars PROVE Typed'
  OBVIOUS
<1>0. /\ Pos \in Position /\ journal \in Seq([cmd : Cmds, value : Values])
      /\ Len(journal) \in Nat /\ taken \in Nat /\ taken <= Size
  BY LenProperties DEF Typed, Sound
<1>1. /\ CmdOf(Pos) \in Cmds /\ MsgOf(Pos) \in [cmd : Cmds, said : Values]
      /\ CmdOf(Pos) = Cmd /\ CmdOf(Pos)[1] = at /\ MsgOf(Pos).cmd[1] = at
  BY <1>0 DEF CmdOf, MsgOf, Cmds, Position, Pos
<1>2. ASSUME NEW v \in Values, Advances(v) PROVE Typed'
  <2>1. Sound(Pos')
    BY <1>2, AfterIsSound DEF Typed, Advances, Pos
  <2>2. journal' \in Seq([cmd : Cmds, value : Values]) /\ taken' \in 0..Size'
    <3>1. CASE taken < Size /\ journal' = journal
      BY <1>0, <1>2, <3>1 DEF Advances, Takes, Typed
    <3>2. CASE taken = Size /\ journal' = Append(journal, [cmd |-> Cmd, value |-> v])
      <4>1. [cmd |-> Cmd, value |-> v] \in [cmd : Cmds, value : Values]
        BY <1>1
      <4>2. /\ journal' \in Seq([cmd : Cmds, value : Values]) /\ Len(journal') = Len(journal) + 1
        BY <1>0, <3>2, <4>1, AppendProperties
      <4>3. taken' = taken + 1
        BY <1>2 DEF Advances, Takes
      <4> QED BY <1>0, <3>2, <4>2, <4>3
    <3> QED BY <1>2, <3>1, <3>2 DEF Advances, Takes
  <2> QED BY <1>2, <2>1, <2>2 DEF Advances, Takes, Typed, Pos
<1>3. ASSUME NEW v \in Values, Performs(v) PROVE Typed'
  <2>1. /\ memory' \in Seq([cmd : Cmds, said : Values])
        /\ \A i \in 1..Len(memory') : memory'[i].cmd[1] \in Persists
    <3>1. CASE memory' = memory
      BY <3>1 DEF Typed
    <3>2. CASE at \in Persists /\ memory' = Append(memory, MsgOf(Pos))
      <4>1. /\ memory' \in Seq([cmd : Cmds, said : Values]) /\ Len(memory') = Len(memory) + 1
            /\ \A i \in 1..Len(memory) : memory'[i] = memory[i]
            /\ memory'[Len(memory) + 1] = MsgOf(Pos) /\ Len(memory) \in Nat
        BY <1>1, <3>2, AppendProperties, LenProperties DEF Typed
      <4>2. ASSUME NEW i \in 1..Len(memory') PROVE memory'[i].cmd[1] \in Persists
        <5>1. i \in 1..Len(memory) \/ i = Len(memory) + 1
          BY <4>1
        <5> QED BY <1>1, <3>2, <4>1, <5>1 DEF Typed
      <4> QED BY <4>1, <4>2
    <3> QED BY <1>3, <3>1, <3>2 DEF Performs
  <2>2. /\ ran' \in Seq(Cmds)
        /\ \A i \in 1..Len(ran') : ran'[i][1] \in Works
    <3>1. CASE ran' = ran
      BY <3>1 DEF Typed
    <3>2. CASE at \in Works /\ ran' = Append(ran, CmdOf(Pos))
      <4>1. /\ ran' \in Seq(Cmds) /\ Len(ran') = Len(ran) + 1
            /\ \A i \in 1..Len(ran) : ran'[i] = ran[i]
            /\ ran'[Len(ran) + 1] = CmdOf(Pos) /\ Len(ran) \in Nat
        BY <1>1, <3>2, AppendProperties, LenProperties DEF Typed
      <4>2. ASSUME NEW i \in 1..Len(ran') PROVE ran'[i][1] \in Works
        <5>1. i \in 1..Len(ran) \/ i = Len(ran) + 1
          BY <4>1
        <5> QED BY <1>1, <3>2, <4>1, <5>1 DEF Typed
      <4> QED BY <4>1, <4>2
    <3> QED BY <1>3, <3>1, <3>2 DEF Performs
  <2> QED BY <1>3, <2>1, <2>2 DEF Performs, Typed, Pos
<1>4. CASE Attempt
  <2>1. Pos' = Top
    BY <1>4 DEF Attempt, AtTheTop, Pos, Top, First
  <2>2. Sound(Pos')
    BY <2>1, TopIsSound DEF Typed
  <2> QED BY <1>0, <1>4, <2>2 DEF Attempt, AtTheTop, Typed, Pos
<1>5. CASE Start \/ Crash \/ Suspend \/ Cancel \/ Abandon
  <2>1. Pos' = Pos
    BY <1>5 DEF Start, Crash, Suspend, Cancel, Abandon, Pos
  <2>2. Sound(Pos')
    BY <2>1 DEF Typed
  <2>3. crashes' \in 0..MaxCrashes
    BY <1>5, Constants DEF Start, Crash, Suspend, Cancel, Abandon, Typed
  <2>4. /\ UNCHANGED <<kind, streaming, journal, taken, memory, ran, asked, promises>>
        /\ outcome' \in {outcome, {}} /\ alive' \in {alive, FALSE}
        /\ status' \in {status, "running", "cancelled"}
    BY <1>5 DEF Start, Crash, Suspend, Cancel, Abandon
  <2> QED BY <2>2, <2>3, <2>4 DEF Typed
<1>6. ASSUME NEW r \in asked, Resolve(r) PROVE Typed'
  BY <1>6 DEF Resolve, Typed, Pos
<1>7. CASE UNCHANGED vars
  BY <1>7 DEF Typed, Pos
<1> QED BY <1>2, <1>3, <1>4, <1>5, <1>6, <1>7, Moves DEF Elsewhere, Person

\* Every step keeps the outcome that of the last step.
LEMMA OutcomeStep == Typed /\ OutcomeOK /\ [Next]_vars => OutcomeOK'
<1> SUFFICES ASSUME Typed, OutcomeOK, [Next]_vars PROVE OutcomeOK'
  OBVIOUS
<1>1. ASSUME NEW v \in Values, Advances(v) PROVE OutcomeOK'
  BY <1>1 DEF Advances, Takes, OutcomeOK
<1>2. ASSUME NEW v \in Values, Performs(v) PROVE OutcomeOK'
  <2>1. Pos' = Pos
    BY <1>2 DEF Performs, Pos
  <2>2. at \in Persists => \E k \in 1..Len(memory') : memory'[k] = MsgOf(Pos)
    <3> SUFFICES ASSUME at \in Persists PROVE \E k \in 1..Len(memory') : memory'[k] = MsgOf(Pos)
      OBVIOUS
    <3>1. memory' = Append(memory, MsgOf(Pos))
      BY <1>2 DEF Performs, Persists, Works
    <3>2. Len(memory) \in Nat /\ Len(memory') = Len(memory) + 1 /\ memory'[Len(memory) + 1] = MsgOf(Pos)
      BY <3>1, AppendProperties, LenProperties DEF Typed
    <3>3. Len(memory) + 1 \in 1..Len(memory')
      BY <3>2
    <3> QED BY <3>2, <3>3
  <2>3. /\ UNCHANGED <<status, alive, taken, journal, at>> /\ alive /\ taken = Size /\ outcome' = {v}
        /\ May(Pos, v) /\ at \notin Promised \cup {"end"}
    BY <1>2 DEF Performs
  <2>4. taken' = Size'
    BY <2>3
  <2> QED BY <2>1, <2>2, <2>3, <2>4 DEF OutcomeOK
<1>3. CASE Attempt \/ Crash
  BY <1>3 DEF Attempt, AtTheTop, Crash, OutcomeOK
<1>4. CASE Start \/ Suspend \/ Cancel \/ Abandon
  BY <1>4 DEF Start, Suspend, Cancel, Abandon, OutcomeOK, Pos
<1>5. ASSUME NEW r \in asked, Resolve(r) PROVE OutcomeOK'
  BY <1>5 DEF Resolve, OutcomeOK, Pos
<1>6. CASE UNCHANGED vars
  BY <1>6 DEF OutcomeOK, Pos
<1> QED BY <1>1, <1>2, <1>3, <1>4, <1>5, <1>6, Moves DEF Elsewhere, Person

-----------------------------------------------------------------------------
(* The run of the journal.                                                 *)

\* A position of the run has its command and its message to itself.
LEMMA OwnCmd ==
    ASSUME NEW p, Journalled(p), NEW m \in 1..Size+1, NEW n \in 1..Size+1, CmdOf(p[m]) = CmdOf(p[n])
    PROVE  m = n
  <1>1. Size \in Nat
    BY LenProperties DEF Journalled
  <1>2. Sound(p[m]) /\ Sound(p[n])
    BY DEF Journalled
  <1>3. ~(m < n) /\ ~(n < m)
    BY <1>2, Order DEF Journalled
  <1> QED BY <1>1, <1>3

\* An attempt that takes an entry of the journal walks along the run.
LEMMA Replays ==
    ASSUME Typed, OutcomeOK, NEW p, Told(p), NEW v \in Values, Advances(v), taken < Size
    PROVE  Told(p)'
<1>1. /\ journal' = journal /\ journal[taken + 1] = [cmd |-> Cmd, value |-> v]
      /\ taken' = taken + 1 /\ outcome = {} /\ outcome' = {} /\ alive
      /\ Pos' = After(Pos, v)
      /\ UNCHANGED <<kind, streaming, alive, ran, memory, asked, promises, crashes>>
  BY DEF Advances, Takes, OutcomeOK
<1>2. taken \in Nat /\ taken + 1 \in 1..Size /\ Size \in Nat
  BY LenProperties DEF Typed
<1>3. Pos' = p[taken' + 1]
  <2>1. Pos = p[taken + 1]
    BY <1>1 DEF Told, Journalled
  <2>2. p[(taken + 1) + 1] = After(p[taken + 1], journal[taken + 1].value)
    BY <1>2 DEF Told, Journalled
  <2> QED BY <1>1, <2>1, <2>2
<1>4. Top' = Top
  BY <1>1 DEF Top, First
<1>5. Journalled(p)'
  BY <1>1, <1>3, <1>4 DEF Told, Journalled
<1>6. Permitted(p)'
  BY <1>1 DEF Told, Permitted
<1>7. Performed(p)'
  BY <1>1 DEF Told, Performed
<1>8. Counted(p)'
  <2>1. Begun(p)' <=> Begun(p)
    BY <1>1 DEF Begun
  <2> QED BY <1>1, <2>1 DEF Told, Counted
<1> QED BY <1>5, <1>6, <1>7, <1>8 DEF Told

\* A result that is written makes the run one position longer.
LEMMA Writes ==
    ASSUME Typed, OutcomeOK, NEW p, Told(p), NEW v \in Values, Advances(v), taken = Size
    PROVE  \E q : Told(q)'
<1> USE DEF Told
<1>0. Size \in Nat /\ journal \in Seq([cmd : Cmds, value : Values])
  BY LenProperties DEF Typed
<1>1. /\ journal' = Append(journal, [cmd |-> Cmd, value |-> v])
      /\ taken' = Size + 1 /\ outcome' = {} /\ alive
      /\ at # "end" /\ May(Pos, v) /\ Pos' = After(Pos, v)
      /\ UNCHANGED <<kind, streaming, alive, ran, memory, asked, promises, crashes>>
      /\ \/ outcome = {v}
         \/ /\ at \in Promised /\ RequestId(step, call) \in DOMAIN promises
            /\ promises[RequestId(step, call)] = v
  BY <1>0 DEF Advances, Takes
<1>2. /\ Size' = Size + 1
      /\ \A n \in 1..Size : journal'[n] = journal[n]
      /\ journal'[Size + 1] = [cmd |-> Cmd, value |-> v]
  <2>1. [cmd |-> Cmd, value |-> v] \in [cmd : Cmds, value : Values]
    BY DEF Typed, Sound, Position, Pos, Cmds
  <2> QED BY <1>0, <1>1, <2>1, AppendProperties
<1> HIDE DEF Size
<1>3. PICK q : /\ \A n \in 1..Size+1 : q[n] = p[n]
               /\ q[Size + 2] = Pos'
  <2> DEFINE f == [n \in 1..Size+2 |-> IF n = Size + 2 THEN Pos' ELSE p[n]]
  <2>1. \A n \in 1..Size+1 : f[n] = p[n]
    BY <1>0
  <2>2. f[Size + 2] = Pos'
    BY <1>0
  <2> HIDE DEF f
  <2> QED BY <2>1, <2>2
<1>4. Pos = p[Size + 1] /\ Sound(Pos)
  BY <1>1 DEF Journalled, Typed
<1>5. /\ Sound(Pos') /\ Precedes(Pos, Pos')
      /\ Pos'.at \in InCall \cup {"persist_assistant"} =>
            /\ Pos'.step = Pos.step
            /\ \/ Pos.at = "llm" /\ Pos'.calls = Called(v)
               \/ Pos.at \in InCall \cup {"persist_assistant"} /\ Pos'.calls = Pos.calls
      /\ Pos'.at = "tool" /\ Pos'.calls[Pos'.call] = "gated" =>
            Pos.at = "approval" /\ v = <<"approve">> /\ Pos'.call = Pos.call
  <2>1. Pos.at # "end"
    BY <1>1 DEF Pos
  <2> QED BY <1>1, <1>4, <2>1, AfterIsSound
<1>6. \A n \in 1..Size+2 : n \in 1..Size+1 \/ n = Size + 2
  BY <1>0
<1>7. Journalled(q)'
  <2>1. q[1] = Top'
    <3>1. Top' = Top /\ p[1] = Top
      BY <1>1 DEF Top, First, Journalled
    <3>2. 1 \in 1..Size+1
      BY <1>0
    <3> QED BY <1>3, <3>1, <3>2
  <2>2. ASSUME NEW n \in 1..Size+1
        PROVE  /\ q[n].at # "end"
               /\ journal'[n].cmd = CmdOf(q[n])
               /\ May(q[n], journal'[n].value)
               /\ q[n + 1] = After(q[n], journal'[n].value)
    <3>1. CASE n \in 1..Size
      <4>1. n \in 1..Size+1 /\ n + 1 \in 1..Size+1
        BY <1>0, <3>1
      <4> QED BY <1>2, <1>3, <3>1, <4>1 DEF Journalled
    <3>2. CASE n = Size + 1
      <4>1. q[n] = Pos /\ q[n + 1] = Pos'
        <5>1. n + 1 = Size + 2
          BY <1>0, <3>2
        <5> QED BY <1>3, <1>4, <3>2, <5>1
      <4>2. CmdOf(Pos) = Cmd
        BY DEF CmdOf, Pos
      <4>3. journal'[n].cmd = Cmd /\ journal'[n].value = v
        BY <1>2, <3>2
      <4>4. Pos.at # "end" /\ May(Pos, v) /\ Pos' = After(Pos, v)
        BY <1>1 DEF Pos
      <4> QED BY <4>1, <4>2, <4>3, <4>4
    <3> QED BY <1>0, <3>1, <3>2
  <2>3. ASSUME NEW n \in 1..Size+2 PROVE Sound(q[n])
    BY <1>3, <1>5, <1>6 DEF Journalled
  <2>4. ASSUME NEW m \in 1..Size+2, NEW n \in 1..Size+2, m < n
        PROVE  Precedes(q[m], q[n])
    <3>1. m \in 1..Size+1 /\ q[m] = p[m]
      BY <1>0, <1>3, <2>4
    <3>2. CASE n \in 1..Size+1
      BY <1>3, <2>4, <3>1, <3>2 DEF Journalled
    <3>3. CASE n = Size + 2
      <4>1. CASE m = Size + 1
        BY <1>3, <1>4, <1>5, <3>1, <3>3, <4>1
      <4>2. CASE m < Size + 1
        <5>1. Size + 1 \in 1..Size+1
          BY <1>0
        <5>2. Precedes(p[m], Pos) /\ Sound(p[m])
          BY <1>4, <3>1, <4>2, <5>1 DEF Journalled
        <5>3. Precedes(p[m], Pos')
          BY <1>4, <1>5, <5>2, Order
        <5> QED BY <1>3, <3>1, <3>3, <5>3
      <4> QED BY <1>0, <3>1, <4>1, <4>2
    <3> QED BY <1>6, <3>2, <3>3
  <2>5. Pos' = q[taken' + 1]
    <3>1. taken' + 1 = Size + 2
      BY <1>0, <1>1
    <3> QED BY <1>3, <3>1
  <2>6. Size' + 1 = Size + 2
    BY <1>0, <1>2
  <2> QED BY <1>2, <2>1, <2>2, <2>3, <2>4, <2>5, <2>6 DEF Journalled
<1>8. Permitted(q)'
  <2>1. ASSUME NEW n \in 1..Size+1, q[n].at = "approval"
        PROVE  /\ RequestId(q[n].step, q[n].call) \in DOMAIN promises
               /\ promises[RequestId(q[n].step, q[n].call)] = journal'[n].value
    <3>1. CASE n \in 1..Size
      <4>1. q[n] = p[n] /\ journal'[n] = journal[n]
        BY <1>0, <1>2, <1>3, <3>1
      <4> QED BY <2>1, <3>1, <4>1 DEF Permitted
    <3>2. CASE n = Size + 1
      <4>1. q[n] = Pos /\ journal'[n].value = v
        BY <1>2, <1>3, <1>4, <3>2
      <4>2. at = "approval"
        BY <2>1, <4>1 DEF Pos
      <4>3. outcome = {}
        BY <1>1, <4>2 DEF OutcomeOK, Promised
      <4>4. RequestId(q[n].step, q[n].call) = RequestId(step, call)
        BY <4>1 DEF Pos
      <4>5. RequestId(step, call) \in DOMAIN promises /\ promises[RequestId(step, call)] = v
        BY <1>1, <4>3
      <4> QED BY <4>1, <4>4, <4>5
    <3> QED BY <1>0, <3>1, <3>2
  <2>2. ASSUME NEW n \in 1..Size+2, q[n].at \in InCall \cup {"persist_assistant"}
        PROVE  \E m \in 1..Size+1 : /\ journal'[m].cmd = <<"llm", q[n].step, 0>>
                                    /\ Called(journal'[m].value) = q[n].calls
    <3>1. ASSUME NEW k \in 1..Size+1, p[k].at \in InCall \cup {"persist_assistant"}
          PROVE  \E m \in 1..Size+1 : /\ journal'[m].cmd = <<"llm", p[k].step, 0>>
                                      /\ Called(journal'[m].value) = p[k].calls
      <4>1. PICK m \in 1..Size : /\ journal[m].cmd = <<"llm", p[k].step, 0>>
                                 /\ Called(journal[m].value) = p[k].calls
        BY <3>1 DEF Permitted
      <4>2. m \in 1..Size+1 /\ journal'[m] = journal[m]
        BY <1>0, <1>2
      <4> QED BY <4>1, <4>2
    <3>2. CASE n \in 1..Size+1
      BY <1>3, <2>2, <3>1, <3>2
    <3>3. CASE n = Size + 2 /\ Pos.at # "llm"
      <4>1. /\ Pos.at \in InCall \cup {"persist_assistant"}
            /\ q[n].step = Pos.step /\ q[n].calls = Pos.calls
        BY <1>3, <1>5, <2>2, <3>3
      <4>2. Size + 1 \in 1..Size+1
        BY <1>0
      <4> QED BY <1>4, <3>1, <4>1, <4>2
    <3>4. CASE n = Size + 2 /\ Pos.at = "llm"
      <4>1. q[n].step = step /\ q[n].calls = Called(v)
        <5>1. q[n].step = Pos.step /\ q[n].calls = Called(v)
          BY <1>3, <1>5, <2>2, <3>4 DEF InCall
        <5> QED BY <5>1 DEF Pos
      <4>2. at = "llm" /\ call = 0
        BY <1>4, <3>4 DEF Pos, Sound, InCall
      <4>3. Size + 1 \in 1..Size+1
        BY <1>0
      <4>4. journal'[Size + 1].cmd = <<"llm", step, 0>> /\ journal'[Size + 1].value = v
        BY <1>2, <4>2
      <4> QED BY <4>1, <4>3, <4>4
    <3> QED BY <1>6, <3>2, <3>3, <3>4
  <2>3. ASSUME NEW n \in 1..Size+2, q[n].at = "tool", q[n].calls[q[n].call] = "gated"
        PROVE  /\ RequestId(q[n].step, q[n].call) \in DOMAIN promises
               /\ promises[RequestId(q[n].step, q[n].call)] = <<"approve">>
    <3>1. CASE n \in 1..Size+1
      BY <1>3, <2>3, <3>1 DEF Permitted
    <3>2. CASE n = Size + 2
      <4>1. /\ Pos.at = "approval" /\ v = <<"approve">>
            /\ q[n].call = Pos.call /\ q[n].step = Pos.step
        BY <1>3, <1>5, <2>3, <3>2 DEF InCall
      <4>2. at = "approval" /\ q[n].call = call /\ q[n].step = step
        BY <4>1 DEF Pos
      <4>3. outcome = {}
        BY <1>1, <4>2 DEF OutcomeOK, Promised
      <4> QED BY <1>1, <4>1, <4>2, <4>3
    <3> QED BY <1>6, <3>1, <3>2
  <2>4. Size' + 1 = Size + 2
    BY <1>0, <1>2
  <2> QED BY <1>1, <1>2, <2>1, <2>2, <2>3, <2>4 DEF Permitted, RequestId
\* The new position is none of those that were performed.
<1>9. \A n \in 1..Size+1 : CmdOf(Pos') # CmdOf(p[n])
  <2> SUFFICES ASSUME NEW n \in 1..Size+1 PROVE CmdOf(Pos') # CmdOf(p[n])
    OBVIOUS
  <2>1. n \in 1..Size+2 /\ Size + 2 \in 1..Size+2 /\ n < Size + 2
    BY <1>0
  <2>2. Precedes(q[n], q[Size + 2]) /\ Sound(q[n]) /\ Sound(q[Size + 2])
    <3>1. Size' + 1 = Size + 2
      BY <1>0, <1>2
    <3> QED BY <1>7, <2>1, <3>1 DEF Journalled
  <2>3. CmdOf(q[n]) # CmdOf(q[Size + 2])
    BY <2>2, Order
  <2> QED BY <1>3, <2>3
<1>10. \A k \in 1..Len(memory) : memory[k] # MsgOf(Pos')
  <2> SUFFICES ASSUME NEW k \in 1..Len(memory), memory[k] = MsgOf(Pos') PROVE FALSE
    OBVIOUS
  <2>1. PICK n \in 1..Size+1 : memory[k] = MsgOf(p[n])
    BY DEF Performed
  <2>2. CmdOf(p[n]) = CmdOf(Pos')
    <3>1. MsgOf(p[n]).cmd = MsgOf(Pos').cmd
      BY <2>1
    <3> QED BY <3>1 DEF MsgOf
  <2> QED BY <1>9, <2>2
<1>11. \A k \in 1..Len(ran) : ran[k] # CmdOf(Pos')
  BY <1>9 DEF Performed
<1>12. Performed(q)'
  <2>1. ASSUME NEW k \in 1..Len(ran) PROVE \E n \in 1..Size+2 : ran[k] = CmdOf(q[n])
    <3>1. PICK n \in 1..Size+1 : ran[k] = CmdOf(p[n])
      BY DEF Performed
    <3>2. n \in 1..Size+2 /\ q[n] = p[n]
      BY <1>0, <1>3
    <3> QED BY <3>1, <3>2
  <2>2. ASSUME NEW k \in 1..Len(memory) PROVE \E n \in 1..Size+2 : memory[k] = MsgOf(q[n])
    <3>1. PICK n \in 1..Size+1 : memory[k] = MsgOf(p[n])
      BY DEF Performed
    <3>2. n \in 1..Size+2 /\ q[n] = p[n]
      BY <1>0, <1>3
    <3> QED BY <3>1, <3>2
  <2>3. ASSUME NEW k \in 1..Len(memory), NEW l \in 1..Len(memory),
               NEW m \in 1..Size+2, NEW n \in 1..Size+2,
               k <= l, memory[k] = MsgOf(q[m]), memory[l] = MsgOf(q[n])
        PROVE  m <= n
    <3>1. m # Size + 2 /\ n # Size + 2
      BY <1>3, <1>10, <2>3
    <3>2. m \in 1..Size+1 /\ n \in 1..Size+1
      BY <1>6, <3>1
    <3> QED BY <1>3, <2>3, <3>2 DEF Performed
  <2>4. ASSUME NEW n \in 1..Size+1, q[n].at \in Persists
        PROVE  \E k \in 1..Len(memory) : memory[k] = MsgOf(q[n])
    <3>1. CASE n \in 1..Size
      <4>1. q[n] = p[n]
        BY <1>0, <1>3, <3>1
      <4> QED BY <2>4, <3>1, <4>1 DEF Performed
    <3>2. CASE n = Size + 1
      <4>1. q[n] = Pos
        BY <1>3, <1>4, <3>2
      <4>2. at \in Persists
        BY <2>4, <4>1 DEF Pos
      <4>3. outcome # {}
        BY <1>1, <4>2 DEF Persists, Promised
      <4> QED BY <1>1, <4>1, <4>2, <4>3 DEF OutcomeOK
    <3> QED BY <1>0, <3>1, <3>2
  <2>5. Size' + 1 = Size + 2
    BY <1>0, <1>2
  <2>6. Size' = Size + 1 /\ ran' = ran /\ memory' = memory
    BY <1>1, <1>2
  <2> QED BY <2>1, <2>2, <2>3, <2>4, <2>5, <2>6 DEF Performed
<1>13. Counted(q)'
  <2>1. Size' + 1 = Size + 2 /\ q[Size + 2] = Pos'
    BY <1>0, <1>2, <1>3
  <2>2. CmdOf(q[Size + 2]) \notin Distinct(ran) /\ MsgOf(q[Size + 2]) \notin Distinct(memory)
    BY <1>10, <1>11, <2>1 DEF Distinct
  <2>3. ~Begun(q)'
    BY <1>1, <2>1, <2>2 DEF Begun, Distinct
  <2> QED BY <1>1, <2>3 DEF Counted, Excess, Distinct
<1> QED BY <1>7, <1>8, <1>12, <1>13

\* A sequence has finitely many elements.
LEMMA ExcessIsInt ==
    ASSUME NEW S, NEW s \in Seq(S)
    PROVE  /\ Excess(s) \in Int
           /\ IsFiniteSet(Distinct(s)) /\ Cardinality(Distinct(s)) \in Nat
<1>1. Len(s) \in Nat
  BY LenProperties
<1> DEFINE f == [i \in 1..Len(s) |-> s[i]]
<1>2. f \in Surjection(1..Len(s), Distinct(s))
  BY DEF Surjection, Distinct
<1>3. IsFiniteSet(1..Len(s))
  BY <1>1, FS_Interval
<1> HIDE DEF f
<1>4. IsFiniteSet(Distinct(s))
  BY <1>2, <1>3, FS_Surjection
<1>5. Cardinality(Distinct(s)) \in Nat
  BY <1>4, FS_CardinalityType
<1> QED BY <1>1, <1>4, <1>5 DEF Excess

\* An element that is appended is one too many, or is new.
LEMMA ExcessGrows ==
    ASSUME NEW S, NEW s \in Seq(S), NEW e \in S
    PROVE  /\ Excess(s) \in Int
           /\ Excess(Append(s, e)) = IF e \in Distinct(s) THEN Excess(s) + 1 ELSE Excess(s)
           /\ Distinct(Append(s, e)) = Distinct(s) \cup {e}
<1>1. Len(s) \in Nat
  BY LenProperties
<1>2. /\ Len(Append(s, e)) = Len(s) + 1
      /\ \A i \in 1..Len(s) : Append(s, e)[i] = s[i]
      /\ Append(s, e)[Len(s) + 1] = e
  BY AppendProperties
<1>3. Excess(s) \in Int /\ IsFiniteSet(Distinct(s)) /\ Cardinality(Distinct(s)) \in Nat
  BY ExcessIsInt
<1>4. Distinct(Append(s, e)) = Distinct(s) \cup {e}
  <2>1. ASSUME NEW x \in Distinct(Append(s, e)) PROVE x \in Distinct(s) \cup {e}
    <3>1. PICK i \in 1..Len(Append(s, e)) : x = Append(s, e)[i]
      BY <2>1 DEF Distinct
    <3>2. i \in 1..Len(s) \/ i = Len(s) + 1
      BY <1>1, <1>2
    <3> QED BY <1>2, <3>1, <3>2 DEF Distinct
  <2>2. ASSUME NEW i \in 1..Len(s) PROVE s[i] \in Distinct(Append(s, e))
    <3>1. i \in 1..Len(Append(s, e)) /\ s[i] = Append(s, e)[i]
      BY <1>1, <1>2
    <3> QED BY <3>1 DEF Distinct
  <2>3. e \in Distinct(Append(s, e))
    <3>1. Len(s) + 1 \in 1..Len(Append(s, e))
      BY <1>1, <1>2
    <3> QED BY <1>2, <3>1 DEF Distinct
  <2>4. \A x \in Distinct(s) : x \in Distinct(Append(s, e))
    BY <2>2 DEF Distinct
  <2> QED BY <2>1, <2>3, <2>4
<1>5. Cardinality(Distinct(s) \cup {e}) =
        IF e \in Distinct(s) THEN Cardinality(Distinct(s)) ELSE Cardinality(Distinct(s)) + 1
  BY <1>3, FS_AddElement
<1> QED BY <1>1, <1>2, <1>3, <1>4, <1>5 DEF Excess

\* A step that is performed is the one the journal leaves open.
LEMMA Performing ==
    ASSUME Typed, OutcomeOK, NEW p, Told(p), NEW v \in Values, Performs(v)
    PROVE  Told(p)'
<1> USE DEF Told
<1>0. Size \in Nat /\ Len(memory) \in Nat /\ Len(ran) \in Nat
  BY LenProperties DEF Typed
<1>1. /\ alive /\ taken = Size /\ outcome = {} /\ outcome' # {}
      /\ UNCHANGED <<kind, journal, alive, at, step, call, calls, last, taken, promises, crashes>>
      /\ Pos' = Pos /\ Size' = Size
  BY DEF Performs, Pos
<1>2. Pos = p[Size + 1] /\ Size + 1 \in 1..Size+1
  BY <1>0, <1>1 DEF Journalled
<1>3. \/ ran' = ran /\ memory' = memory
      \/ ran' = Append(ran, CmdOf(Pos)) /\ memory' = memory
      \/ ran' = ran /\ memory' = Append(memory, MsgOf(Pos))
  BY DEF Performs
<1>4. CmdOf(Pos) \in Cmds /\ MsgOf(Pos) \in [cmd : Cmds, said : Values]
  BY DEF Typed, Sound, Position, CmdOf, MsgOf, Cmds
<1> HIDE DEF Size
<1>5. Journalled(p)'
  <2>1. Top' = Top
    BY <1>1 DEF Top, First
  <2> QED BY <1>1, <2>1 DEF Journalled
<1>6. Permitted(p)'
  BY <1>1 DEF Permitted
<1>7. Performed(p)'
  <2>1. \A k \in 1..Len(ran') : \E n \in 1..Size+1 : ran'[k] = CmdOf(p[n])
    <3>1. CASE ran' = ran
      BY <3>1 DEF Performed
    <3>2. CASE ran' = Append(ran, CmdOf(Pos))
      <4>1. /\ Len(ran') = Len(ran) + 1 /\ ran'[Len(ran) + 1] = CmdOf(Pos)
            /\ \A k \in 1..Len(ran) : ran'[k] = ran[k]
        BY <1>4, <3>2, AppendProperties DEF Typed
      <4>2. \A k \in 1..Len(ran') : k \in 1..Len(ran) \/ k = Len(ran) + 1
        BY <1>0, <4>1
      <4> QED BY <1>2, <4>1, <4>2 DEF Performed
    <3> QED BY <1>3, <3>1, <3>2
  <2>2. /\ \A k \in 1..Len(memory') : \E n \in 1..Size+1 : memory'[k] = MsgOf(p[n])
        /\ \A k, l \in 1..Len(memory') : \A m, n \in 1..Size+1 :
              k <= l /\ memory'[k] = MsgOf(p[m]) /\ memory'[l] = MsgOf(p[n]) => m <= n
        /\ \A n \in 1..Size : p[n].at \in Persists =>
              \E k \in 1..Len(memory') : memory'[k] = MsgOf(p[n])
    <3>1. CASE memory' = memory
      BY <3>1 DEF Performed
    <3>2. CASE memory' = Append(memory, MsgOf(Pos))
      <4>1. /\ Len(memory') = Len(memory) + 1 /\ memory'[Len(memory) + 1] = MsgOf(Pos)
            /\ \A k \in 1..Len(memory) : memory'[k] = memory[k]
        BY <1>4, <3>2, AppendProperties DEF Typed
      <4>2. \A k \in 1..Len(memory') : k \in 1..Len(memory) \/ k = Len(memory) + 1
        BY <1>0, <4>1
      <4>3. \A k \in 1..Len(memory') : \E n \in 1..Size+1 : memory'[k] = MsgOf(p[n])
        BY <1>2, <4>1, <4>2 DEF Performed
      <4>4. ASSUME NEW k \in 1..Len(memory'), NEW l \in 1..Len(memory'),
                   NEW m \in 1..Size+1, NEW n \in 1..Size+1,
                   k <= l, memory'[k] = MsgOf(p[m]), memory'[l] = MsgOf(p[n])
            PROVE  m <= n
        <5>1. CASE l \in 1..Len(memory)
          <6>1. k \in 1..Len(memory)
            BY <1>0, <4>4, <5>1
          <6> QED BY <4>1, <4>4, <5>1, <6>1 DEF Performed
        <5>2. CASE l = Len(memory) + 1
          <6>1. MsgOf(p[n]) = MsgOf(p[Size + 1])
            BY <1>2, <4>1, <4>4, <5>2
          <6>2. CmdOf(p[n]) = CmdOf(p[Size + 1])
            <7>1. MsgOf(p[n]).cmd = MsgOf(p[Size + 1]).cmd
              BY <6>1
            <7> QED BY <7>1 DEF MsgOf
          <6>3. n = Size + 1
            BY <1>2, <6>2, OwnCmd
          <6> QED BY <1>0, <6>3
        <5> QED BY <4>2, <5>1, <5>2
      <4>5. \A n \in 1..Size : p[n].at \in Persists =>
              \E k \in 1..Len(memory') : memory'[k] = MsgOf(p[n])
        <5> SUFFICES ASSUME NEW n \in 1..Size, p[n].at \in Persists
                     PROVE  \E k \in 1..Len(memory') : memory'[k] = MsgOf(p[n])
          OBVIOUS
        <5>1. PICK k \in 1..Len(memory) : memory[k] = MsgOf(p[n])
          BY DEF Performed
        <5>2. k \in 1..Len(memory') /\ memory'[k] = memory[k]
          BY <1>0, <4>1
        <5> QED BY <5>1, <5>2
      <4> QED BY <4>3, <4>4, <4>5
    <3> QED BY <1>3, <3>1, <3>2
  <2> QED BY <1>1, <2>1, <2>2 DEF Performed
<1>8. Counted(p)'
  <2> DEFINE e == Excess(ran) + Excess(memory)
             f == Excess(ran') + Excess(memory')
  <2>1. Excess(ran) \in Int /\ Excess(memory) \in Int
    BY ExcessIsInt DEF Typed
  <2>2. f = e \/ (f = e + 1 /\ Begun(p))
    <3>1. CASE ran' = ran /\ memory' = memory
      BY <3>1
    <3>2. CASE ran' = Append(ran, CmdOf(Pos)) /\ memory' = memory
      <4>1. Excess(ran') = IF CmdOf(Pos) \in Distinct(ran) THEN Excess(ran) + 1 ELSE Excess(ran)
        BY <1>4, <3>2, ExcessGrows DEF Typed
      <4>2. CmdOf(Pos) \in Distinct(ran) => Begun(p)
        BY <1>2 DEF Begun
      <4>3. memory' = memory
        BY <3>2
      <4> QED BY <2>1, <4>1, <4>2, <4>3
    <3>3. CASE ran' = ran /\ memory' = Append(memory, MsgOf(Pos))
      <4>1. Excess(memory') = IF MsgOf(Pos) \in Distinct(memory) THEN Excess(memory) + 1
                                                                ELSE Excess(memory)
        BY <1>4, <3>3, ExcessGrows DEF Typed
      <4>2. MsgOf(Pos) \in Distinct(memory) => Begun(p)
        BY <1>2 DEF Begun
      <4>3. ran' = ran
        BY <3>3
      <4> QED BY <2>1, <4>1, <4>2, <4>3
    <3> QED BY <1>3, <3>1, <3>2, <3>3
  <2>3. e <= crashes /\ (Begun(p) => e + 1 <= crashes)
    BY <1>1 DEF Counted
  <2>4. f <= crashes /\ crashes' = crashes /\ outcome' # {}
    BY <1>1, <2>2, <2>3
  <2> QED BY <2>4 DEF Counted
<1> QED BY <1>5, <1>6, <1>7, <1>8

\* Attempts come and go, people answer, and the run stays the same.
LEMMA Waits ==
    ASSUME Typed, OutcomeOK, NEW p, Told(p), Elsewhere \/ UNCHANGED vars
    PROVE  Told(p)'
<1> USE DEF Told
<1>0. Size \in Nat /\ Size' = Size /\ Top' = Top /\ UNCHANGED <<kind, journal, ran, memory, asked>>
  <2>1. UNCHANGED <<kind, journal, ran, memory, asked>>
    BY DEF Elsewhere, Start, Attempt, Crash, Suspend, Cancel, Abandon, Person, Resolve
  <2> QED BY <2>1, LenProperties DEF Typed, Top, First
<1> HIDE DEF Size
<1>1. Journalled(p)'
  <2>1. alive' => Pos' = p[taken' + 1]
    <3>1. CASE Attempt
      <4>1. Pos' = Top /\ taken' = 0
        BY <3>1 DEF Attempt, AtTheTop, Pos, Top
      <4> QED BY <4>1 DEF Journalled
    <3>2. CASE ~Attempt
      <4>1. alive' => alive /\ taken' = taken /\ Pos' = Pos
        BY <3>2 DEF Elsewhere, Start, Crash, Suspend, Cancel, Abandon, Person, Resolve, Pos
      <4> QED BY <4>1 DEF Journalled
    <3> QED BY <3>1, <3>2
  <2> QED BY <1>0, <2>1 DEF Journalled
<1>2. Permitted(p)'
  <2>1. \A r \in DOMAIN promises : r \in DOMAIN promises' /\ promises'[r] = promises[r]
    <3>1. CASE promises' = promises
      BY <3>1
    <3>2. CASE \E r \in asked : Resolve(r)
      BY <3>2 DEF Resolve
    <3> QED BY <3>1, <3>2 DEF Elsewhere, Start, Attempt, Crash, Suspend, Cancel, Abandon, Person
  <2> QED BY <1>0, <2>1 DEF Permitted
<1>3. Performed(p)'
  BY <1>0 DEF Performed
<1>4. Counted(p)'
  <2>1. Begun(p)' <=> Begun(p)
    BY <1>0 DEF Begun
  <2>2. Excess(ran)' = Excess(ran) /\ Excess(memory)' = Excess(memory)
    BY <1>0 DEF Excess, Distinct
  <2>3. Excess(ran) \in Int /\ Excess(memory) \in Int /\ crashes \in Nat
    BY ExcessIsInt, Constants DEF Typed
  <2>4. CASE Crash
    <3>1. crashes' = crashes + 1
      BY <2>4 DEF Crash
    <3> QED BY <2>2, <2>3, <3>1 DEF Counted
  <2>5. CASE crashes' = crashes /\ (outcome' = outcome \/ Attempt)
    <3>1. outcome' = {} => outcome = {}
      BY <2>5 DEF Attempt, OutcomeOK
    <3> QED BY <2>1, <2>2, <2>5, <3>1 DEF Counted
  <2>6. Crash \/ (crashes' = crashes /\ (outcome' = outcome \/ Attempt))
    BY DEF Elsewhere, Start, Attempt, Suspend, Cancel, Abandon, Person, Resolve
  <2> QED BY <2>4, <2>5, <2>6
<1> QED BY <1>1, <1>2, <1>3, <1>4

-----------------------------------------------------------------------------
(* The invariant, and what follows from it.                                *)

\* The invariant holds at the start.
LEMMA InitIInv == Init => IInv
<1> SUFFICES ASSUME Init PROVE IInv
  OBVIOUS
<1>0. Len(journal) = 0 /\ Len(memory) = 0 /\ Len(ran) = 0 /\ 1..0 = {}
  BY DEF Init
<1>1. Pos = Top
  BY DEF Init, Pos, Top, First
<1>2. Sound(Pos) /\ Sound(Top)
  BY <1>1, TopIsSound DEF Init
<1>3. Typed
  <2>1. /\ journal \in Seq([cmd : Cmds, value : Values])
        /\ memory \in Seq([cmd : Cmds, said : Values]) /\ ran \in Seq(Cmds)
    BY EmptySeq DEF Init
  <2>2. promises \in [DOMAIN promises -> Answer] /\ DOMAIN promises \subseteq asked
    BY DEF Init
  <2>3. taken \in 0..Size /\ crashes \in 0..MaxCrashes
    BY <1>0, Constants DEF Init
  <2> QED BY <1>0, <1>2, <2>1, <2>2, <2>3 DEF Init, Typed
<1>4. OutcomeOK
  BY DEF Init, OutcomeOK
<1>5. \E p : Told(p)
  <2> DEFINE p == [n \in 1..1 |-> Top]
  <2>1. p[1] = Top
    OBVIOUS
  <2> HIDE DEF p
  <2>2. Size = 0 /\ \A n \in 1..Size+1 : n = 1
    BY <1>0
  <2>3. Journalled(p)
    BY <1>0, <1>2, <2>1, <2>2 DEF Journalled, Init
  <2>4. Top.at \in {"restore_memory", "adapter", "chain"}
    BY TopIsSound DEF Init
  <2>5. Permitted(p)
    BY <1>0, <2>1, <2>2, <2>4 DEF Permitted, InCall
  <2>6. Performed(p)
    BY <1>0, <2>2 DEF Performed
  <2>7. Counted(p)
    <3>1. Distinct(ran) = {} /\ Distinct(memory) = {}
      BY <1>0 DEF Distinct
    <3>2. Excess(ran) = 0 /\ Excess(memory) = 0
      BY <1>0, <3>1, FS_EmptySet DEF Excess
    <3> QED BY <3>1, <3>2 DEF Counted, Begun, Init
  <2> QED BY <2>3, <2>5, <2>6, <2>7 DEF Told
<1> QED BY <1>3, <1>4, <1>5 DEF IInv

\* The invariant is inductive.
LEMMA StepIInv == IInv /\ [Next]_vars => IInv'
<1> SUFFICES ASSUME IInv, [Next]_vars PROVE IInv'
  OBVIOUS
<1>1. Typed /\ OutcomeOK
  BY DEF IInv
<1>2. PICK p : Told(p)
  BY DEF IInv
<1>3. Typed' /\ OutcomeOK'
  BY <1>1, TypedStep, OutcomeStep
<1>4. \E q : Told(q)'
  <2>1. ASSUME NEW v \in Values, Advances(v) PROVE \E q : Told(q)'
    <3>1. taken < Size \/ taken = Size
      BY <1>1, LenProperties DEF Typed
    <3> QED BY <1>1, <1>2, <2>1, <3>1, Replays, Writes
  <2>2. ASSUME NEW v \in Values, Performs(v) PROVE \E q : Told(q)'
    BY <1>1, <1>2, <2>2, Performing
  <2>3. CASE Elsewhere \/ UNCHANGED vars
    BY <1>1, <1>2, <2>3, Waits
  <2> QED BY <1>1, <2>1, <2>2, <2>3, Moves
<1> QED BY <1>3, <1>4 DEF IInv

\* What holds in every state of every behaviour.
LEMMA Invariance == Spec => []IInv
  BY InitIInv, StepIInv, PTL DEF Spec

\* The invariant gives the types.
LEMMA TypesFollow == IInv => TypeOK
<1> SUFFICES ASSUME IInv PROVE TypeOK
  OBVIOUS
<1>0. Typed
  BY DEF IInv
<1>1. PICK p : Told(p)
  BY DEF IInv
<1>2. \A i \in 1..Len(journal) : journal[i].cmd[1] \in Acts \ {"end"} /\ journal[i].value \in Values
  <2> SUFFICES ASSUME NEW i \in 1..Len(journal)
               PROVE  journal[i].cmd[1] \in Acts \ {"end"} /\ journal[i].value \in Values
    OBVIOUS
  <2>1. journal[i] \in [cmd : Cmds, value : Values]
    BY <1>0, ElementOfSeq DEF Typed
  <2>2. journal[i].cmd = CmdOf(p[i]) /\ p[i].at # "end"
    BY <1>1 DEF Told, Journalled
  <2> QED BY <2>1, <2>2 DEF Cmds, CmdOf
<1>3. /\ at \in Acts /\ step \in 0..(MaxIterations + PipelineSteps) /\ call \in Nat
      /\ calls \in Seq(Tools) /\ last \in Values
      /\ at \in InCall => call \in 1..Len(calls)
      /\ at \notin InCall => call = 0
  BY <1>0, Constants DEF Typed, Sound, Position, Pos
<1>4. call <= Len(calls) + 1 /\ \A i \in 1..Len(calls) : calls[i] \in Tools
  BY <1>3, LenProperties, ElementOfSeq
<1>5. outcome \subseteq Values /\ Cardinality(outcome) <= 1
  <2>1. CASE outcome = {}
    BY <2>1, FS_EmptySet
  <2>2. ASSUME NEW v \in Values, outcome = {v}
        PROVE  outcome \subseteq Values /\ Cardinality(outcome) <= 1
    <3>1. Cardinality({v}) = 1
      BY FS_Singleton, Zenon
    <3>2. Cardinality(outcome) = 1
      BY <2>2, <3>1, Zenon
    <3> QED BY <2>2, <3>2
  <2> QED BY <1>0, <2>1, <2>2 DEF Typed
<1> QED BY <1>0, <1>2, <1>3, <1>4, <1>5 DEF Typed, TypeOK

\* The message of the n-th step that is persisted, and the place of the step.
LEMMA MemoryFollows == IInv => MemoryFollowsTheJournal
<1> SUFFICES ASSUME IInv PROVE MemoryFollowsTheJournal
  OBVIOUS
<1>1. PICK p : Told(p)
  BY DEF IInv
<1>2. Typed /\ Size \in Nat
  BY LenProperties DEF IInv, Typed
<1> DEFINE Place(cmd) == {i \in 1..Size : journal[i].cmd = cmd}
           Before(i) == IF i = 1 THEN <<"ok">> ELSE journal[i - 1].value
           In(m, i) == journal[i].cmd = m.cmd /\ Before(i) = m.said
<1>3. ASSUME NEW i \in 1..Size PROVE In(MsgOf(p[i]), i)
  <2>1. journal[i].cmd = CmdOf(p[i])
    BY <1>1 DEF Told, Journalled
  <2>2. Before(i) = p[i].last
    <3>1. CASE i = 1
      <4>1. p[1] = Top /\ Top.last = <<"ok">>
        BY <1>1 DEF Told, Journalled, Top
      <4> QED BY <3>1, <4>1
    <3>2. CASE i # 1
      <4> DEFINE h == i - 1
      <4>1. h \in 1..Size /\ h + 1 = i /\ h \in 1..Size+1
        BY <1>2, <3>2
      <4>2. Before(i) = journal[h].value
        BY <3>2
      <4> HIDE DEF h
      <4>3. /\ p[h].at # "end" /\ May(p[h], journal[h].value) /\ Sound(p[h])
            /\ p[h + 1] = After(p[h], journal[h].value)
        BY <1>1, <4>1 DEF Told, Journalled
      <4>4. journal[h].value \in Values
        <5>1. journal[h] \in [cmd : Cmds, value : Values]
          BY <1>2, <4>1, ElementOfSeq DEF Typed
        <5> QED BY <5>1
      <4>5. p[h + 1].last = journal[h].value
        BY <4>3, <4>4, AfterIsSound
      <4> QED BY <4>1, <4>2, <4>5
    <3> QED BY <3>1, <3>2
  <2> QED BY <2>1, <2>2 DEF MsgOf
<1>4. ASSUME NEW i \in 1..Size, journal[i].cmd[1] \in Persists
      PROVE  \E n \in 1..Len(memory) : In(memory[n], i)
  <2>1. p[i].at \in Persists
    BY <1>1, <1>4 DEF Told, Journalled, CmdOf
  <2>2. PICK n \in 1..Len(memory) : memory[n] = MsgOf(p[i])
    BY <1>1, <2>1 DEF Told, Performed
  <2> QED BY <1>3, <2>2
<1>5. ASSUME NEW m \in 1..Len(memory), NEW n \in 1..Len(memory), m < n, memory[m] # memory[n]
      PROVE  \E i \in Place(memory[m].cmd) :
               In(memory[m], i) /\ \A j \in Place(memory[n].cmd) : i < j
  <2>1. PICK a \in 1..Size+1 : memory[m] = MsgOf(p[a])
    BY <1>1 DEF Told, Performed
  <2>2. PICK b \in 1..Size+1 : memory[n] = MsgOf(p[b])
    BY <1>1 DEF Told, Performed
  <2>3. a < b
    <3>1. a <= b
      BY <1>1, <1>5, <2>1, <2>2 DEF Told, Performed
    <3>2. a # b
      BY <1>5, <2>1, <2>2
    <3> QED BY <1>2, <3>1, <3>2
  <2>4. a \in 1..Size
    BY <1>2, <2>3
  <2>5. In(memory[m], a) /\ a \in Place(memory[m].cmd)
    BY <1>3, <2>1, <2>4
  <2>6. ASSUME NEW j \in Place(memory[n].cmd) PROVE a < j
    <3>1. j \in 1..Size+1 /\ CmdOf(p[j]) = CmdOf(p[b])
      <4>1. j \in 1..Size /\ journal[j].cmd = MsgOf(p[b]).cmd
        BY <2>2, <2>6
      <4> QED BY <1>1, <1>2, <4>1 DEF Told, Journalled, MsgOf
    <3>2. j = b
      BY <1>1, <3>1, OwnCmd DEF Told
    <3> QED BY <2>3, <3>2
  <2> QED BY <2>5, <2>6
<1> QED BY <1>4, <1>5 DEF MemoryFollowsTheJournal

-----------------------------------------------------------------------------
\* Every variable has its type; no attempt leaves its program.
THEOREM TypeCorrectness == Spec => []TypeOK
  BY TypesFollow, Invariance, PTL

\* A later attempt of _run_workflow asks for the steps of the journal in their
\* order, a step is repeated only after a lost attempt, and the thread's memory is
\* that of the journal, whatever the LLM replies and however often workers go down.
THEOREM JournalFollowed == Spec => []JournalIsFollowed
<1>1. IInv => JournalIsFollowed
  <2> SUFFICES ASSUME IInv PROVE JournalIsFollowed
    OBVIOUS
  <2>1. PICK p : Told(p)
    BY DEF IInv
  <2>2. ReplayAgrees
    <3> SUFFICES ASSUME alive, taken < Len(journal) PROVE journal[taken + 1].cmd = Cmd
      BY DEF ReplayAgrees
    <3>1. taken + 1 \in 1..Size
      BY LenProperties DEF IInv, Typed
    <3> QED BY <2>1, <3>1 DEF Told, Journalled, CmdOf, Pos
  <2>3. RepeatsNeedCrashes
    BY <2>1 DEF Told, Counted, Excess, Distinct, RepeatsNeedCrashes
  <2> QED BY <2>2, <2>3, TypesFollow, MemoryFollows DEF JournalIsFollowed
<1> QED BY <1>1, Invariance, PTL

\* A tool that requires approval runs only after this very call was approved, by
\* whichever attempt; nothing of a pipeline runs after a step that failed.
THEOREM PermissionGiven == Spec => []PermissionHolds
<1>1. ASSUME IInv PROVE GateIsRespected
  <2>1. PICK p : Told(p)
    BY <1>1 DEF IInv
  <2>2. Size \in Nat
    BY <1>1, LenProperties DEF IInv, Typed
  <2> SUFFICES ASSUME NEW i \in 1..Len(ran), ran[i][1] = "tool", "gated" \in CalledBy(ran[i])
               PROVE  \E r \in DOMAIN promises :
                         r[1] = ran[i][2] /\ r[2] = ran[i][3] /\ promises[r] = <<"approve">>
    BY DEF GateIsRespected
  <2>3. PICK k \in 1..Size+1 : ran[i] = CmdOf(p[k])
    BY <2>1 DEF Told, Performed
  <2>4. p[k].at = "tool" /\ p[k].step = ran[i][2] /\ p[k].call = ran[i][3]
    BY <2>3 DEF CmdOf
  <2>5. PICK n \in 1..Size : /\ journal[n].cmd = <<"llm", ran[i][2], 0>>
                             /\ Called(journal[n].value)[ran[i][3]] = "gated"
    BY DEF CalledBy
  <2>6. PICK m \in 1..Size : /\ journal[m].cmd = <<"llm", p[k].step, 0>>
                             /\ Called(journal[m].value) = p[k].calls
    BY <2>1, <2>4 DEF Told, Permitted, InCall
  <2>7. m = n
    <3>1. journal[m].cmd = CmdOf(p[m]) /\ journal[n].cmd = CmdOf(p[n])
      BY <2>1 DEF Told, Journalled
    <3>2. journal[m].cmd = journal[n].cmd
      BY <2>4, <2>5, <2>6, Zenon
    <3>3. CmdOf(p[m]) = CmdOf(p[n])
      BY <3>1, <3>2, Zenon
    <3>4. m \in 1..Size+1 /\ n \in 1..Size+1
      BY <2>2
    <3> QED BY <2>1, <3>3, <3>4, OwnCmd DEF Told
  <2>8. p[k].calls[p[k].call] = "gated"
    BY <2>4, <2>5, <2>6, <2>7
  <2>9. /\ RequestId(p[k].step, p[k].call) \in DOMAIN promises
        /\ promises[RequestId(p[k].step, p[k].call)] = <<"approve">>
    BY <2>1, <2>4, <2>8 DEF Told, Permitted
  <2> QED BY <2>4, <2>9 DEF RequestId
<1>2. ASSUME IInv PROVE FailureStopsThePipeline
  <2>1. PICK p : Told(p)
    BY <1>2 DEF IInv
  <2>2. Size \in Nat
    BY <1>2, LenProperties DEF IInv, Typed
  <2> SUFFICES ASSUME NEW i \in 1..Size, journal[i].cmd[1] = "adapter",
                      journal[i].value = <<"error">>, NEW k \in 1..Len(ran)
               PROVE  ran[k][2] <= journal[i].cmd[2]
    BY DEF FailureStopsThePipeline
  <2>3. /\ journal[i].cmd = CmdOf(p[i]) /\ p[i].at # "end" /\ May(p[i], <<"error">>)
        /\ p[i + 1] = After(p[i], <<"error">>)
    BY <2>1 DEF Told, Journalled
  <2>4. i \in 1..Size+1 /\ i + 1 \in 1..Size+1
    BY <2>2
  <2>5. Sound(p[i]) /\ p[i].at = "adapter" /\ p[i].step = journal[i].cmd[2] /\ p[i].step \in Nat
    BY <2>1, <2>3, <2>4 DEF Told, Journalled, CmdOf, Sound, Position
  <2>6. p[i + 1].at = "end" /\ p[i + 1].step = p[i].step
    BY <2>3, <2>5, AfterIsSound DEF Values
  <2>7. i = Size
    <3>1. i + 1 \notin 1..Size
      BY <2>1, <2>6 DEF Told, Journalled
    <3> QED BY <2>2, <3>1
  <2>8. PICK n \in 1..Size+1 : ran[k] = CmdOf(p[n])
    BY <2>1 DEF Told, Performed
  <2>9. n = i + 1 \/ n = i \/ n < i
    BY <2>2, <2>7
  <2>10. p[n].step <= p[i].step
    <3>1. CASE n < i
      BY <2>1, <2>4, <2>5, <3>1, Order DEF Told, Journalled
    <3> QED BY <2>5, <2>6, <2>9, <3>1
  <2> QED BY <2>5, <2>8, <2>10 DEF CmdOf
<1>3. IInv => PermissionHolds
  BY <1>1, <1>2 DEF PermissionHolds
<1> QED BY <1>3, Invariance, PTL

\* "Exactly-once semantics around completed activity steps": what has its result in
\* the journal is performed no more, by no attempt.
THEOREM CompletedStaysDone == Spec => CompletedStepsStayDone
<1>1. ASSUME IInv, [Next]_vars
      PROVE  [/\ ran' # ran => Cmd \notin Recorded
              /\ memory' # memory => Cmd \notin Recorded]_vars
  <2> SUFFICES ASSUME ran' # ran \/ memory' # memory PROVE Cmd \notin Recorded
    OBVIOUS
  <2>0. Typed
    BY <1>1 DEF IInv
  <2>1. PICK p : Told(p)
    BY <1>1 DEF IInv
  <2>2. PICK v \in Values : Performs(v)
    BY <1>1, <2>0, Moves DEF Advances, Takes, Elsewhere, Start, Attempt, Crash, Suspend, Cancel,
                             Abandon, Person, Resolve
  <2>3. Size \in Nat
    BY <2>0, LenProperties DEF Typed
  <2>4. Cmd = CmdOf(p[Size + 1])
    BY <2>1, <2>2 DEF Told, Journalled, Performs, CmdOf, Pos
  <2>5. ASSUME NEW i \in 1..Size PROVE journal[i].cmd # Cmd
    <3>1. i \in 1..Size+1 /\ Size + 1 \in 1..Size+1 /\ i # Size + 1
      BY <2>3
    <3>2. CmdOf(p[i]) # CmdOf(p[Size + 1])
      BY <2>1, <3>1, OwnCmd DEF Told
    <3> QED BY <2>1, <2>4, <3>2 DEF Told, Journalled
  <2> QED BY <2>5 DEF Recorded
<1> QED BY <1>1, Invariance, PTL DEF Spec, CompletedStepsStayDone
=============================================================================
