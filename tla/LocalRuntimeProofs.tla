------------------------- MODULE LocalRuntimeProofs -------------------------
(* Theorems about LocalRuntime, for every value of its constants.          *)
EXTENDS LocalRuntime, FiniteSetTheorems, TLAPS

\* _ensure_agent keeps the types of the tables it writes, and the mailboxes it
\* hands out are among those that were ever created.
LEMMA EnsureAgentsType ==
    ASSUME TypeOK, NEW As \in SUBSET AgentIds, EnsureAgents(As)
    PROVE  /\ made' \in 0..MaxBoxes
           /\ started' \subseteq AgentIds
           /\ boxOf' \in [AgentIds -> 0..MaxBoxes]
           /\ loop' \in [Boxes -> LoopStates]
  <1> DEFINE new == As \ started
             n   == Cardinality(new)
  <1>1. n \in Nat
    <2>1. IsFiniteSet(new)
      BY RuntimeAssumption, FS_Subset
    <2> QED BY <2>1, FS_CardinalityType
  <1>2. PICK f \in [new -> (made + 1)..(made + n)] :
           boxOf' = [a \in AgentIds |-> IF a \in new THEN f[a] ELSE boxOf[a]]
    BY DEF EnsureAgents
  <1>3. /\ made + n <= MaxBoxes /\ made' = made + n /\ started' = started \cup As
        /\ loop' = [b \in Boxes |->
              IF b \in (made + 1)..(made + n) THEN "get" ELSE loop[b]]
    BY DEF EnsureAgents
  <1> HIDE DEF n
  <1>4. \A a \in new : f[a] \in 0..MaxBoxes
    BY <1>1, <1>2, <1>3, RuntimeAssumption DEF TypeOK
  <1>5. boxOf' \in [AgentIds -> 0..MaxBoxes]
    BY <1>2, <1>4 DEF TypeOK
  <1>6. made' \in 0..MaxBoxes
    BY <1>1, <1>3, RuntimeAssumption DEF TypeOK
  <1>7. loop' \in [Boxes -> LoopStates]
    BY <1>3 DEF TypeOK, LoopStates
  <1> QED BY <1>3, <1>5, <1>6, <1>7 DEF TypeOK

\* The number of bindings of a type, and so of copies of a publication.
LEMMA CopiesType == ASSUME bindings \in Seq(Types), NEW t PROVE Copies(t) \in Nat
  <1>1. IsFiniteSet(DOMAIN bindings)
    <2>1. DOMAIN bindings = 1..Len(bindings) /\ Len(bindings) \in Nat
      OBVIOUS
    <2> QED BY <2>1, FS_Interval
  <1>2. IsFiniteSet({i \in DOMAIN bindings : bindings[i] = t})
    BY <1>1, FS_Subset
  <1> QED BY <1>2, FS_CardinalityType DEF Copies

\* publish_message appends copies of its envelope, and nothing else.
LEMMA PublishAppends ==
    ASSUME TypeOK, NEW p \in Pubs, Publish(p), NEW b \in Boxes
    PROVE  \E k \in Int : queue'[b] = queue[b] \o [i \in 1..k |-> p]
  <1> DEFINE wanted == IF \E a \in AgentIds : boxOf'[a] = b
                       THEN Copies(TypeOf[CHOOSE a \in AgentIds : boxOf'[a] = b])
                       ELSE 0
             room == IF closed[b] THEN 0 ELSE Capacity - Len(queue[b])
  <1>1. queue'[b] = queue[b] \o
           [i \in 1..(IF wanted <= room THEN wanted ELSE room) |-> p]
    BY DEF Publish
  <1>2. wanted \in Int
    BY CopiesType DEF TypeOK
  <1>3. room \in Int
    BY RuntimeAssumption DEF TypeOK
  <1> QED BY <1>1, <1>2, <1>3

\* Appending to one mailbox keeps the type of all of them.
LEMMA PutType ==
    ASSUME NEW B, NEW S, NEW q \in [B -> Seq(S)], NEW e \in S, NEW x
    PROVE  [q EXCEPT ![x] = Append(@, e)] \in [B -> Seq(S)]
  <1>1. ASSUME NEW b \in B
        PROVE  [q EXCEPT ![x] = Append(@, e)][b] \in Seq(S)
    <2>1. CASE b = x
      BY <2>1
    <2>2. CASE b # x
      BY <2>2
    <2> QED BY <2>1, <2>2
  <1> QED BY <1>1

\* Every step of the runtime keeps the type of every variable.
LEMMA TypeCorrect == TypeOK /\ [Next]_vars => TypeOK'
  <1> SUFFICES ASSUME TypeOK, [Next]_vars PROVE TypeOK'
    OBVIOUS
  <1>0. MaxBoxes \in Nat
    BY RuntimeAssumption
  <1>1. ASSUME NEW t \in Types, Register(t) PROVE TypeOK'
    <2>1. registered' \subseteq Types
      BY <1>1 DEF TypeOK, Register
    <2>2. UNCHANGED <<bindings, started, boxOf, made, queue, closed, loop,
                      cur, raised, cancelled, active, call, target, by, fut,
                      pend, out, ran, published, phase, stops>>
      BY <1>1 DEF Register, boxes, loops, calls
    <2> QED BY <2>1, <2>2 DEF TypeOK
  <1>2. ASSUME NEW t \in Types, Subscribe(t) PROVE TypeOK'
    <2>1. bindings' \in Seq(Types)
      BY <1>2 DEF TypeOK, Subscribe
    <2>2. UNCHANGED <<registered, started, boxOf, made, queue, closed, loop,
                      cur, raised, cancelled, active, call, target, by, fut,
                      pend, out, ran, published, phase, stops>>
      BY <1>2 DEF Subscribe, boxes, loops, calls
    <2> QED BY <2>1, <2>2 DEF TypeOK
  <1>3. ASSUME NEW r \in Reqs, NEW a \in AgentIds, NEW c \in {Outside} \cup Boxes,
              Send(r, a, c) PROVE TypeOK'
    <2>1. EnsureAgents({a})
      BY <1>3 DEF Send
    <2>2. /\ made' \in 0..MaxBoxes
          /\ started' \subseteq AgentIds
          /\ boxOf' \in [AgentIds -> 0..MaxBoxes]
          /\ loop' \in [Boxes -> LoopStates]
      BY <2>1, EnsureAgentsType
    <2>3. /\ target' \in [Reqs -> 0..MaxBoxes]
          /\ by' \in [Reqs -> 0..MaxBoxes]
      BY <1>3, <1>0, <2>2 DEF TypeOK, Send, Boxes, Outside
    <2>4. /\ call' \in [Reqs -> CallStates]
          /\ out' \in [Reqs -> Outcomes]
          /\ fut' \in [Reqs -> FutStates]
          /\ pend' \subseteq Reqs
      BY <1>3 DEF TypeOK, Send, CallStates, Outcomes, FutStates
    <2>5. queue' \in [Boxes -> Seq(Msgs \cup {CLOSED})]
      <3>1. \/ UNCHANGED queue
            \/ queue' = [queue EXCEPT ![boxOf'[a]] = Append(@, r)]
        BY <1>3 DEF Send
      <3>2. queue \in [Boxes -> Seq(Msgs \cup {CLOSED})] /\ r \in Msgs
        BY DEF TypeOK, Msgs
      <3>3. CASE UNCHANGED queue
        BY <3>2, <3>3
      <3>4. CASE queue' = [queue EXCEPT ![boxOf'[a]] = Append(@, r)]
        BY <3>2, <3>4, PutType
      <3> QED BY <3>1, <3>3, <3>4
    <2>6. UNCHANGED <<registered, bindings, closed, cur, raised, cancelled,
                      active, ran, published, phase, stops>>
      BY <1>3 DEF Send, table
    <2> QED BY <2>2, <2>3, <2>4, <2>5, <2>6 DEF TypeOK
  <1>4. ASSUME NEW r \in Reqs, NEW a \in AgentIds, SendNotFound(r, a)
        PROVE  TypeOK'
    <2>1. /\ call' \in [Reqs -> CallStates]
          /\ out' \in [Reqs -> Outcomes]
      BY <1>4 DEF TypeOK, SendNotFound, CallStates, Outcomes
    <2>2. UNCHANGED <<registered, bindings, started, boxOf, made, queue,
                      closed, loop, cur, raised, cancelled, active, target,
                      by, fut, pend, ran, published, phase, stops>>
      BY <1>4 DEF SendNotFound, table, boxes, loops
    <2> QED BY <2>1, <2>2 DEF TypeOK
  <1>5. ASSUME NEW r \in Reqs, NEW c \in {Outside} \cup Boxes, SendPreCancelled(r, c)
        PROVE  TypeOK'
    <2>1. /\ call' \in [Reqs -> CallStates]
          /\ out' \in [Reqs -> Outcomes]
      BY <1>5 DEF TypeOK, SendPreCancelled, CallStates, Outcomes
    <2>2. /\ by' \in [Reqs -> 0..MaxBoxes]
          /\ raised' \subseteq Boxes
      BY <1>5, <1>0 DEF TypeOK, SendPreCancelled, Outside, Boxes
    <2>3. UNCHANGED <<registered, bindings, started, boxOf, made, queue,
                      closed, loop, cur, cancelled, active, target, fut,
                      pend, ran, published, phase, stops>>
      BY <1>5 DEF SendPreCancelled, table, boxes
    <2> QED BY <2>1, <2>2, <2>3 DEF TypeOK
  <1>6. ASSUME NEW r \in Reqs, PutUnblocked(r) PROVE TypeOK'
    <2>1. call' \in [Reqs -> CallStates]
      BY <1>6 DEF TypeOK, PutUnblocked, CallStates
    <2>2. queue' \in [Boxes -> Seq(Msgs \cup {CLOSED})]
      <3>1. queue' = [queue EXCEPT ![target[r]] = Append(@, r)]
        BY <1>6 DEF PutUnblocked
      <3>2. queue \in [Boxes -> Seq(Msgs \cup {CLOSED})] /\ r \in Msgs
        BY DEF TypeOK, Msgs
      <3> QED BY <3>1, <3>2, PutType
    <2>3. UNCHANGED <<registered, bindings, started, boxOf, made, closed,
                      loop, cur, raised, cancelled, active, target, by, fut,
                      pend, out, ran, published, phase, stops>>
      BY <1>6 DEF PutUnblocked, table, boxes, loops
    <2> QED BY <2>1, <2>2, <2>3 DEF TypeOK
  <1>7. ASSUME NEW r \in Reqs, Return(r) PROVE TypeOK'
    <2>1. call' \in [Reqs -> CallStates]
      BY <1>7 DEF TypeOK, Return, CallStates
    <2>2. out' \in [Reqs -> Outcomes]
      BY <1>7 DEF TypeOK, Return, FutStates, Outcomes
    <2>3. raised' \subseteq Boxes
      <3>1. raised' \subseteq raised \cup ({by[r]} \ {Outside})
        BY <1>7 DEF Return
      <3>2. by[r] \in 0..MaxBoxes /\ raised \subseteq Boxes
        BY DEF TypeOK
      <3> QED BY <3>1, <3>2, <1>0 DEF Boxes, Outside
    <2>4. UNCHANGED <<registered, bindings, started, boxOf, made, queue,
                      closed, loop, cur, cancelled, active, target, by, fut,
                      pend, ran, published, phase, stops>>
      BY <1>7 DEF Return, table, boxes
    <2> QED BY <2>1, <2>2, <2>3, <2>4 DEF TypeOK
  <1>8. ASSUME NEW r \in Reqs, Timeout(r) PROVE TypeOK'
    <2>1. /\ call' \in [Reqs -> CallStates]
          /\ out' \in [Reqs -> Outcomes]
          /\ pend' \subseteq Reqs
          /\ fut' \in [Reqs -> FutStates]
      BY <1>8 DEF TypeOK, Timeout, CallStates, Outcomes, FutStates
    <2>2. UNCHANGED <<registered, bindings, started, boxOf, made, queue,
                      closed, loop, cur, raised, cancelled, active, target,
                      by, ran, published, phase, stops>>
      BY <1>8 DEF Timeout, table, boxes, loops
    <2> QED BY <2>1, <2>2 DEF TypeOK
  <1>9. ASSUME NEW r \in Reqs, TokenCancel(r) PROVE TypeOK'
    <2>1. fut' \in [Reqs -> FutStates]
      BY <1>9 DEF TypeOK, TokenCancel, FutStates
    <2>2. UNCHANGED <<registered, bindings, started, boxOf, made, queue,
                      closed, loop, cur, raised, cancelled, active, call,
                      target, by, pend, out, ran, published, phase, stops>>
      BY <1>9 DEF TokenCancel, table, boxes, loops
    <2> QED BY <2>1, <2>2 DEF TypeOK
  <1>10. ASSUME NEW r \in Reqs, CallerCancelled(r) PROVE TypeOK'
    <2>1. /\ call' \in [Reqs -> CallStates]
          /\ out' \in [Reqs -> Outcomes]
          /\ fut' \in [Reqs -> FutStates]
      BY <1>10 DEF TypeOK, CallerCancelled, Abandoned, CallStates, Outcomes,
         FutStates
    <2>2. UNCHANGED <<registered, bindings, started, boxOf, made, queue,
                      closed, loop, cur, raised, cancelled, active, target,
                      by, pend, ran, published, phase, stops>>
      BY <1>10 DEF CallerCancelled, table, boxes, loops
    <2> QED BY <2>1, <2>2 DEF TypeOK
  <1>11. ASSUME NEW p \in Pubs, Publish(p) PROVE TypeOK'
    <2>1. EnsureAgents({Default[bindings[i]] : i \in DOMAIN bindings})
      BY <1>11 DEF Publish
    <2>2. {Default[bindings[i]] : i \in DOMAIN bindings} \in SUBSET AgentIds
      BY RuntimeAssumption DEF TypeOK
    <2>3. /\ made' \in 0..MaxBoxes
          /\ started' \subseteq AgentIds
          /\ boxOf' \in [AgentIds -> 0..MaxBoxes]
          /\ loop' \in [Boxes -> LoopStates]
      BY <2>1, <2>2, EnsureAgentsType
    <2>4. ASSUME NEW b \in Boxes PROVE queue'[b] \in Seq(Msgs \cup {CLOSED})
      <3>1. PICK k \in Int : queue'[b] = queue[b] \o [i \in 1..k |-> p]
        BY <1>11, PublishAppends
      <3> QED BY <3>1 DEF TypeOK, Msgs
    <2>5. queue' \in [Boxes -> Seq(Msgs \cup {CLOSED})]
      BY <1>11, <2>4 DEF Publish
    <2>6. published' \subseteq Pubs
      BY <1>11 DEF TypeOK, Publish
    <2>7. UNCHANGED <<registered, bindings, closed, cur, raised, cancelled,
                      active, call, target, by, fut, pend, out, ran, phase,
                      stops>>
      BY <1>11 DEF Publish, table, calls
    <2> QED BY <2>3, <2>5, <2>6, <2>7 DEF TypeOK
  <1>12. ASSUME NEW b \in Boxes, Take(b) PROVE TypeOK'
    <2>1. /\ cur' \in [Boxes -> Msgs \cup {CLOSED, NoMsg}]
          /\ loop' \in [Boxes -> LoopStates]
          /\ queue' \in [Boxes -> Seq(Msgs \cup {CLOSED})]
      BY <1>12 DEF TypeOK, Take, LoopStates
    <2>2. UNCHANGED <<registered, bindings, started, boxOf, made, closed,
                      raised, cancelled, active, call, target, by, fut, pend,
                      out, ran, published, phase, stops>>
      BY <1>12 DEF Take, table, boxes, calls
    <2> QED BY <2>1, <2>2 DEF TypeOK
  <1>13. ASSUME NEW b \in Boxes, Begin(b) PROVE TypeOK'
    <2>1. /\ loop' \in [Boxes -> LoopStates]
          /\ active' \in Int
          /\ ran' \in [Reqs -> RunStates]
      BY <1>13 DEF TypeOK, Begin, LoopStates, RunStates
    <2>2. UNCHANGED <<registered, bindings, started, boxOf, made, queue,
                      closed, cur, raised, cancelled, call, target, by, fut,
                      pend, out, published, phase, stops>>
      BY <1>13 DEF Begin, table, boxes, calls
    <2> QED BY <2>1, <2>2 DEF TypeOK
  <1>14. ASSUME NEW b \in Boxes, SeeSentinel(b) PROVE TypeOK'
    <2>1. /\ queue' \in [Boxes -> Seq(Msgs \cup {CLOSED})]
          /\ loop' \in [Boxes -> LoopStates]
          /\ cur' \in [Boxes -> Msgs \cup {CLOSED, NoMsg}]
      BY <1>14 DEF TypeOK, SeeSentinel, LoopStates
    <2>2. UNCHANGED <<registered, bindings, started, boxOf, made, closed,
                      raised, cancelled, active, call, target, by, fut, pend,
                      out, ran, published, phase, stops>>
      BY <1>14 DEF SeeSentinel, table, boxes, calls
    <2> QED BY <2>1, <2>2 DEF TypeOK
  <1>15. ASSUME NEW b \in Boxes, SeeClosed(b) PROVE TypeOK'
    <2>1. loop' \in [Boxes -> LoopStates]
      BY <1>15 DEF TypeOK, SeeClosed, LoopStates
    <2>2. UNCHANGED <<registered, bindings, started, boxOf, made, queue,
                      closed, cur, raised, cancelled, active, call, target,
                      by, fut, pend, out, ran, published, phase, stops>>
      BY <1>15 DEF SeeClosed, table, boxes, calls
    <2> QED BY <2>1, <2>2 DEF TypeOK
  <1>16. ASSUME NEW b \in Boxes, NEW how \in {"value", "error"}, Finish(b, how)
         PROVE  TypeOK'
    <2>1. /\ active' \in Int
          /\ loop' \in [Boxes -> LoopStates]
          /\ cur' \in [Boxes -> Msgs \cup {CLOSED, NoMsg}]
          /\ raised' \subseteq Boxes
      BY <1>16 DEF TypeOK, Finish, LoopStates
    <2>2. ran' \in [Reqs -> RunStates]
      BY <1>16 DEF TypeOK, Finish, RunStates
    <2>3. /\ pend' \subseteq Reqs
          /\ fut' \in [Reqs -> FutStates]
      BY <1>16 DEF TypeOK, Finish, Resolve, FutStates
    <2>4. UNCHANGED <<registered, bindings, started, boxOf, made, queue,
                      closed, cancelled, call, target, by, out, published,
                      phase, stops>>
      BY <1>16 DEF Finish, table, boxes
    <2> QED BY <2>1, <2>2, <2>3, <2>4 DEF TypeOK
  <1>17. ASSUME NEW b \in Boxes, HandlerRaisesCancelled(b) PROVE TypeOK'
    <2>1. /\ active' \in Int
          /\ loop' \in [Boxes -> LoopStates]
          /\ cur' \in [Boxes -> Msgs \cup {CLOSED, NoMsg}]
          /\ raised' \subseteq Boxes
          /\ ran' \in [Reqs -> RunStates]
      BY <1>17 DEF TypeOK, HandlerRaisesCancelled, Abort, LoopStates,
         RunStates
    <2>2. /\ pend' \subseteq Reqs
          /\ fut' \in [Reqs -> FutStates]
      BY <1>17 DEF TypeOK, HandlerRaisesCancelled, Resolve, FutStates
    <2>3. UNCHANGED <<registered, bindings, started, boxOf, made, queue,
                      closed, cancelled, call, target, by, out, published,
                      phase, stops>>
      BY <1>17 DEF HandlerRaisesCancelled, table, boxes
    <2> QED BY <2>1, <2>2, <2>3 DEF TypeOK
  <1>18. ASSUME NEW b \in Boxes, CancelHandler(b) PROVE TypeOK'
    <2>1. /\ active' \in Int
          /\ loop' \in [Boxes -> LoopStates]
          /\ cur' \in [Boxes -> Msgs \cup {CLOSED, NoMsg}]
          /\ raised' \subseteq Boxes
          /\ ran' \in [Reqs -> RunStates]
      BY <1>18 DEF TypeOK, CancelHandler, Abort, LoopStates, RunStates
    <2>2. /\ call' \in [Reqs -> CallStates]
          /\ out' \in [Reqs -> Outcomes]
          /\ pend' \subseteq Reqs
          /\ fut' \in [Reqs -> FutStates]
      BY <1>18 DEF TypeOK, CancelHandler, Abandoned, FutStates, CallStates,
         Outcomes
    <2>3. UNCHANGED <<registered, bindings, started, boxOf, made, queue,
                      closed, cancelled, target, by, published, phase, stops>>
      BY <1>18 DEF CancelHandler, table, boxes
    <2> QED BY <2>1, <2>2, <2>3 DEF TypeOK
  <1>19. ASSUME NEW b \in Boxes, CancelGet(b) PROVE TypeOK'
    <2>1. /\ loop' \in [Boxes -> LoopStates]
          /\ cur' \in [Boxes -> Msgs \cup {CLOSED, NoMsg}]
      BY <1>19 DEF TypeOK, CancelGet, LoopStates
    <2>2. UNCHANGED <<registered, bindings, started, boxOf, made, queue,
                      closed, raised, cancelled, active, call, target, by,
                      fut, pend, out, ran, published, phase, stops>>
      BY <1>19 DEF CancelGet, table, boxes, calls
    <2> QED BY <2>1, <2>2 DEF TypeOK
  <1>20. ASSUME BeginStop PROVE TypeOK'
    <2>1. /\ phase' \in {"running", "cancelling", "stopped"}
          /\ cancelled' \subseteq Boxes
      <3>1. /\ phase' = "cancelling"
            /\ cancelled' = cancelled \cup {b \in Boxes \cap Supervised : loop[b] # "ended"}
        BY <1>20 DEF BeginStop
      <3> QED BY <3>1 DEF TypeOK
    <2>2. UNCHANGED <<registered, bindings, started, boxOf, made, queue,
                      closed, loop, cur, raised, active, call, target, by,
                      fut, pend, out, ran, published, stops>>
      BY <1>20 DEF BeginStop, table, boxes, calls
    <2> QED BY <2>1, <2>2 DEF TypeOK
  <1>21. ASSUME FinishStop PROVE TypeOK'
    <2>1. /\ closed' \in [Boxes -> BOOLEAN]
          /\ queue' \in [Boxes -> Seq(Msgs \cup {CLOSED})]
      BY <1>21 DEF TypeOK, FinishStop
    <2>2. /\ fut' \in [Reqs -> FutStates]
          /\ pend' \subseteq Reqs
      BY <1>21 DEF TypeOK, FinishStop, FutStates
    <2>3. /\ started' \subseteq AgentIds
          /\ phase' \in {"running", "cancelling", "stopped"}
          /\ stops' \in Nat
      BY <1>21 DEF TypeOK, FinishStop
    <2>4. UNCHANGED <<registered, bindings, boxOf, made, loop, cur, raised,
                      cancelled, active, call, target, by, out, ran,
                      published>>
      BY <1>21 DEF FinishStop, table, loops
    <2> QED BY <2>1, <2>2, <2>3, <2>4 DEF TypeOK
  <1>22. CASE UNCHANGED vars
    BY <1>22 DEF TypeOK, vars, table, boxes, loops, calls
  <1> QED
    BY <1>1, <1>2, <1>3, <1>4, <1>5, <1>6, <1>7, <1>8, <1>9, <1>10, <1>11,
       <1>12, <1>13, <1>14, <1>15, <1>16, <1>17, <1>18, <1>19, <1>20, <1>21,
       <1>22 DEF Next, CallStep, LoopStep, Stop, StopWhenIdle

\* Type correctness of the runtime's state.
THEOREM TypeCorrectness == Spec => []TypeOK
  <1>1. Init => TypeOK
    BY RuntimeAssumption DEF Init, TypeOK, Boxes, LoopStates, CallStates,
           FutStates, Outcomes, RunStates, Outside, Msgs
  <1> QED BY <1>1, TypeCorrect, PTL DEF Spec

-----------------------------------------------------------------------------
(* Envelopes that were not sent are nowhere                                *)

In(x, s) == \E i \in DOMAIN s : s[i] = x

\* Whether the envelope of r is in a mailbox or in the hands of a loop.
Held(r) == \E b \in Boxes : cur[b] = r \/ In(r, queue[b])

\* The envelope of a call that has not got past Mailbox.put is nowhere.
UnsentNowhere == \A r \in Reqs : call[r] \in {"idle", "putting"} => ~Held(r)

\* Append adds its element to a mailbox and nothing else.
LEMMA InAppend ==
    ASSUME NEW S, NEW s \in Seq(S), NEW e, NEW x, In(x, Append(s, e))
    PROVE  x = e \/ In(x, s)
  BY DEF In

\* Dequeuing brings nothing into a mailbox.
LEMMA InTail ==
    ASSUME NEW S, NEW s \in Seq(S), s # <<>>, NEW x, In(x, Tail(s))
    PROVE  In(x, s)
  BY DEF In

\* What a loop dequeues was in its mailbox.
LEMMA InHead ==
    ASSUME NEW S, NEW s \in Seq(S), s # <<>> PROVE In(Head(s), s)
  BY DEF In

\* Appending copies of a publication adds that publication at most: no request
\* envelope enters a mailbox by publish_message.
LEMMA InRepeat ==
    ASSUME NEW S, NEW s \in Seq(S), NEW p \in S, NEW k \in Int, NEW x,
           In(x, s \o [i \in 1..k |-> p])
    PROVE  x = p \/ In(x, s)
  <1> DEFINE t == [i \in 1..k |-> p]
  <1>1. t \in Seq(S)
    <2>1. CASE k >= 0
      BY <2>1
    <2>2. CASE k < 0
      <3>1. 1..k = 1..0
        BY <2>2
      <3> QED BY <3>1
    <2> QED BY <2>1, <2>2
  <1>2. \A i \in DOMAIN t : t[i] = p
    OBVIOUS
  <1>3. In(x, s \o t)
    OBVIOUS
  <1> HIDE DEF t
  <1>4. PICK i \in DOMAIN (s \o t) : (s \o t)[i] = x
    BY <1>3 DEF In
  <1>5. CASE i <= Len(s)
    BY <1>1, <1>4, <1>5 DEF In
  <1>6. CASE i > Len(s)
    <2>1. i - Len(s) \in DOMAIN t /\ x = t[i - Len(s)]
      BY <1>1, <1>4, <1>6
    <2> QED BY <2>1, <1>2
  <1> QED BY <1>1, <1>4, <1>5, <1>6

\* What a step can add to a mailbox: a publication, the sentinel, or the
\* envelope of a call that was not sent before the step and waits after it.
LEMMA QueueGains ==
    ASSUME TypeOK, [Next]_vars, NEW b \in Boxes, NEW x, In(x, queue'[b])
    PROVE  \/ In(x, queue[b])
           \/ x \in Pubs \cup {CLOSED}
           \/ x \in Reqs /\ call[x] \in {"idle", "putting"} /\ call'[x] = "waiting"
  <1> DEFINE S == Msgs \cup {CLOSED}
             Goal == \/ In(x, queue[b])
                     \/ x \in Pubs \cup {CLOSED}
                     \/ /\ x \in Reqs
                        /\ call[x] \in {"idle", "putting"} /\ call'[x] = "waiting"
  <1>0. queue[b] \in Seq(S) /\ call \in [Reqs -> CallStates]
    BY DEF TypeOK
  <1>1. CASE UNCHANGED queue
    BY <1>1
  <1>2. ASSUME NEW e, queue'[b] = Append(queue[b], e) PROVE x = e \/ In(x, queue[b])
    BY <1>0, <1>2, InAppend
  <1>3. ASSUME NEW r \in Reqs, NEW a \in AgentIds, NEW c \in {Outside} \cup Boxes,
               Send(r, a, c)
        PROVE  Goal
    <2>1. CASE UNCHANGED queue
      BY <2>1
    <2>2. CASE /\ queue' = [queue EXCEPT ![boxOf'[a]] = Append(@, r)]
               /\ call[r] = "idle" /\ call' = [call EXCEPT ![r] = "waiting"]
      <3>1. queue'[b] = queue[b] \/ queue'[b] = Append(queue[b], r)
        BY <2>2 DEF TypeOK
      <3>2. x = r \/ In(x, queue[b])
        BY <3>1, <1>2
      <3> QED BY <3>2, <2>2, <1>0
    <2> QED BY <1>3, <2>1, <2>2 DEF Send
  <1>4. ASSUME NEW r \in Reqs, PutUnblocked(r) PROVE Goal
    <2>1. /\ queue' = [queue EXCEPT ![target[r]] = Append(@, r)]
          /\ call[r] = "putting" /\ call' = [call EXCEPT ![r] = "waiting"]
      BY <1>4 DEF PutUnblocked
    <2>2. queue'[b] = queue[b] \/ queue'[b] = Append(queue[b], r)
      BY <2>1 DEF TypeOK
    <2>3. x = r \/ In(x, queue[b])
      BY <2>2, <1>2
    <2> QED BY <2>3, <2>1, <1>0
  <1>5. ASSUME NEW p \in Pubs, Publish(p) PROVE Goal
    <2>1. PICK k \in Int : queue'[b] = queue[b] \o [i \in 1..k |-> p]
      BY <1>5, PublishAppends
    <2>2. p \in S
      BY DEF Msgs
    <2>3. In(x, queue[b] \o [i \in 1..k |-> p])
      BY <2>1
    <2>4. x = p \/ In(x, queue[b])
      <3> HIDE DEF S
      <3> QED BY <1>0, <2>2, <2>3, InRepeat
    <2> QED BY <2>4
  <1>6. ASSUME NEW c \in Boxes, Take(c) PROVE Goal
    <2>1. queue[c] # <<>> /\ queue' = [queue EXCEPT ![c] = Tail(@)]
      BY <1>6 DEF Take
    <2>2. CASE b = c
      <3>1. queue'[b] = Tail(queue[b]) /\ queue[b] # <<>>
        BY <2>1, <2>2 DEF TypeOK
      <3> QED BY <3>1, <1>0, InTail
    <2>3. CASE b # c
      BY <2>1, <2>3 DEF TypeOK
    <2> QED BY <2>2, <2>3
  <1>7. ASSUME NEW c \in Boxes, SeeSentinel(c) PROVE Goal
    <2>1. queue'[b] = queue[b] \/ queue'[b] = Append(queue[b], CLOSED)
      BY <1>7 DEF SeeSentinel, TypeOK
    <2> QED BY <2>1, <1>2
  <1>8. ASSUME FinishStop PROVE Goal
    <2>1. queue'[b] = queue[b] \/ queue'[b] = Append(queue[b], CLOSED)
      BY <1>8 DEF FinishStop
    <2> QED BY <2>1, <1>2
  <1> QED
    BY <1>1, <1>3, <1>4, <1>5, <1>6, <1>7, <1>8
       DEF Next, CallStep, LoopStep, Stop, StopWhenIdle, vars, calls, loops,
           Register, Subscribe, SendNotFound, SendPreCancelled, Return, Timeout,
           TokenCancel, CallerCancelled, Begin, SeeClosed, Finish,
           HandlerRaisesCancelled, CancelHandler, CancelGet, BeginStop

\* What a loop holds after a step it held before, or took from its mailbox.
LEMMA CurGains ==
    ASSUME TypeOK, [Next]_vars, NEW b \in Boxes
    PROVE  cur'[b] = NoMsg \/ cur'[b] = cur[b] \/ In(cur'[b], queue[b])
  <1>1. CASE UNCHANGED cur
    BY <1>1
  <1>2. ASSUME NEW c \in Boxes, cur' = [cur EXCEPT ![c] = NoMsg]
        PROVE  cur'[b] = NoMsg \/ cur'[b] = cur[b]
    BY <1>2 DEF TypeOK
  <1>3. ASSUME NEW c \in Boxes, Take(c)
        PROVE  cur'[b] = cur[b] \/ In(cur'[b], queue[b])
    <2>1. queue[c] # <<>> /\ cur' = [cur EXCEPT ![c] = Head(queue[c])]
      BY <1>3 DEF Take
    <2>2. In(Head(queue[c]), queue[c])
      BY <2>1, InHead DEF TypeOK
    <2> QED BY <2>1, <2>2 DEF TypeOK
  <1> QED
    BY <1>1, <1>2, <1>3
       DEF Next, CallStep, LoopStep, Stop, StopWhenIdle, vars, calls, loops,
           Register, Subscribe, Send, SendNotFound, SendPreCancelled,
           PutUnblocked, Return, Timeout, TokenCancel, CallerCancelled, Publish,
           Begin, SeeSentinel, SeeClosed, Finish, HandlerRaisesCancelled, Abort,
           CancelHandler, CancelGet, BeginStop, FinishStop

\* No call goes back to being unsent.
LEMMA CallMoves ==
    ASSUME TypeOK, [Next]_vars, NEW r \in Reqs, call'[r] \in {"idle", "putting"}
    PROVE  call[r] \in {"idle", "putting"}
  <1>1. CASE UNCHANGED call
    BY <1>1
  <1>2. ASSUME NEW q \in Reqs, NEW to \in {"waiting", "returned"},
               call' = [call EXCEPT ![q] = to]
        PROVE  call[r] \in {"idle", "putting"}
    BY <1>2 DEF TypeOK
  <1>3. ASSUME NEW q \in Reqs, call[q] = "idle",
               call' = [call EXCEPT ![q] = "putting"]
        PROVE  call[r] \in {"idle", "putting"}
    BY <1>3 DEF TypeOK
  <1>4. ASSUME NEW b \in Boxes, CancelHandler(b)
        PROVE  call[r] \in {"idle", "putting"}
    BY <1>4 DEF CancelHandler
  <1>5. ASSUME NEW q \in Reqs, NEW a \in AgentIds, NEW c \in {Outside} \cup Boxes,
               Send(q, a, c)
        PROVE  call[r] \in {"idle", "putting"}
    BY <1>2, <1>3, <1>5 DEF Send
  <1> QED
    BY <1>1, <1>2, <1>4, <1>5
       DEF Next, CallStep, LoopStep, Stop, StopWhenIdle, vars, calls, loops,
           Register, Subscribe, SendNotFound, SendPreCancelled,
           PutUnblocked, Return, Timeout, TokenCancel, CallerCancelled, Publish,
           Take, Begin, SeeSentinel, SeeClosed, Finish, HandlerRaisesCancelled,
           CancelGet, BeginStop, FinishStop

\* The envelope of a call that has not got past Mailbox.put is in no mailbox.
THEOREM UnsentIsNowhere == Spec => []UnsentNowhere
  <1>1. Init => UnsentNowhere
    BY RuntimeAssumption DEF Init, UnsentNowhere, Held, In
  <1>2. TypeOK /\ UnsentNowhere /\ [Next]_vars => UnsentNowhere'
    <2> SUFFICES ASSUME TypeOK, UnsentNowhere, [Next]_vars, NEW r \in Reqs,
                        call'[r] \in {"idle", "putting"}, Held(r)'
                 PROVE  FALSE
      BY DEF UnsentNowhere
    <2>1. call[r] \in {"idle", "putting"} /\ ~Held(r)
      BY CallMoves DEF UnsentNowhere
    <2>2. PICK b \in Boxes : cur'[b] = r \/ In(r, queue'[b])
      BY DEF Held, In
    <2>3. CASE cur'[b] = r
      BY <2>1, <2>3, CurGains, RuntimeAssumption DEF Held
    <2>4. CASE In(r, queue'[b])
      BY <2>1, <2>4, QueueGains, RuntimeAssumption DEF Held
    <2> QED BY <2>2, <2>3, <2>4
  <1> QED BY <1>1, <1>2, TypeCorrectness, PTL DEF Spec

-----------------------------------------------------------------------------
(* Open futures                                                            *)

\* The steps that keep every open future in _pending_responses.
LEMMA OpenFutureStep ==
    TypeOK /\ UnsentNowhere /\ OpenFutureIsPending /\ [Next]_vars
        => OpenFutureIsPending'
  <1> SUFFICES ASSUME TypeOK, UnsentNowhere, OpenFutureIsPending, [Next]_vars,
                      NEW q \in Reqs, fut'[q] = "pending"
               PROVE  q \in pend'
    BY DEF OpenFutureIsPending
  <1> USE DEF TypeOK, OpenFutureIsPending
  <1>1. CASE UNCHANGED <<fut, pend>>
    BY <1>1
  <1>2. ASSUME NEW r \in Reqs, NEW a \in AgentIds, NEW c \in {Outside} \cup Boxes,
               Send(r, a, c)
        PROVE  q \in pend'
    BY <1>2 DEF Send
  <1>3. ASSUME NEW r \in Reqs, Timeout(r) PROVE q \in pend'
    BY <1>3 DEF Timeout
  <1>4. ASSUME NEW r \in Reqs, TokenCancel(r) PROVE q \in pend'
    BY <1>4 DEF TokenCancel
  <1>5. ASSUME NEW r \in Reqs, CallerCancelled(r) PROVE q \in pend'
    BY <1>5 DEF CallerCancelled, Abandoned
  <1>6. ASSUME NEW b \in Boxes, NEW how \in {"value", "error"}, Finish(b, how)
        PROVE  q \in pend'
    BY <1>6 DEF Finish, Resolve
  <1>7. ASSUME NEW b \in Boxes, HandlerRaisesCancelled(b) PROVE q \in pend'
    BY <1>7 DEF HandlerRaisesCancelled, Resolve
  <1>8. ASSUME NEW b \in Boxes, CancelHandler(b) PROVE q \in pend'
    <2>1. /\ pend' = pend \ {cur[b]}
          /\ \/ fut'[q] = Abandoned(q) /\ call[q] \in {"putting", "waiting"}
             \/ fut'[q] = "silent"
             \/ fut'[q] = fut[q] /\ (q # cur[b] \/ q \notin pend \/ fut[q] # "pending")
      BY <1>8 DEF CancelHandler
    <2>2. CASE fut'[q] = Abandoned(q) /\ call[q] \in {"putting", "waiting"}
      <3>1. call[q] = "putting" /\ fut[q] = "pending"
        BY <2>2 DEF Abandoned
      <3>2. cur[b] # q
        BY <3>1 DEF UnsentNowhere, Held
      <3> QED BY <2>1, <3>1, <3>2
    <2> QED BY <2>1, <2>2
  <1>9. CASE FinishStop
    BY <1>9 DEF FinishStop
  <1> QED
    BY <1>1, <1>2, <1>3, <1>4, <1>5, <1>6, <1>7, <1>8, <1>9
       DEF Next, CallStep, LoopStep, Stop, StopWhenIdle, vars, calls,
           Register, Subscribe, SendNotFound, SendPreCancelled, PutUnblocked,
           Return, Publish, Take, Begin, SeeSentinel, SeeClosed, CancelGet,
           BeginStop

\* stop can always reach a future that is still open, whatever interleaving of
\* callers, loops, tokens and timeouts produced it.
THEOREM OpenFuturesAreReachable == Spec => []OpenFutureIsPending
  <1>1. Init => OpenFutureIsPending
    BY DEF Init, OpenFutureIsPending
  <1> QED BY <1>1, OpenFutureStep, TypeCorrectness, UnsentIsNowhere, PTL DEF Spec

-----------------------------------------------------------------------------
(* Mailboxes and loops                                                     *)

\* The mailboxes of agents are their own and were created; one that was not yet
\* created has no loop; a started agent has an open one.
Mailboxes ==
    /\ \A a \in AgentIds : boxOf[a] \in 0..made
    /\ \A b \in Boxes : b > made => loop[b] = "none" /\ ~closed[b]
    /\ \A a \in started : boxOf[a] \in 1..made /\ ~closed[boxOf[a]]
    /\ \A a1, a2 \in AgentIds : boxOf[a1] = boxOf[a2] => a1 = a2 \/ boxOf[a1] = 0

Bounded == \A b \in Boxes : Len(queue[b]) <= Capacity

\* A loop holds an envelope exactly from its dequeuing until the handler ends.
Holding ==
    \A b \in Boxes :
      /\ cur[b] # NoMsg <=> loop[b] \in {"got", "handle"}
      /\ loop[b] = "handle" => cur[b] # CLOSED

\* A cancelled loop ends before stop does.
Cancelling == \A b \in cancelled : loop[b] # "ended" => phase = "cancelling"

\* What _ensure_agent does to the tables.
LEMMA EnsureAgentsGives ==
    ASSUME TypeOK, Mailboxes, NEW As \in SUBSET AgentIds, EnsureAgents(As)
    PROVE  /\ made' \in 0..MaxBoxes /\ made <= made' /\ started' = started \cup As
           /\ \A a \in AgentIds : IF a \in As \ started THEN boxOf'[a] \in (made + 1)..made'
                                                        ELSE boxOf'[a] = boxOf[a]
           /\ \A a1, a2 \in As \ started : boxOf'[a1] = boxOf'[a2] => a1 = a2
           /\ \A b \in Boxes : loop'[b] = IF b \in (made + 1)..made' THEN "get" ELSE loop[b]
  <1> DEFINE new == As \ started
             n   == Cardinality(new)
  <1>1. n \in Nat
    <2>1. IsFiniteSet(new)
      BY RuntimeAssumption, FS_Subset
    <2> QED BY <2>1, FS_CardinalityType
  <1>2. PICK f \in [new -> (made + 1)..(made + n)] :
          /\ \A a1, a2 \in new : f[a1] = f[a2] => a1 = a2
          /\ boxOf' = [a \in AgentIds |-> IF a \in new THEN f[a] ELSE boxOf[a]]
    BY DEF EnsureAgents
  <1>3. /\ made + n <= MaxBoxes /\ made' = made + n /\ started' = started \cup As
        /\ loop' = [b \in Boxes |->
              IF b \in (made + 1)..(made + n) THEN "get" ELSE loop[b]]
    BY DEF EnsureAgents
  <1>4. new \subseteq AgentIds
    OBVIOUS
  <1> HIDE DEF n, new
  <1>5. made' \in 0..MaxBoxes /\ made <= made'
    BY <1>1, <1>3, RuntimeAssumption DEF TypeOK
  <1>6. \A a \in AgentIds : IF a \in new THEN boxOf'[a] \in (made + 1)..made'
                                          ELSE boxOf'[a] = boxOf[a]
    BY <1>2, <1>3, <1>4
  <1>7. \A a1, a2 \in new : boxOf'[a1] = boxOf'[a2] => a1 = a2
    BY <1>2, <1>4
  <1>8. \A b \in Boxes : loop'[b] = IF b \in (made + 1)..made' THEN "get" ELSE loop[b]
    BY <1>3
  <1> QED BY <1>3, <1>5, <1>6, <1>7, <1>8 DEF new

\* ... and so to the mailboxes.
LEMMA EnsureAgentsKeeps ==
    ASSUME TypeOK, Mailboxes, NEW As \in SUBSET AgentIds, EnsureAgents(As), closed' = closed
    PROVE  /\ Mailboxes'
           /\ \A b \in Boxes : loop'[b] = loop[b] \/ (loop[b] = "none" /\ loop'[b] = "get")
           /\ \A a \in As : boxOf'[a] \in Boxes
  <1> DEFINE new == As \ started
  <1>1. /\ made' \in 0..MaxBoxes /\ made <= made' /\ started' = started \cup As
        /\ \A a \in AgentIds : IF a \in new THEN boxOf'[a] \in (made + 1)..made'
                                             ELSE boxOf'[a] = boxOf[a]
        /\ \A a1, a2 \in new : boxOf'[a1] = boxOf'[a2] => a1 = a2
        /\ \A b \in Boxes : loop'[b] = IF b \in (made + 1)..made' THEN "get" ELSE loop[b]
    BY EnsureAgentsGives
  <1>2. /\ made \in Nat /\ made' \in Nat /\ MaxBoxes \in Nat /\ made' <= MaxBoxes
        /\ started \subseteq AgentIds
        /\ \A a \in AgentIds : boxOf[a] \in Nat /\ boxOf[a] <= made
    BY <1>1, RuntimeAssumption DEF TypeOK, Mailboxes
  <1>3. new \subseteq AgentIds /\ \A a \in As : a \in new \/ a \in started
    OBVIOUS
  <1> HIDE DEF new
  <1>4. \A a \in AgentIds : IF a \in new THEN /\ boxOf'[a] \in Nat /\ boxOf'[a] > made /\ boxOf'[a] <= made'
                                         ELSE boxOf'[a] = boxOf[a]
    BY <1>1, <1>2
  <1>5. \A a \in AgentIds : boxOf'[a] \in 0..made'
    BY <1>1, <1>2, <1>4
  <1>6. \A b \in Boxes : b > made' => loop'[b] = "none" /\ ~closed'[b]
    <2> SUFFICES ASSUME NEW b \in Boxes, b > made' PROVE loop'[b] = "none" /\ ~closed[b]
      OBVIOUS
    <2>1. b \in Nat /\ b > made /\ b \notin (made + 1)..made'
      BY <1>1, <1>2 DEF Boxes
    <2> QED BY <1>1, <2>1 DEF Mailboxes
  <1>7. \A a \in new : boxOf'[a] \in 1..made' /\ boxOf'[a] \in Boxes /\ ~closed[boxOf'[a]]
    <2> SUFFICES ASSUME NEW a \in new
                 PROVE  boxOf'[a] \in 1..made' /\ boxOf'[a] \in Boxes /\ ~closed[boxOf'[a]]
      OBVIOUS
    <2>1. boxOf'[a] \in Nat /\ boxOf'[a] > made /\ boxOf'[a] <= made'
      BY <1>3, <1>4
    <2>2. boxOf'[a] \in 1..made' /\ boxOf'[a] \in Boxes
      BY <1>2, <2>1 DEF Boxes
    <2> QED BY <2>1, <2>2 DEF Mailboxes
  <1>8. \A a \in started : boxOf'[a] \in 1..made' /\ boxOf'[a] \in Boxes /\ ~closed[boxOf'[a]]
    <2> SUFFICES ASSUME NEW a \in started, a \notin new
                 PROVE  boxOf'[a] \in 1..made' /\ boxOf'[a] \in Boxes /\ ~closed[boxOf'[a]]
      BY <1>7
    <2>1. boxOf'[a] = boxOf[a]
      BY <1>1, <1>2
    <2>2. boxOf[a] \in 1..made /\ ~closed[boxOf[a]]
      BY DEF Mailboxes
    <2> QED BY <1>1, <1>2, <2>1, <2>2 DEF Boxes
  <1>9. \A a1, a2 \in AgentIds : boxOf'[a1] = boxOf'[a2] => a1 = a2 \/ boxOf'[a1] = 0
    <2> SUFFICES ASSUME NEW a1 \in AgentIds, NEW a2 \in AgentIds, boxOf'[a1] = boxOf'[a2]
                 PROVE  a1 = a2 \/ boxOf'[a1] = 0
      OBVIOUS
    <2>1. CASE a1 \in new /\ a2 \in new
      BY <1>1, <2>1
    <2>2. CASE a1 \notin new /\ a2 \notin new
      BY <1>4, <2>2 DEF Mailboxes
    <2>3. CASE (a1 \in new) # (a2 \in new)
      BY <1>2, <1>4, <2>3
    <2> QED BY <2>1, <2>2, <2>3
  <1>10. Mailboxes'
    BY <1>1, <1>3, <1>5, <1>6, <1>7, <1>8, <1>9 DEF Mailboxes
  <1>11. \A b \in Boxes : loop'[b] = loop[b] \/ (loop[b] = "none" /\ loop'[b] = "get")
    <2> SUFFICES ASSUME NEW b \in Boxes, b \in (made + 1)..made' PROVE loop[b] = "none" /\ loop'[b] = "get"
      BY <1>1
    <2>1. b > made
      BY <1>2
    <2> QED BY <1>1, <2>1 DEF Mailboxes
  <1>12. \A a \in As : boxOf'[a] \in Boxes
    BY <1>3, <1>7, <1>8
  <1> QED BY <1>10, <1>11, <1>12

\* A publication goes to agents.
LEMMA DefaultsAreAgents ==
    ASSUME TypeOK
    PROVE  {Default[bindings[i]] : i \in DOMAIN bindings} \in SUBSET AgentIds
  BY RuntimeAssumption DEF TypeOK

\* The tables change only when agents start and when stop ends.
LEMMA MailboxesStay == ASSUME TypeOK, Mailboxes, [Next]_vars PROVE Mailboxes'
  <1>1. ASSUME NEW r \in Reqs, NEW a \in AgentIds, NEW c \in {Outside} \cup Boxes,
               Send(r, a, c)
        PROVE  Mailboxes'
    <2>1. EnsureAgents({a}) /\ closed' = closed /\ {a} \in SUBSET AgentIds
      BY <1>1 DEF Send
    <2> QED BY <2>1, EnsureAgentsKeeps
  <1>2. ASSUME NEW p \in Pubs, Publish(p) PROVE Mailboxes'
    <2>1. EnsureAgents({Default[bindings[i]] : i \in DOMAIN bindings}) /\ closed' = closed
      BY <1>2 DEF Publish
    <2> QED BY <2>1, DefaultsAreAgents, EnsureAgentsKeeps
  <1>3. ASSUME NEW b \in Boxes, Take(b) PROVE Mailboxes'
    <2>1. /\ UNCHANGED <<boxOf, made, started, closed>> /\ loop[b] # "none"
          /\ \A d \in Boxes : d # b => loop'[d] = loop[d]
      BY <1>3 DEF Take, boxes, TypeOK
    <2> QED BY <2>1 DEF Mailboxes
  <1>4. ASSUME NEW b \in Boxes, Begin(b) PROVE Mailboxes'
    <2>1. /\ UNCHANGED <<boxOf, made, started, closed>> /\ loop[b] # "none"
          /\ \A d \in Boxes : d # b => loop'[d] = loop[d]
      BY <1>4 DEF Begin, boxes, TypeOK
    <2> QED BY <2>1 DEF Mailboxes
  <1>5. ASSUME NEW b \in Boxes, SeeSentinel(b) PROVE Mailboxes'
    <2>1. /\ UNCHANGED <<boxOf, made, started, closed>> /\ loop[b] # "none"
          /\ \A d \in Boxes : d # b => loop'[d] = loop[d]
      BY <1>5 DEF SeeSentinel, boxes, TypeOK
    <2> QED BY <2>1 DEF Mailboxes
  <1>6. ASSUME NEW b \in Boxes, SeeClosed(b) PROVE Mailboxes'
    <2>1. /\ UNCHANGED <<boxOf, made, started, closed>> /\ loop[b] # "none"
          /\ \A d \in Boxes : d # b => loop'[d] = loop[d]
      BY <1>6 DEF SeeClosed, boxes, TypeOK
    <2> QED BY <2>1 DEF Mailboxes
  <1>7. ASSUME NEW b \in Boxes, NEW how \in {"value", "error"},
               Finish(b, how)
        PROVE  Mailboxes'
    <2>1. /\ UNCHANGED <<boxOf, made, started, closed>> /\ loop[b] # "none"
          /\ \A d \in Boxes : d # b => loop'[d] = loop[d]
      BY <1>7 DEF Finish, boxes, TypeOK
    <2> QED BY <2>1 DEF Mailboxes
  <1>8. ASSUME NEW b \in Boxes, HandlerRaisesCancelled(b) PROVE Mailboxes'
    <2>1. /\ UNCHANGED <<boxOf, made, started, closed>> /\ loop[b] # "none"
          /\ \A d \in Boxes : d # b => loop'[d] = loop[d]
      BY <1>8 DEF HandlerRaisesCancelled, Abort, boxes, TypeOK
    <2> QED BY <2>1 DEF Mailboxes
  <1>9. ASSUME NEW b \in Boxes, CancelHandler(b) PROVE Mailboxes'
    <2>1. /\ UNCHANGED <<boxOf, made, started, closed>> /\ loop[b] # "none"
          /\ \A d \in Boxes : d # b => loop'[d] = loop[d]
      BY <1>9 DEF CancelHandler, Abort, boxes, TypeOK
    <2> QED BY <2>1 DEF Mailboxes
  <1>10. ASSUME NEW b \in Boxes, CancelGet(b) PROVE Mailboxes'
    <2>1. /\ UNCHANGED <<boxOf, made, started, closed>> /\ loop[b] # "none"
          /\ \A d \in Boxes : d # b => loop'[d] = loop[d]
      BY <1>10 DEF CancelGet, boxes, TypeOK
    <2> QED BY <2>1 DEF Mailboxes
  <1>11. CASE FinishStop
    <2>1. /\ UNCHANGED <<boxOf, made, loop>> /\ started' = {}
          /\ \A d \in Boxes : closed'[d] <=> closed[d] \/ d \in {boxOf[a] : a \in AgentIds} \ {0}
      BY <1>11 DEF FinishStop, loops
    <2>2. \A d \in Boxes : d > made => d \notin {boxOf[a] : a \in AgentIds} \ {0}
      BY RuntimeAssumption DEF Mailboxes, TypeOK, Boxes
    <2> QED BY <2>1, <2>2 DEF Mailboxes
  <1>12. CASE UNCHANGED <<boxOf, made, started, closed, loop>>
    BY <1>12 DEF Mailboxes
  <1> QED BY <1>1, <1>2, <1>3, <1>4, <1>5, <1>6, <1>7, <1>8, <1>9, <1>10, <1>11, <1>12 DEF
             Next, CallStep, LoopStep, Stop, StopWhenIdle, vars, boxes, loops, Register,
             Subscribe, SendNotFound, SendPreCancelled, PutUnblocked, Return, Timeout,
             TokenCancel, CallerCancelled, BeginStop

\* The queue of a mailbox never exceeds its capacity: publish drops what does not
\* fit, send waits for a slot, and the sentinel is put only where there is room.
LEMMA BoundedStays == ASSUME TypeOK, Bounded, [Next]_vars PROVE Bounded'
  <1>l. \A b \in Boxes : queue[b] \in Seq(Msgs \cup {CLOSED}) /\ Len(queue[b]) \in Nat
    BY DEF TypeOK
  <1>c. Capacity \in Nat \ {0}
    BY RuntimeAssumption
  <1>a. ASSUME NEW d \in Boxes, NEW x, ~IsFull(d)
        PROVE  Len(Append(queue[d], x)) <= Capacity
    <2>1. Len(Append(queue[d], x)) = Len(queue[d]) + 1
      BY <1>l
    <2>2. ~(Len(queue[d]) >= Capacity)
      BY <1>a DEF IsFull
    <2> HIDE DEF IsFull
    <2> QED BY <1>l, <1>c, <2>1, <2>2
  <1>1. ASSUME NEW r \in Reqs, NEW a \in AgentIds, NEW c \in {Outside} \cup Boxes,
               Send(r, a, c)
        PROVE  Bounded'
    <2>1. \/ UNCHANGED queue
          \/ ~IsFull(boxOf'[a]) /\ queue' = [queue EXCEPT ![boxOf'[a]] = Append(@, r)]
      BY <1>1 DEF Send
    <2>2. \A d \in Boxes : queue'[d] = queue[d] \/ (~IsFull(d) /\ queue'[d] = Append(queue[d], r))
      BY <2>1 DEF TypeOK
    <2> QED BY <1>a, <2>2 DEF Bounded
  <1>2. ASSUME NEW r \in Reqs, PutUnblocked(r) PROVE Bounded'
    <2>1. ~IsFull(target[r]) /\ queue' = [queue EXCEPT ![target[r]] = Append(@, r)]
      BY <1>2 DEF PutUnblocked
    <2>2. \A d \in Boxes : queue'[d] = queue[d] \/ (~IsFull(d) /\ queue'[d] = Append(queue[d], r))
      BY <2>1 DEF TypeOK
    <2> QED BY <1>a, <2>2 DEF Bounded
  <1>3. ASSUME NEW p \in Pubs, Publish(p) PROVE Bounded'
    <2> SUFFICES ASSUME NEW d \in Boxes PROVE Len(queue'[d]) <= Capacity
      BY DEF Bounded
    <2> DEFINE wanted == IF \E a \in AgentIds : boxOf'[a] = d
                         THEN Copies(TypeOf[CHOOSE a \in AgentIds : boxOf'[a] = d])
                         ELSE 0
               l == Len(queue[d])
               room == IF closed[d] THEN 0 ELSE Capacity - l
               k == IF wanted <= room THEN wanted ELSE room
    <2>1. queue'[d] = queue[d] \o [i \in 1..k |-> p]
      BY <1>3 DEF Publish
    <2>2. wanted \in Nat
      BY CopiesType DEF TypeOK
    <2>3. l \in Nat /\ l <= Capacity
      BY <1>l DEF Bounded
    <2> HIDE DEF wanted, l
    <2>4. k \in Nat /\ l + k <= Capacity
      BY <1>c, <2>2, <2>3
    <2> HIDE DEF k
    <2>5. Len(queue[d] \o [i \in 1..k |-> p]) = l + k
      <3> DEFINE t == [i \in 1..k |-> p]
      <3>1. t \in Seq(Msgs) /\ Len(t) = k
        BY <2>4 DEF Msgs
      <3>2. queue[d] \in Seq(Msgs \cup {CLOSED}) /\ t \in Seq(Msgs \cup {CLOSED})
        BY <1>l, <3>1
      <3> HIDE DEF t
      <3>3. Len(queue[d] \o t) = Len(queue[d]) + Len(t)
        BY <3>2
      <3> QED BY <3>1, <3>3 DEF l, t
    <2> QED BY <1>l, <2>1, <2>4, <2>5
  <1>4. ASSUME NEW b \in Boxes, Take(b) PROVE Bounded'
    <2>1. queue[b] # <<>> /\ queue' = [queue EXCEPT ![b] = Tail(@)]
      BY <1>4 DEF Take
    <2>2. Len(Tail(queue[b])) = Len(queue[b]) - 1
      BY <1>l, <2>1
    <2>3. Len(Tail(queue[b])) <= Capacity
      BY <1>l, <1>c, <2>2 DEF Bounded
    <2>4. \A d \in Boxes : queue'[d] = queue[d] \/ (d = b /\ queue'[d] = Tail(queue[b]))
      BY <2>1 DEF TypeOK
    <2> QED BY <2>3, <2>4 DEF Bounded
  <1>5. ASSUME NEW b \in Boxes, SeeSentinel(b) PROVE Bounded'
    <2>1. queue' = [queue EXCEPT ![b] = IF IsFull(b) THEN @ ELSE Append(@, CLOSED)]
      BY <1>5 DEF SeeSentinel
    <2>2. \A d \in Boxes : queue'[d] = queue[d] \/ (~IsFull(d) /\ queue'[d] = Append(queue[d], CLOSED))
      BY <2>1 DEF TypeOK
    <2> QED BY <1>a, <2>2 DEF Bounded
  <1>6. CASE FinishStop
    <2>1. \A d \in Boxes : queue'[d] = queue[d] \/ (~IsFull(d) /\ queue'[d] = Append(queue[d], CLOSED))
      BY <1>6 DEF FinishStop
    <2> QED BY <1>a, <2>1 DEF Bounded
  <1>7. CASE UNCHANGED queue
    BY <1>7 DEF Bounded
  <1> QED BY <1>1, <1>2, <1>3, <1>4, <1>5, <1>6, <1>7 DEF Next, CallStep, LoopStep, Stop,
             StopWhenIdle, vars, Register, Subscribe, SendNotFound, SendPreCancelled, Return,
             Timeout, TokenCancel, CallerCancelled, Begin, SeeClosed, Finish,
             HandlerRaisesCancelled, CancelHandler, CancelGet, BeginStop

\* A loop holds an envelope exactly when it is between Take and the end of the handler.
LEMMA HoldingStays == ASSUME TypeOK, Mailboxes, Holding, [Next]_vars PROVE Holding'
  <1>n. NoMsg # CLOSED /\ NoMsg \notin Msgs /\ CLOSED \notin Msgs
    BY RuntimeAssumption DEF Msgs
  <1>1. ASSUME NEW r \in Reqs, NEW a \in AgentIds, NEW c \in {Outside} \cup Boxes,
               Send(r, a, c)
        PROVE  Holding'
    <2>1. EnsureAgents({a}) /\ closed' = closed /\ {a} \in SUBSET AgentIds /\ cur' = cur
      BY <1>1 DEF Send
    <2>2. \A b \in Boxes : loop'[b] = loop[b] \/ (loop[b] = "none" /\ loop'[b] = "get")
      BY <2>1, EnsureAgentsKeeps
    <2> QED BY <2>1, <2>2 DEF Holding
  <1>2. ASSUME NEW p \in Pubs, Publish(p) PROVE Holding'
    <2>1. /\ EnsureAgents({Default[bindings[i]] : i \in DOMAIN bindings}) /\ closed' = closed /\ cur' = cur
      BY <1>2 DEF Publish
    <2>2. \A b \in Boxes : loop'[b] = loop[b] \/ (loop[b] = "none" /\ loop'[b] = "get")
      BY <2>1, DefaultsAreAgents, EnsureAgentsKeeps
    <2> QED BY <2>1, <2>2 DEF Holding
  <1>3. ASSUME NEW b \in Boxes, Take(b) PROVE Holding'
    <2>1. Head(queue[b]) \in Msgs \cup {CLOSED}
      BY <1>3 DEF Take, TypeOK
    <2>2. \A d \in Boxes : IF d = b THEN loop'[d] = "got" /\ cur'[d] = Head(queue[b])
                                    ELSE loop'[d] = loop[d] /\ cur'[d] = cur[d]
      BY <1>3 DEF Take, TypeOK
    <2> QED BY <1>n, <2>1, <2>2 DEF Holding
  <1>4. ASSUME NEW b \in Boxes, Begin(b) PROVE Holding'
    <2>1. /\ cur' = cur /\ loop[b] = "got" /\ cur[b] # CLOSED
          /\ \A d \in Boxes : loop'[d] = IF d = b THEN "handle" ELSE loop[d]
      BY <1>4 DEF Begin, TypeOK
    <2> QED BY <2>1 DEF Holding
  <1>5. ASSUME NEW b \in Boxes, SeeSentinel(b) PROVE Holding'
    <2>1. \A d \in Boxes : IF d = b THEN loop'[d] = "ended" /\ cur'[d] = NoMsg
                                    ELSE loop'[d] = loop[d] /\ cur'[d] = cur[d]
      BY <1>5 DEF SeeSentinel, TypeOK
    <2> QED BY <2>1 DEF Holding
  <1>6. ASSUME NEW b \in Boxes, SeeClosed(b) PROVE Holding'
    <2>1. /\ cur' = cur /\ loop[b] = "get"
          /\ \A d \in Boxes : loop'[d] = IF d = b THEN "ended" ELSE loop[d]
      BY <1>6 DEF SeeClosed, TypeOK
    <2> QED BY <2>1 DEF Holding
  <1>7. ASSUME NEW b \in Boxes, NEW how \in {"value", "error"},
               Finish(b, how)
        PROVE  Holding'
    <2>1. \A d \in Boxes : IF d = b THEN loop'[d] = "get" /\ cur'[d] = NoMsg
                                    ELSE loop'[d] = loop[d] /\ cur'[d] = cur[d]
      BY <1>7 DEF Finish, TypeOK
    <2> QED BY <2>1 DEF Holding
  <1>8. ASSUME NEW b \in Boxes, HandlerRaisesCancelled(b) PROVE Holding'
    <2>1. \A d \in Boxes : IF d = b THEN loop'[d] = "ended" /\ cur'[d] = NoMsg
                                    ELSE loop'[d] = loop[d] /\ cur'[d] = cur[d]
      BY <1>8 DEF HandlerRaisesCancelled, Abort, TypeOK
    <2> QED BY <2>1 DEF Holding
  <1>9. ASSUME NEW b \in Boxes, CancelHandler(b) PROVE Holding'
    <2>1. \A d \in Boxes : IF d = b THEN loop'[d] = "ended" /\ cur'[d] = NoMsg
                                    ELSE loop'[d] = loop[d] /\ cur'[d] = cur[d]
      BY <1>9 DEF CancelHandler, Abort, TypeOK
    <2> QED BY <2>1 DEF Holding
  <1>10. ASSUME NEW b \in Boxes, CancelGet(b) PROVE Holding'
    <2>1. \A d \in Boxes : IF d = b THEN loop'[d] = "ended" /\ cur'[d] = NoMsg
                                    ELSE loop'[d] = loop[d] /\ cur'[d] = cur[d]
      BY <1>10 DEF CancelGet, TypeOK
    <2> QED BY <2>1 DEF Holding
  <1>11. CASE UNCHANGED <<loop, cur>>
    BY <1>11 DEF Holding
  <1> QED BY <1>1, <1>2, <1>3, <1>4, <1>5, <1>6, <1>7, <1>8, <1>9, <1>10, <1>11 DEF Next,
             CallStep, LoopStep, Stop, StopWhenIdle, vars, loops, Register, Subscribe,
             SendNotFound, SendPreCancelled, PutUnblocked, Return, Timeout, TokenCancel,
             CallerCancelled, BeginStop, FinishStop

\* Only a loop that is not cancelled starts: stop waits for the others.
LEMMA CancellingStays == ASSUME TypeOK, Mailboxes, Cancelling, [Next]_vars PROVE Cancelling'
  <1>1. ASSUME NEW r \in Reqs, NEW a \in AgentIds, NEW c \in {Outside} \cup Boxes,
               Send(r, a, c)
        PROVE  Cancelling'
    <2>1. EnsureAgents({a}) /\ closed' = closed /\ {a} \in SUBSET AgentIds /\ UNCHANGED <<cancelled, phase>>
      BY <1>1 DEF Send
    <2>2. \A b \in Boxes : loop'[b] = loop[b] \/ (loop[b] = "none" /\ loop'[b] = "get")
      BY <2>1, EnsureAgentsKeeps
    <2> QED BY <2>1, <2>2 DEF Cancelling, TypeOK
  <1>2. ASSUME NEW p \in Pubs, Publish(p) PROVE Cancelling'
    <2>1. /\ EnsureAgents({Default[bindings[i]] : i \in DOMAIN bindings})
          /\ closed' = closed /\ UNCHANGED <<cancelled, phase>>
      BY <1>2 DEF Publish
    <2>2. \A b \in Boxes : loop'[b] = loop[b] \/ (loop[b] = "none" /\ loop'[b] = "get")
      BY <2>1, DefaultsAreAgents, EnsureAgentsKeeps
    <2> QED BY <2>1, <2>2 DEF Cancelling, TypeOK
  <1>3. ASSUME NEW b \in Boxes, Take(b) PROVE Cancelling'
    <2>1. /\ UNCHANGED <<cancelled, phase>> /\ loop[b] # "ended"
          /\ \A d \in Boxes : d # b => loop'[d] = loop[d]
      BY <1>3 DEF Take, TypeOK
    <2> QED BY <2>1 DEF Cancelling, TypeOK
  <1>4. ASSUME NEW b \in Boxes, Begin(b) PROVE Cancelling'
    <2>1. /\ UNCHANGED <<cancelled, phase>> /\ loop[b] # "ended"
          /\ \A d \in Boxes : d # b => loop'[d] = loop[d]
      BY <1>4 DEF Begin, TypeOK
    <2> QED BY <2>1 DEF Cancelling, TypeOK
  <1>5. ASSUME NEW b \in Boxes, SeeSentinel(b) PROVE Cancelling'
    <2>1. /\ UNCHANGED <<cancelled, phase>> /\ loop[b] # "ended"
          /\ \A d \in Boxes : d # b => loop'[d] = loop[d]
      BY <1>5 DEF SeeSentinel, TypeOK
    <2> QED BY <2>1 DEF Cancelling, TypeOK
  <1>6. ASSUME NEW b \in Boxes, SeeClosed(b) PROVE Cancelling'
    <2>1. /\ UNCHANGED <<cancelled, phase>> /\ loop[b] # "ended"
          /\ \A d \in Boxes : d # b => loop'[d] = loop[d]
      BY <1>6 DEF SeeClosed, TypeOK
    <2> QED BY <2>1 DEF Cancelling, TypeOK
  <1>7. ASSUME NEW b \in Boxes, NEW how \in {"value", "error"},
               Finish(b, how)
        PROVE  Cancelling'
    <2>1. /\ UNCHANGED <<cancelled, phase>> /\ loop[b] # "ended"
          /\ \A d \in Boxes : d # b => loop'[d] = loop[d]
      BY <1>7 DEF Finish, TypeOK
    <2> QED BY <2>1 DEF Cancelling, TypeOK
  <1>8. ASSUME NEW b \in Boxes, HandlerRaisesCancelled(b) PROVE Cancelling'
    <2>1. /\ UNCHANGED <<cancelled, phase>> /\ loop[b] # "ended"
          /\ \A d \in Boxes : d # b => loop'[d] = loop[d]
      BY <1>8 DEF HandlerRaisesCancelled, Abort, TypeOK
    <2> QED BY <2>1 DEF Cancelling, TypeOK
  <1>9. ASSUME NEW b \in Boxes, CancelHandler(b) PROVE Cancelling'
    <2>1. /\ UNCHANGED <<cancelled, phase>> /\ loop[b] # "ended"
          /\ \A d \in Boxes : d # b => loop'[d] = loop[d]
      BY <1>9 DEF CancelHandler, Abort, TypeOK
    <2> QED BY <2>1 DEF Cancelling, TypeOK
  <1>10. ASSUME NEW b \in Boxes, CancelGet(b) PROVE Cancelling'
    <2>1. /\ UNCHANGED <<cancelled, phase>> /\ loop[b] # "ended"
          /\ \A d \in Boxes : d # b => loop'[d] = loop[d]
      BY <1>10 DEF CancelGet, TypeOK
    <2> QED BY <2>1 DEF Cancelling, TypeOK
  <1>11. CASE BeginStop
    <2>1. phase' = "cancelling"
      BY <1>11 DEF BeginStop
    <2> QED BY <2>1 DEF Cancelling
  <1>12. CASE FinishStop
    <2>1. UNCHANGED <<loop, cancelled>> /\ \A d \in cancelled : loop[d] = "ended"
      BY <1>12 DEF FinishStop, loops
    <2> QED BY <2>1 DEF Cancelling
  <1>13. CASE UNCHANGED <<loop, cancelled, phase>>
    BY <1>13 DEF Cancelling
  <1> QED BY <1>1, <1>2, <1>3, <1>4, <1>5, <1>6, <1>7, <1>8, <1>9, <1>10, <1>11, <1>12, <1>13
             DEF Next, CallStep, LoopStep, Stop, StopWhenIdle, vars, loops, Register,
             Subscribe, SendNotFound, SendPreCancelled, PutUnblocked, Return, Timeout,
             TokenCancel, CallerCancelled

-----------------------------------------------------------------------------
(* Envelopes are in one place                                              *)

\* Where x is in a mailbox.
At(x, s) == {i \in DOMAIN s : s[i] = x}

\* To be in a queue is to have a place in it.
LEMMA InIsAt == \A x, s : In(x, s) <=> At(x, s) # {}
  BY DEF In, At

\* Places in a queue with one more.
LEMMA AtAppend ==
    ASSUME NEW S, NEW s \in Seq(S), NEW e, NEW x
    PROVE  At(x, Append(s, e)) = At(x, s) \cup (IF e = x THEN {Len(s) + 1} ELSE {})
  <1>1. Len(s) \in Nat /\ DOMAIN s = 1..Len(s)
    OBVIOUS
  <1>2. /\ DOMAIN Append(s, e) = 1..(Len(s) + 1) /\ Append(s, e)[Len(s) + 1] = e
        /\ \A i \in 1..Len(s) : Append(s, e)[i] = s[i]
    OBVIOUS
  <1> DEFINE a == Append(s, e)
             l == Len(s)
  <1>3. 1..(l + 1) = (1..l) \cup {l + 1}
    BY <1>1
  <1>4. /\ DOMAIN s = 1..l /\ DOMAIN a = (1..l) \cup {l + 1} /\ a[l + 1] = e
        /\ \A i \in 1..l : a[i] = s[i]
    BY <1>1, <1>2, <1>3
  <1> HIDE DEF a, l
  <1>5. At(x, a) = At(x, s) \cup (IF e = x THEN {l + 1} ELSE {})
    BY <1>4 DEF At
  <1> QED BY <1>5 DEF a, l

\* The places of the others do not move.
LEMMA AtOther ==
    ASSUME NEW S, NEW s \in Seq(S), NEW e, NEW x, e # x
    PROVE  At(x, Append(s, e)) = At(x, s)
  <1>1. At(x, Append(s, e)) = At(x, s) \cup (IF e = x THEN {Len(s) + 1} ELSE {})
    BY AtAppend, Zenon
  <1> DEFINE A == At(x, Append(s, e))
             B == At(x, s)
  <1> HIDE DEF A, B
  <1>2. A = B \cup (IF e = x THEN {Len(s) + 1} ELSE {})
    BY <1>1 DEF A, B
  <1> QED BY <1>2 DEF A, B

\* Copies of a publication are no copies of x.
LEMMA AtRepeat ==
    ASSUME NEW S, NEW s \in Seq(S), NEW p \in S, NEW k \in Int, NEW x, x # p
    PROVE  At(x, s \o [i \in 1..k |-> p]) = At(x, s)
  <1> DEFINE t == [i \in 1..k |-> p]
  <1>1. t \in Seq(S)
    <2>1. CASE k >= 0
      BY <2>1
    <2>2. CASE k < 0
      <3>1. 1..k = 1..0
        BY <2>2
      <3> QED BY <3>1
    <2> QED BY <2>1, <2>2
  <1>2. \A i \in DOMAIN t : t[i] = p
    OBVIOUS
  <1> HIDE DEF t
  <1>3. /\ Len(s) \in Nat /\ Len(t) \in Nat /\ DOMAIN s = 1..Len(s) /\ DOMAIN t = 1..Len(t)
        /\ DOMAIN (s \o t) = 1..(Len(s) + Len(t))
        /\ \A i \in 1..(Len(s) + Len(t)) : (s \o t)[i] = IF i <= Len(s) THEN s[i] ELSE t[i - Len(s)]
    BY <1>1
  <1> DEFINE l == Len(s)
             m == Len(t)
             u == s \o t
  <1>4. /\ l \in Nat /\ m \in Nat /\ DOMAIN s = 1..l /\ DOMAIN t = 1..m /\ DOMAIN u = 1..(l + m)
        /\ \A i \in 1..(l + m) : u[i] = IF i <= l THEN s[i] ELSE t[i - l]
    BY <1>3
  <1> HIDE DEF l, m, u
  <1>5. \A i \in 1..(l + m) : i <= l \/ i - l \in 1..m
    BY <1>4
  <1>6. \A i \in 1..(l + m) : u[i] = x => i \in 1..l /\ s[i] = x
    BY <1>2, <1>4, <1>5
  <1>7. \A i \in 1..l : i \in 1..(l + m) /\ u[i] = s[i]
    BY <1>4
  <1>8. At(x, u) = At(x, s)
    BY <1>4, <1>6, <1>7 DEF At
  <1> QED BY <1>8 DEF u, t

\* Places in the rest of a queue.
LEMMA AtTail ==
    ASSUME NEW S, NEW s \in Seq(S), s # <<>>, NEW x
    PROVE  /\ \A i \in At(x, Tail(s)) : i \in Nat \ {0} /\ i + 1 \in At(x, s)
           /\ Head(s) = x => 1 \in At(x, s)
  <1> DEFINE t == Tail(s)
             l == Len(s)
  <1>1. /\ l \in Nat /\ l # 0 /\ DOMAIN s = 1..l /\ DOMAIN t = 1..(l - 1) /\ Head(s) = s[1]
        /\ \A i \in 1..(l - 1) : t[i] = s[i + 1]
    OBVIOUS
  <1> HIDE DEF t, l
  <1>2. /\ \A i \in 1..(l - 1) : i \in Nat \ {0} /\ i + 1 \in 1..l
        /\ 1 \in 1..l
    BY <1>1
  <1> QED BY <1>1, <1>2 DEF At, t

\* x is once in the mailboxes Q and the hands C of the loops, at most.
Single(Q, C, x) ==
    /\ \A b, c \in Boxes : \A i \in At(x, Q[b]), j \in At(x, Q[c]) : b = c /\ i = j
    /\ \A b, c \in Boxes : C[b] = x => At(x, Q[c]) = {} /\ (C[c] = x => b = c)

\* No step but these changes where the envelope of x is: it is put, when its call
\* gets past Mailbox.put; its loop takes it; and it may go.
LEMMA EnvelopeMoves ==
    ASSUME TypeOK, [Next]_vars, NEW x \in Reqs
    PROVE  \/ \A b \in Boxes : /\ At(x, queue'[b]) \subseteq At(x, queue[b])
                               /\ cur'[b] = x => cur[b] = x
           \/ /\ call[x] \in {"idle", "putting"} /\ call'[x] = "waiting" /\ cur' = cur
              /\ \E b \in Boxes, i \in Nat :
                   /\ At(x, queue'[b]) = At(x, queue[b]) \cup {i}
                   /\ \A c \in Boxes : c # b => queue'[c] = queue[c]
           \/ \E b \in Boxes : Take(b)
  <1> DEFINE Goes == \A b \in Boxes : /\ At(x, queue'[b]) \subseteq At(x, queue[b])
                                      /\ cur'[b] = x => cur[b] = x
             Comes == /\ call[x] \in {"idle", "putting"} /\ call'[x] = "waiting" /\ cur' = cur
                      /\ \E b \in Boxes, i \in Nat :
                           /\ At(x, queue'[b]) = At(x, queue[b]) \cup {i}
                           /\ \A c \in Boxes : c # b => queue'[c] = queue[c]
             Goal == Goes \/ Comes \/ \E b \in Boxes : Take(b)
  <1>q. \A b \in Boxes : queue[b] \in Seq(Msgs \cup {CLOSED}) /\ Len(queue[b]) \in Nat
    BY DEF TypeOK
  <1>x. x # CLOSED /\ x # NoMsg /\ \A p \in Pubs : x # p
    BY RuntimeAssumption DEF Msgs
  <1>a. ASSUME NEW e, e # x, cur' = cur,
               \A b \in Boxes : queue'[b] = queue[b] \/ queue'[b] = Append(queue[b], e)
        PROVE  Goes
    <2>1. ASSUME NEW b \in Boxes PROVE At(x, queue'[b]) = At(x, queue[b])
      <3>1. At(x, Append(queue[b], e)) = At(x, queue[b])
        BY <1>a, <1>q, AtOther
      <3> QED BY <1>a, <3>1
    <2> QED BY <1>a, <2>1
  <1>p. ASSUME NEW d, NEW r \in Reqs, queue' = [queue EXCEPT ![d] = Append(@, r)], cur' = cur,
               call[r] \in {"idle", "putting"}, call' = [call EXCEPT ![r] = "waiting"]
        PROVE  Goes \/ Comes
    <2>1. CASE r # x
      <3>1. \A b \in Boxes : queue'[b] = queue[b] \/ queue'[b] = Append(queue[b], r)
        BY <1>p DEF TypeOK
      <3> QED BY <1>a, <1>p, <2>1, <3>1
    <2>2. CASE r = x /\ d \in Boxes
      <3>1. queue'[d] = Append(queue[d], x) /\ \A c \in Boxes : c # d => queue'[c] = queue[c]
        BY <1>p, <2>2 DEF TypeOK
      <3>2. At(x, queue'[d]) = At(x, queue[d]) \cup {Len(queue[d]) + 1}
        BY <1>q, <2>2, <3>1, AtAppend
      <3>3. Len(queue[d]) + 1 \in Nat
        BY <1>q, <2>2
      <3>4. call'[x] = "waiting"
        BY <1>p, <2>2 DEF TypeOK
      <3> QED BY <1>p, <2>2, <3>1, <3>2, <3>3, <3>4
    <2>3. CASE d \notin Boxes
      <3>1. \A b \in Boxes : queue'[b] = queue[b]
        BY <1>p, <2>3 DEF TypeOK
      <3> QED BY <1>p, <3>1
    <2> QED BY <2>1, <2>2, <2>3
  <1>1. ASSUME NEW r \in Reqs, NEW a \in AgentIds, NEW c \in {Outside} \cup Boxes,
               Send(r, a, c)
        PROVE  Goal
    <2>1. CASE UNCHANGED queue
      BY <1>1, <2>1 DEF Send
    <2>2. CASE ~UNCHANGED queue
      <3>1. /\ queue' = [queue EXCEPT ![boxOf'[a]] = Append(@, r)] /\ cur' = cur /\ call[r] = "idle"
            /\ call' = [call EXCEPT ![r] = "waiting"]
        BY <1>1, <2>2 DEF Send
      <3> QED BY <1>p, <3>1
    <2> QED BY <2>1, <2>2
  <1>2. ASSUME NEW r \in Reqs, PutUnblocked(r) PROVE Goal
    <2>1. /\ queue' = [queue EXCEPT ![target[r]] = Append(@, r)] /\ cur' = cur /\ call[r] = "putting"
          /\ call' = [call EXCEPT ![r] = "waiting"]
      BY <1>2 DEF PutUnblocked, loops
    <2> QED BY <1>p, <2>1
  <1>3. ASSUME NEW p \in Pubs, Publish(p) PROVE Goal
    <2>1. cur' = cur
      BY <1>3 DEF Publish
    <2>2. ASSUME NEW b \in Boxes PROVE At(x, queue'[b]) = At(x, queue[b])
      <3>1. PICK k \in Int : queue'[b] = queue[b] \o [i \in 1..k |-> p]
        BY <1>3, PublishAppends
      <3>2. p \in Msgs \cup {CLOSED} /\ x # p
        BY <1>x DEF Msgs
      <3>3. queue[b] \in Seq(Msgs \cup {CLOSED})
        BY <1>q
      <3>4. At(x, queue[b] \o [i \in 1..k |-> p]) = At(x, queue[b])
        BY <3>2, <3>3, AtRepeat
      <3> QED BY <3>1, <3>4
    <2> QED BY <2>1, <2>2
  <1>4. ASSUME NEW b \in Boxes, Take(b) PROVE Goal
    BY <1>4
  <1>5. ASSUME NEW b \in Boxes, SeeSentinel(b) PROVE Goal
    <2>1. /\ queue' = [queue EXCEPT ![b] = IF IsFull(b) THEN @ ELSE Append(@, CLOSED)]
          /\ cur' = [cur EXCEPT ![b] = NoMsg]
      BY <1>5 DEF SeeSentinel
    <2>2. \A d \in Boxes : queue'[d] = queue[d] \/ queue'[d] = Append(queue[d], CLOSED)
      BY <2>1 DEF TypeOK
    <2>3. \A d \in Boxes : At(x, queue'[d]) = At(x, queue[d])
      <3> SUFFICES ASSUME NEW d \in Boxes PROVE At(x, queue'[d]) = At(x, queue[d])
        OBVIOUS
      <3>1. At(x, Append(queue[d], CLOSED)) = At(x, queue[d])
        BY <1>q, <1>x, AtOther
      <3> QED BY <2>2, <3>1
    <2>4. \A d \in Boxes : cur'[d] = x => cur[d] = x
      BY <1>x, <2>1 DEF TypeOK
    <2> QED BY <2>3, <2>4
  <1>6. ASSUME NEW b \in Boxes, NEW how \in {"value", "error"}, Finish(b, how) PROVE Goal
    <2>1. queue' = queue /\ \A d \in Boxes : cur'[d] = x => cur[d] = x
      BY <1>6, <1>x DEF Finish, TypeOK
    <2> QED BY <2>1
  <1>7. ASSUME NEW b \in Boxes, HandlerRaisesCancelled(b) PROVE Goal
    <2>1. queue' = queue /\ \A d \in Boxes : cur'[d] = x => cur[d] = x
      BY <1>7, <1>x DEF HandlerRaisesCancelled, Abort, TypeOK
    <2> QED BY <2>1
  <1>8. ASSUME NEW b \in Boxes, CancelHandler(b) PROVE Goal
    <2>1. queue' = queue /\ \A d \in Boxes : cur'[d] = x => cur[d] = x
      BY <1>8, <1>x DEF CancelHandler, Abort, TypeOK
    <2> QED BY <2>1
  <1>9. ASSUME NEW b \in Boxes, CancelGet(b) PROVE Goal
    <2>1. queue' = queue /\ \A d \in Boxes : cur'[d] = x => cur[d] = x
      BY <1>9, <1>x DEF CancelGet, TypeOK
    <2> QED BY <2>1
  <1>10. CASE FinishStop
    <2>1. cur' = cur /\ \A d \in Boxes : queue'[d] = queue[d] \/ queue'[d] = Append(queue[d], CLOSED)
      BY <1>10 DEF FinishStop, loops
    <2> QED BY <1>a, <1>x, <2>1
  <1>11. CASE UNCHANGED <<queue, cur>>
    BY <1>11
  <1> QED BY <1>1, <1>2, <1>3, <1>4, <1>5, <1>6, <1>7, <1>8, <1>9, <1>10, <1>11 DEF Next,
             CallStep, LoopStep, Stop, StopWhenIdle, vars, loops, Register, Subscribe,
             SendNotFound, SendPreCancelled, Return, Timeout, TokenCancel, CallerCancelled,
             Begin, SeeClosed, BeginStop

\* Every envelope is in one place at a time.
OneSpot == \A r \in Reqs : Single(queue, cur, r)

\* An envelope is in at most one place, after every step.
LEMMA OneSpotStays == ASSUME TypeOK, UnsentNowhere, OneSpot, [Next]_vars PROVE OneSpot'
  <1> SUFFICES ASSUME NEW x \in Reqs PROVE Single(queue', cur', x)
    BY DEF OneSpot, Single
  <1>1. Single(queue, cur, x)
    BY DEF OneSpot
  <1>2. CASE \A b \in Boxes : /\ At(x, queue'[b]) \subseteq At(x, queue[b])
                              /\ cur'[b] = x => cur[b] = x
    BY <1>1, <1>2 DEF Single
  <1>3. CASE /\ call[x] \in {"idle", "putting"} /\ cur' = cur
             /\ \E b \in Boxes, i \in Nat :
                  /\ At(x, queue'[b]) = At(x, queue[b]) \cup {i}
                  /\ \A c \in Boxes : c # b => queue'[c] = queue[c]
    <2>1. \A b \in Boxes : At(x, queue[b]) = {} /\ cur[b] # x
      BY <1>3, InIsAt DEF UnsentNowhere, Held
    <2> QED BY <1>3, <2>1 DEF Single
  <1>4. ASSUME NEW b \in Boxes, Take(b) PROVE Single(queue', cur', x)
    <2>1. queue[b] \in Seq(Msgs \cup {CLOSED}) /\ queue[b] # <<>>
      BY <1>4 DEF Take, TypeOK
    <2>2. \A d \in Boxes : IF d = b THEN queue'[d] = Tail(queue[b]) /\ cur'[d] = Head(queue[b])
                                    ELSE queue'[d] = queue[d] /\ cur'[d] = cur[d]
      BY <1>4 DEF Take, TypeOK
    <2>3. /\ \A i \in At(x, Tail(queue[b])) : i \in Nat \ {0} /\ i + 1 \in At(x, queue[b])
          /\ Head(queue[b]) = x => 1 \in At(x, queue[b])
      BY <2>1, AtTail
    <2>4. CASE Head(queue[b]) = x
      <3>1. /\ \A d \in Boxes : d # b => At(x, queue[d]) = {}
            /\ \A d \in Boxes : cur[d] # x
            /\ \A i \in At(x, queue[b]) : i = 1
        BY <1>1, <2>3, <2>4 DEF Single
      <3>2. ASSUME NEW i \in At(x, Tail(queue[b])) PROVE FALSE
        <4>1. i \in Nat \ {0} /\ i + 1 = 1
          BY <2>3, <3>1
        <4> QED BY <4>1
      <3>3. \A d \in Boxes : At(x, queue'[d]) = {} /\ (cur'[d] = x => d = b)
        BY <2>2, <3>1, <3>2
      <3> QED BY <3>3 DEF Single
    <2>5. CASE Head(queue[b]) # x
      <3>1. \A d \in Boxes : cur'[d] = x => cur[d] = x
        BY <2>2, <2>5
      <3>2. \A d \in Boxes : At(x, queue[d]) = {} => At(x, queue'[d]) = {}
        BY <2>2, <2>3
      <3>3. ASSUME NEW c \in Boxes, NEW d \in Boxes, NEW i \in At(x, queue'[c]),
                NEW j \in At(x, queue'[d])
            PROVE  c = d /\ i = j
        <4>1. c = d
          BY <1>1, <2>2, <2>3, <3>3 DEF Single
        <4>2. CASE c # b
          BY <1>1, <2>2, <4>1, <4>2 DEF Single
        <4>3. CASE c = b
          <5>1. i \in Nat /\ j \in Nat /\ i + 1 \in At(x, queue[b]) /\ j + 1 \in At(x, queue[b])
            BY <2>2, <2>3, <4>1, <4>3
          <5>2. i + 1 = j + 1
            BY <1>1, <5>1 DEF Single
          <5> QED BY <4>1, <5>1, <5>2
        <4> QED BY <4>2, <4>3
      <3> QED BY <1>1, <3>1, <3>2, <3>3 DEF Single
    <2> QED BY <2>4, <2>5
  <1> QED BY <1>2, <1>3, <1>4, EnvelopeMoves

-----------------------------------------------------------------------------
(* Calls and handlers                                                      *)

\* A handler that waits for a call it has made is in progress, and is not the
\* one that answers the call; the call is for a mailbox.
NestedOK ==
    \A r \in Reqs : call[r] \in {"putting", "waiting"} =>
        /\ target[r] \in Boxes
        /\ by[r] # Outside => loop[by[r]] = "handle" /\ cur[by[r]] # r

\* What a step may do to the call of x and to its handler, but not to both.
LEMMA LifeMoves ==
    ASSUME TypeOK, NestedOK, [Next]_vars, NEW x \in Reqs
    PROVE  \/ /\ ran'[x] = ran[x] /\ fut'[x] \in {fut[x], "pending", "cancelled"}
              /\ \/ call'[x] = call[x] /\ out'[x] = out[x]
                 \/ /\ call[x] = "idle" /\ call'[x] \in {"putting", "waiting"} /\ out'[x] = out[x]
                    /\ fut'[x] = "pending"
                 \/ /\ call[x] = "idle" /\ call'[x] = "returned"
                    /\ out'[x] \in {"not_found", "closed", "cancelled"}
                 \/ call[x] = "putting" /\ call'[x] = "waiting" /\ out'[x] = out[x]
                 \/ /\ call[x] = "waiting" /\ call'[x] = "returned"
                    /\ out'[x] = fut[x] /\ fut[x] # "pending"
                 \/ /\ call[x] \in {"putting", "waiting"} /\ call'[x] = "returned"
                    /\ out'[x] \in {"timeout", "cancelled"}
           \/ /\ call'[x] = call[x] /\ out'[x] = out[x]
              /\ \E b \in Boxes :
                   /\ cur[b] = x
                   /\ \/ loop[b] = "got" /\ ran'[x] = "running" /\ fut'[x] = fut[x]
                      \/ loop[b] = "handle" /\ ran'[x] = "ok" /\ fut'[x] \in {fut[x], "value"}
                      \/ loop[b] = "handle" /\ ran'[x] = "error" /\ fut'[x] \in {fut[x], "error"}
                      \/ loop[b] = "handle" /\ ran'[x] = "aborted" /\ fut'[x] \in {fut[x], "silent"}
  <1> DEFINE Moved ==
               \/ call'[x] = call[x] /\ out'[x] = out[x]
               \/ /\ call[x] = "idle" /\ call'[x] \in {"putting", "waiting"} /\ out'[x] = out[x]
                  /\ fut'[x] = "pending"
               \/ /\ call[x] = "idle" /\ call'[x] = "returned"
                  /\ out'[x] \in {"not_found", "closed", "cancelled"}
               \/ call[x] = "putting" /\ call'[x] = "waiting" /\ out'[x] = out[x]
               \/ /\ call[x] = "waiting" /\ call'[x] = "returned"
                  /\ out'[x] = fut[x] /\ fut[x] # "pending"
               \/ /\ call[x] \in {"putting", "waiting"} /\ call'[x] = "returned"
                  /\ out'[x] \in {"timeout", "cancelled"}
             Called == ran'[x] = ran[x] /\ fut'[x] \in {fut[x], "pending", "cancelled"} /\ Moved
             Handled ==
               /\ call'[x] = call[x] /\ out'[x] = out[x]
               /\ \E b \in Boxes :
                    /\ cur[b] = x
                    /\ \/ loop[b] = "got" /\ ran'[x] = "running" /\ fut'[x] = fut[x]
                       \/ loop[b] = "handle" /\ ran'[x] = "ok" /\ fut'[x] \in {fut[x], "value"}
                       \/ loop[b] = "handle" /\ ran'[x] = "error" /\ fut'[x] \in {fut[x], "error"}
                       \/ loop[b] = "handle" /\ ran'[x] = "aborted" /\ fut'[x] \in {fut[x], "silent"}
  <1>1. ASSUME NEW r \in Reqs, NEW a \in AgentIds, NEW c \in {Outside} \cup Boxes,
               Send(r, a, c)
        PROVE  Called \/ Handled
    <2>1. ran' = ran /\ (x # r => UNCHANGED <<call[x], out[x], fut[x]>>)
      BY <1>1 DEF Send, TypeOK
    <2>2. CASE x = r
      BY <1>1, <2>1, <2>2 DEF Send, TypeOK
    <2> QED BY <2>1, <2>2
  <1>2. ASSUME NEW r \in Reqs, NEW a \in AgentIds,
               SendNotFound(r, a)
        PROVE  Called \/ Handled
    BY <1>2 DEF SendNotFound, loops, TypeOK
  <1>3. ASSUME NEW r \in Reqs, NEW c \in {Outside} \cup Boxes,
               SendPreCancelled(r, c)
        PROVE  Called \/ Handled
    BY <1>3 DEF SendPreCancelled, loops, TypeOK
  <1>4. ASSUME NEW r \in Reqs, PutUnblocked(r) PROVE Called \/ Handled
    BY <1>4 DEF PutUnblocked, loops, TypeOK
  <1>5. ASSUME NEW r \in Reqs, Return(r) PROVE Called \/ Handled
    BY <1>5 DEF Return, loops, TypeOK
  <1>6. ASSUME NEW r \in Reqs, Timeout(r) PROVE Called \/ Handled
    BY <1>6 DEF Timeout, loops, TypeOK
  <1>7. ASSUME NEW r \in Reqs, TokenCancel(r) PROVE Called \/ Handled
    BY <1>7 DEF TokenCancel, loops, TypeOK
  <1>8. ASSUME NEW r \in Reqs, CallerCancelled(r) PROVE Called \/ Handled
    BY <1>8 DEF CallerCancelled, Abandoned, loops, TypeOK
  <1>9. ASSUME NEW b \in Boxes, Begin(b) PROVE Called \/ Handled
    <2>1. UNCHANGED <<call, out, fut>> /\ ran'[x] = IF x = cur[b] THEN "running" ELSE ran[x]
      BY <1>9 DEF Begin, calls
    <2>2. loop[b] = "got"
      BY <1>9 DEF Begin
    <2> QED BY <2>1, <2>2
  <1>10. ASSUME NEW b \in Boxes, NEW how \in {"value", "error"},
               Finish(b, how)
        PROVE  Called \/ Handled
    <2>1. UNCHANGED <<call, out>> /\ loop[b] = "handle" /\ how \in {"value", "error"}
      BY <1>10 DEF Finish
    <2>2. /\ ran'[x] = IF x = cur[b] THEN (IF how = "value" THEN "ok" ELSE "error") ELSE ran[x]
          /\ fut'[x] \in {fut[x], how} /\ (x # cur[b] => fut'[x] = fut[x])
      BY <1>10 DEF Finish, Resolve
    <2> QED BY <2>1, <2>2
  <1>11. ASSUME NEW b \in Boxes, HandlerRaisesCancelled(b) PROVE Called \/ Handled
    <2>1. UNCHANGED <<call, out>> /\ loop[b] = "handle"
      BY <1>11 DEF HandlerRaisesCancelled
    <2>2. /\ ran'[x] = IF x = cur[b] THEN "aborted" ELSE ran[x]
          /\ fut'[x] \in {fut[x], "silent"} /\ (x # cur[b] => fut'[x] = fut[x])
      BY <1>11 DEF HandlerRaisesCancelled, Abort, Resolve
    <2> QED BY <2>1, <2>2
  <1>12. ASSUME NEW b \in Boxes, CancelHandler(b) PROVE Called \/ Handled
    <2> DEFINE nested == {r \in Reqs : by[r] = b /\ call[r] \in {"putting", "waiting"}}
    <2>1. /\ loop[b] = "handle" /\ ran'[x] = IF x = cur[b] THEN "aborted" ELSE ran[x]
          /\ call'[x] = IF x \in nested THEN "returned" ELSE call[x]
          /\ out'[x] = IF x \in nested THEN "cancelled" ELSE out[x]
          /\ fut'[x] = IF x \in nested THEN Abandoned(x)
                       ELSE IF x = cur[b] /\ x \in pend /\ fut[x] = "pending" THEN "silent" ELSE fut[x]
      BY <1>12 DEF CancelHandler, Abort
    <2>2. CASE x \in nested
      <3>1. cur[b] # x
        BY <2>2, RuntimeAssumption DEF NestedOK, Outside, Boxes
      <3> QED BY <2>1, <2>2, <3>1 DEF Abandoned
    <2>3. CASE x \notin nested
      <3> HIDE DEF nested
      <3> QED BY <2>1, <2>3
    <2> QED BY <2>2, <2>3
  <1>13. CASE FinishStop
    BY <1>13 DEF FinishStop, loops
  <1>14. CASE UNCHANGED <<call, out, fut, ran>>
    BY <1>14
  <1> QED BY <1>1, <1>2, <1>3, <1>4, <1>5, <1>6, <1>7, <1>8, <1>9, <1>10, <1>11, <1>12, <1>13,
             <1>14 DEF Next, CallStep, LoopStep, Stop, StopWhenIdle, vars, loops, calls,
             Register, Subscribe, Publish, Take, SeeSentinel, SeeClosed, CancelGet, BeginStop

\* The calls a handler makes belong to it.
LEMMA NestedStays ==
    ASSUME TypeOK, Mailboxes, UnsentNowhere, NestedOK, [Next]_vars
    PROVE  NestedOK'
  <1>t. \A r \in Reqs : by[r] # Outside => by[r] \in Boxes
    BY RuntimeAssumption DEF TypeOK, Outside, Boxes
  <1>r. ASSUME NEW r \in Reqs, UNCHANGED <<loop, cur, target, by>>,
               call[r] \in {"putting", "waiting"}, \A q \in Reqs : q # r => call'[q] = call[q]
        PROVE  NestedOK'
    BY <1>r DEF NestedOK
  <1>1. ASSUME NEW r \in Reqs, NEW a \in AgentIds, NEW c \in {Outside} \cup Boxes,
               Send(r, a, c)
        PROVE  NestedOK'
    <2>1. EnsureAgents({a}) /\ closed' = closed /\ {a} \in SUBSET AgentIds /\ cur' = cur /\ call[r] = "idle"
      BY <1>1 DEF Send
    <2>2. /\ \A b \in Boxes : loop'[b] = loop[b] \/ (loop[b] = "none" /\ loop'[b] = "get")
          /\ boxOf'[a] \in Boxes
      BY <2>1, EnsureAgentsKeeps
    <2>3. /\ target' = [target EXCEPT ![r] = boxOf'[a]] /\ by' = [by EXCEPT ![r] = c]
          /\ \A q \in Reqs : q # r => call'[q] = call[q]
      BY <1>1 DEF Send, TypeOK
    <2>4. c # Outside => c \in Boxes /\ loop[c] = "handle"
      BY <1>1 DEF Send, Callers
    <2>5. \A b \in Boxes : cur[b] # r
      BY <2>1 DEF UnsentNowhere, Held
    <2>6. \A b \in Boxes : loop[b] = "handle" => loop'[b] = "handle"
      BY <2>2
    <2>7. ASSUME NEW q \in Reqs, call'[q] \in {"putting", "waiting"}
          PROVE  /\ target'[q] \in Boxes
                 /\ by'[q] # Outside => loop'[by'[q]] = "handle" /\ cur'[by'[q]] # q
      <3>1. CASE q = r
        <4>1. target'[q] = boxOf'[a] /\ by'[q] = c
          BY <2>3, <3>1 DEF TypeOK
        <4> QED BY <2>1, <2>2, <2>4, <2>5, <2>6, <3>1, <4>1
      <3>2. CASE q # r
        <4>1. target'[q] = target[q] /\ by'[q] = by[q] /\ call'[q] = call[q]
          BY <2>3, <3>2 DEF TypeOK
        <4> QED BY <1>t, <2>1, <2>6, <2>7, <4>1 DEF NestedOK
      <3> QED BY <3>1, <3>2
    <2> QED BY <2>7 DEF NestedOK
  <1>2. ASSUME NEW r \in Reqs, NEW a \in AgentIds, SendNotFound(r, a) PROVE NestedOK'
    <2>1. UNCHANGED <<loop, cur, target, by>> /\ \A q \in Reqs : q # r => call'[q] = call[q]
      BY <1>2 DEF SendNotFound, loops, TypeOK
    <2>2. call'[r] = "returned"
      BY <1>2 DEF SendNotFound, TypeOK
    <2> QED BY <2>1, <2>2 DEF NestedOK
  <1>3. ASSUME NEW r \in Reqs, NEW c \in {Outside} \cup Boxes,
               SendPreCancelled(r, c)
        PROVE  NestedOK'
    <2>1. UNCHANGED <<loop, cur, target>> /\ \A q \in Reqs : q # r => call'[q] = call[q] /\ by'[q] = by[q]
      BY <1>3 DEF SendPreCancelled, TypeOK
    <2>2. call'[r] = "returned"
      BY <1>3 DEF SendPreCancelled, TypeOK
    <2> QED BY <2>1, <2>2 DEF NestedOK
  <1>4. ASSUME NEW r \in Reqs, PutUnblocked(r) PROVE NestedOK'
    <2>1. /\ UNCHANGED <<loop, cur, target, by>> /\ call[r] = "putting"
          /\ \A q \in Reqs : q # r => call'[q] = call[q]
      BY <1>4 DEF PutUnblocked, loops, TypeOK
    <2> QED BY <1>r, <2>1
  <1>5. ASSUME NEW r \in Reqs, Return(r) PROVE NestedOK'
    <2>1. /\ UNCHANGED <<loop, cur, target, by>> /\ call[r] = "waiting"
          /\ \A q \in Reqs : q # r => call'[q] = call[q]
      BY <1>5 DEF Return, loops, TypeOK
    <2> QED BY <1>r, <2>1
  <1>6. ASSUME NEW r \in Reqs, Timeout(r) PROVE NestedOK'
    <2>1. /\ UNCHANGED <<loop, cur, target, by>> /\ call[r] = "waiting"
          /\ \A q \in Reqs : q # r => call'[q] = call[q]
      BY <1>6 DEF Timeout, loops, TypeOK
    <2> QED BY <1>r, <2>1
  <1>7. ASSUME NEW r \in Reqs, CallerCancelled(r) PROVE NestedOK'
    <2>1. /\ UNCHANGED <<loop, cur, target, by>> /\ call[r] \in {"putting", "waiting"}
          /\ \A q \in Reqs : q # r => call'[q] = call[q]
      BY <1>7 DEF CallerCancelled, loops, TypeOK
    <2> QED BY <1>r, <2>1
  <1>8. ASSUME NEW p \in Pubs, Publish(p) PROVE NestedOK'
    <2>1. /\ EnsureAgents({Default[bindings[i]] : i \in DOMAIN bindings}) /\ closed' = closed
          /\ UNCHANGED <<cur, call, target, by>>
      BY <1>8 DEF Publish, calls
    <2>2. \A b \in Boxes : loop'[b] = loop[b] \/ (loop[b] = "none" /\ loop'[b] = "get")
      BY <2>1, DefaultsAreAgents, EnsureAgentsKeeps
    <2> QED BY <1>t, <2>1, <2>2 DEF NestedOK
  <1>9. ASSUME NEW b \in Boxes, Take(b) PROVE NestedOK'
    <2>1. /\ UNCHANGED <<call, target, by>> /\ loop[b] # "handle"
          /\ \A d \in Boxes : d # b => loop'[d] = loop[d] /\ cur'[d] = cur[d]
      BY <1>9 DEF Take, calls, TypeOK
    <2> QED BY <1>t, <2>1 DEF NestedOK
  <1>10. ASSUME NEW b \in Boxes, Begin(b) PROVE NestedOK'
    <2>1. /\ UNCHANGED <<call, target, by>> /\ loop[b] # "handle"
          /\ \A d \in Boxes : d # b => loop'[d] = loop[d] /\ cur'[d] = cur[d]
      BY <1>10 DEF Begin, calls, TypeOK
    <2> QED BY <1>t, <2>1 DEF NestedOK
  <1>11. ASSUME NEW b \in Boxes, SeeSentinel(b) PROVE NestedOK'
    <2>1. /\ UNCHANGED <<call, target, by>> /\ loop[b] # "handle"
          /\ \A d \in Boxes : d # b => loop'[d] = loop[d] /\ cur'[d] = cur[d]
      BY <1>11 DEF SeeSentinel, calls, TypeOK
    <2> QED BY <1>t, <2>1 DEF NestedOK
  <1>12. ASSUME NEW b \in Boxes, SeeClosed(b) PROVE NestedOK'
    <2>1. /\ UNCHANGED <<call, target, by>> /\ loop[b] # "handle"
          /\ \A d \in Boxes : d # b => loop'[d] = loop[d] /\ cur'[d] = cur[d]
      BY <1>12 DEF SeeClosed, calls, TypeOK
    <2> QED BY <1>t, <2>1 DEF NestedOK
  <1>13. ASSUME NEW b \in Boxes, NEW how \in {"value", "error"},
               Finish(b, how)
        PROVE  NestedOK'
    <2>1. /\ UNCHANGED <<call, target, by>> /\ ~Awaiting(b)
          /\ \A d \in Boxes : d # b => loop'[d] = loop[d] /\ cur'[d] = cur[d]
      BY <1>13 DEF Finish, TypeOK
    <2> QED BY <1>t, <2>1 DEF NestedOK, Awaiting
  <1>14. ASSUME NEW b \in Boxes, HandlerRaisesCancelled(b) PROVE NestedOK'
    <2>1. /\ UNCHANGED <<call, target, by>> /\ ~Awaiting(b)
          /\ \A d \in Boxes : d # b => loop'[d] = loop[d] /\ cur'[d] = cur[d]
      BY <1>14 DEF HandlerRaisesCancelled, Abort, TypeOK
    <2> QED BY <1>t, <2>1 DEF NestedOK, Awaiting
  <1>15. ASSUME NEW b \in Boxes, CancelHandler(b) PROVE NestedOK'
    <2>1. /\ UNCHANGED <<target, by>>
          /\ \A d \in Boxes : d # b => loop'[d] = loop[d] /\ cur'[d] = cur[d]
          /\ \A r \in Reqs : call'[r] = IF by[r] = b /\ call[r] \in {"putting", "waiting"}
                                        THEN "returned" ELSE call[r]
      BY <1>15 DEF CancelHandler, Abort, TypeOK
    <2> QED BY <1>t, <2>1 DEF NestedOK
  <1>16. ASSUME NEW b \in Boxes, CancelGet(b) PROVE NestedOK'
    <2>1. /\ UNCHANGED <<call, target, by>> /\ loop[b] # "handle"
          /\ \A d \in Boxes : d # b => loop'[d] = loop[d] /\ cur'[d] = cur[d]
      BY <1>16 DEF CancelGet, calls, TypeOK
    <2> QED BY <1>t, <2>1 DEF NestedOK
  <1>17. CASE UNCHANGED <<loop, cur, call, target, by>>
    BY <1>17 DEF NestedOK
  <1> QED BY <1>1, <1>2, <1>3, <1>4, <1>5, <1>6, <1>7, <1>8, <1>9, <1>10, <1>11, <1>12, <1>13,
             <1>14, <1>15, <1>16, <1>17 DEF Next, CallStep, LoopStep, Stop, StopWhenIdle, vars,
             loops, calls, Register, Subscribe, TokenCancel, BeginStop, FinishStop

\* A handler runs on an envelope that a loop holds; afterwards the envelope is
\* nowhere.
RanOK ==
    \A r \in Reqs :
      /\ ran[r] # "no" => \A b \in Boxes :
            /\ At(r, queue[b]) = {}
            /\ cur[b] = r => loop[b] = "handle" /\ ran[r] = "running"
      /\ ran[r] = "running" => \E b \in Boxes : cur[b] = r /\ loop[b] = "handle"
      /\ \A b \in Boxes : cur[b] = r /\ loop[b] = "handle" => ran[r] = "running"

\* The handler of a call that was not yet sent, or was refused, has not run; an
\* open call has a future and no outcome.
CallsOK ==
    \A r \in Reqs :
      /\ call[r] \in {"idle", "putting"} => ran[r] = "no"
      /\ call[r] # "returned" => out[r] = "none"
      /\ call[r] \in {"putting", "waiting"} => fut[r] # "none"
      /\ out[r] \in {"not_found", "closed"} => ran[r] = "no" /\ ~Held(r) /\ call[r] = "returned"

\* A future that a handler resolved says how the handler ended.
FutsOK ==
    \A r \in Reqs :
      /\ fut[r] = "value" => ran[r] = "ok"
      /\ fut[r] = "error" => ran[r] = "error"
      /\ fut[r] = "silent" => ran[r] = "aborted"

\* What is held after a step was held before, or is put now.
LEMMA HeldGains ==
    ASSUME TypeOK, [Next]_vars, NEW x \in Reqs, Held(x)'
    PROVE  Held(x) \/ (call[x] \in {"idle", "putting"} /\ call'[x] = "waiting")
  <1>x. x # CLOSED /\ x # NoMsg /\ x \notin Pubs
    BY RuntimeAssumption
  <1>1. PICK b \in Boxes : cur'[b] = x \/ In(x, queue'[b])
    BY DEF Held, In
  <1>2. CASE cur'[b] = x
    BY <1>x, <1>2, CurGains DEF Held
  <1>3. CASE In(x, queue'[b])
    BY <1>x, <1>3, QueueGains DEF Held
  <1> QED BY <1>1, <1>2, <1>3

\* A handler runs for the envelope its loop holds.
LEMMA RanStays ==
    ASSUME TypeOK, Mailboxes, Holding, UnsentNowhere, OneSpot, CallsOK, RanOK, [Next]_vars
    PROVE  RanOK'
  <1> SUFFICES ASSUME NEW x \in Reqs
               PROVE  /\ ran'[x] # "no" => \A d \in Boxes :
                           /\ At(x, queue'[d]) = {}
                           /\ cur'[d] = x => loop'[d] = "handle" /\ ran'[x] = "running"
                      /\ ran'[x] = "running" => \E d \in Boxes : cur'[d] = x /\ loop'[d] = "handle"
                      /\ \A d \in Boxes : cur'[d] = x /\ loop'[d] = "handle" => ran'[x] = "running"
    BY DEF RanOK, At
  <1> DEFINE Goal == /\ ran'[x] # "no" => \A d \in Boxes :
                           /\ At(x, queue'[d]) = {}
                           /\ cur'[d] = x => loop'[d] = "handle" /\ ran'[x] = "running"
                     /\ ran'[x] = "running" => \E d \in Boxes : cur'[d] = x
                           /\ loop'[d] = "handle"
                     /\ \A d \in Boxes : cur'[d] = x
                           /\ loop'[d] = "handle" => ran'[x] = "running"
  <1>x. x # CLOSED /\ x # NoMsg
    BY RuntimeAssumption DEF Msgs
  <1>s. Single(queue, cur, x)
    BY DEF OneSpot
  <1>r. /\ ran[x] # "no" => \A d \in Boxes :
                           /\ At(x, queue[d]) = {}
                           /\ cur[d] = x => loop[d] = "handle" /\ ran[x] = "running"
        /\ ran[x] = "running" => \E d \in Boxes : cur[d] = x /\ loop[d] = "handle"
        /\ \A d \in Boxes : cur[d] = x /\ loop[d] = "handle" => ran[x] = "running"
    BY DEF RanOK
  <1>g. ran[x] # "no" /\ (\A d \in Boxes : ~Take(d)) => \A d \in Boxes : At(x, queue'[d]) = {}
    <2>1. ran[x] # "no" => call[x] \notin {"idle", "putting"}
      BY DEF CallsOK
    <2> QED BY <1>r, <2>1, EnvelopeMoves
  <1>k. ASSUME UNCHANGED <<ran, cur>>,
            \A d \in Boxes : loop'[d] = "handle" <=> loop[d] = "handle"
        PROVE  Goal
    <2>1. ASSUME NEW d \in Boxes, Take(d) PROVE FALSE
      <3>1. /\ queue[d] \in Seq(Msgs \cup {CLOSED}) /\ queue[d] # <<>> /\ loop[d] = "get"
            /\ cur'[d] = Head(queue[d])
        BY <2>1 DEF Take, TypeOK
      <3>2. Head(queue[d]) \in Msgs \cup {CLOSED}
        BY <3>1
      <3>3. cur[d] = NoMsg
        BY <3>1 DEF Holding
      <3> QED BY <1>k, <3>1, <3>2, <3>3, RuntimeAssumption DEF Msgs
    <2> QED BY <1>g, <1>k, <1>r, <2>1
  <1>1. ASSUME NEW r \in Reqs, NEW a \in AgentIds, NEW c \in {Outside} \cup Boxes,
               Send(r, a, c)
        PROVE  Goal
    <2>1. EnsureAgents({a}) /\ closed' = closed /\ {a} \in SUBSET AgentIds /\ UNCHANGED <<cur, ran>>
      BY <1>1 DEF Send
    <2>2. \A d \in Boxes : loop'[d] = loop[d] \/ (loop[d] = "none" /\ loop'[d] = "get")
      BY <2>1, EnsureAgentsKeeps
    <2> QED BY <1>k, <2>1, <2>2
  <1>2. ASSUME NEW p \in Pubs, Publish(p) PROVE Goal
    <2>1. /\ EnsureAgents({Default[bindings[i]] : i \in DOMAIN bindings}) /\ closed' = closed
          /\ UNCHANGED <<cur, ran>>
      BY <1>2 DEF Publish
    <2>2. \A d \in Boxes : loop'[d] = loop[d] \/ (loop[d] = "none" /\ loop'[d] = "get")
      BY <2>1, DefaultsAreAgents, EnsureAgentsKeeps
    <2> QED BY <1>k, <2>1, <2>2
  <1>3. ASSUME NEW b \in Boxes, Take(b) PROVE Goal
    <2>1. queue[b] \in Seq(Msgs \cup {CLOSED}) /\ queue[b] # <<>> /\ ran' = ran
      BY <1>3 DEF Take, TypeOK
    <2>2. \A d \in Boxes :
             IF d = b THEN queue'[d] = Tail(queue[b]) /\ cur'[d] = Head(queue[b]) /\ loop'[d] = "got"
                      ELSE queue'[d] = queue[d] /\ cur'[d] = cur[d] /\ loop'[d] = loop[d]
      BY <1>3 DEF Take, TypeOK
    <2>3. /\ At(x, queue[b]) = {} => At(x, Tail(queue[b])) = {}
          /\ Head(queue[b]) = x => At(x, queue[b]) # {}
      BY <2>1, AtTail
    <2>4. loop[b] # "handle"
      BY <1>3 DEF Take
    <2> QED BY <1>r, <2>1, <2>2, <2>3, <2>4
  <1>4. ASSUME NEW b \in Boxes, Begin(b) PROVE Goal
    <2>1. /\ UNCHANGED <<cur, queue>>
          /\ ran'[x] = (IF x = cur[b] THEN "running" ELSE ran[x]) /\ loop[b] = "got"
          /\ \A d \in Boxes : loop'[d] = IF d = b THEN "handle" ELSE loop[d]
      BY <1>4 DEF Begin, TypeOK
    <2>2. CASE x = cur[b]
      BY <1>s, <2>1, <2>2 DEF Single
    <2>3. CASE x # cur[b]
      BY <1>r, <2>1, <2>3
    <2> QED BY <2>2, <2>3
  <1>5. ASSUME NEW b \in Boxes, SeeSentinel(b) PROVE Goal
    <2>1. /\ ran' = ran /\ loop[b] # "handle" /\ \A d \in Boxes : ~Take(d)
          /\ \A d \in Boxes : IF d = b THEN cur'[d] = NoMsg /\ loop'[d] = "ended"
                                       ELSE cur'[d] = cur[d] /\ loop'[d] = loop[d]
      BY <1>5 DEF SeeSentinel, Take, TypeOK
    <2> QED BY <1>x, <1>g, <1>r, <2>1
  <1>6. ASSUME NEW b \in Boxes, SeeClosed(b) PROVE Goal
    <2>1. /\ UNCHANGED <<ran, cur>> /\ loop[b] # "handle"
          /\ \A d \in Boxes : loop'[d] = IF d = b THEN "ended" ELSE loop[d]
      BY <1>6 DEF SeeClosed, TypeOK
    <2> QED BY <1>k, <2>1
  <1>7. ASSUME NEW b \in Boxes, NEW how \in {"value", "error"}, Finish(b, how) PROVE Goal
    <2>1. /\ queue' = queue /\ loop[b] = "handle"
          /\ IF x = cur[b] THEN ran'[x] \in {"ok", "error", "aborted"} ELSE ran'[x] = ran[x]
          /\ \A d \in Boxes : IF d = b THEN cur'[d] = NoMsg /\ loop'[d] = "get"
                                       ELSE cur'[d] = cur[d] /\ loop'[d] = loop[d]
      BY <1>7 DEF Finish, TypeOK
    <2>2. CASE x = cur[b]
      BY <1>x, <1>s, <2>1, <2>2 DEF Single
    <2>3. CASE x # cur[b]
      BY <1>x, <1>r, <2>1, <2>3
    <2> QED BY <2>2, <2>3
  <1>8. ASSUME NEW b \in Boxes, HandlerRaisesCancelled(b) PROVE Goal
    <2>1. /\ queue' = queue /\ loop[b] = "handle"
          /\ IF x = cur[b] THEN ran'[x] \in {"ok", "error", "aborted"} ELSE ran'[x] = ran[x]
          /\ \A d \in Boxes : IF d = b THEN cur'[d] = NoMsg /\ loop'[d] = "ended"
                                       ELSE cur'[d] = cur[d] /\ loop'[d] = loop[d]
      BY <1>8 DEF HandlerRaisesCancelled, Abort, TypeOK
    <2>2. CASE x = cur[b]
      BY <1>x, <1>s, <2>1, <2>2 DEF Single
    <2>3. CASE x # cur[b]
      BY <1>x, <1>r, <2>1, <2>3
    <2> QED BY <2>2, <2>3
  <1>9. ASSUME NEW b \in Boxes, CancelHandler(b) PROVE Goal
    <2>1. /\ queue' = queue /\ loop[b] = "handle"
          /\ IF x = cur[b] THEN ran'[x] \in {"ok", "error", "aborted"} ELSE ran'[x] = ran[x]
          /\ \A d \in Boxes : IF d = b THEN cur'[d] = NoMsg /\ loop'[d] = "ended"
                                       ELSE cur'[d] = cur[d] /\ loop'[d] = loop[d]
      BY <1>9 DEF CancelHandler, Abort, TypeOK
    <2>2. CASE x = cur[b]
      BY <1>x, <1>s, <2>1, <2>2 DEF Single
    <2>3. CASE x # cur[b]
      BY <1>x, <1>r, <2>1, <2>3
    <2> QED BY <2>2, <2>3
  <1>10. ASSUME NEW b \in Boxes, CancelGet(b) PROVE Goal
    <2>1. /\ UNCHANGED <<ran, queue>> /\ loop[b] # "handle"
          /\ \A d \in Boxes : IF d = b THEN cur'[d] = NoMsg /\ loop'[d] = "ended"
                                       ELSE cur'[d] = cur[d] /\ loop'[d] = loop[d]
      BY <1>10 DEF CancelGet, TypeOK
    <2> QED BY <1>x, <1>r, <2>1
  <1>11. CASE UNCHANGED <<ran, loop, cur>>
    BY <1>k, <1>11
  <1> QED BY <1>1, <1>2, <1>3, <1>4, <1>5, <1>6, <1>7, <1>8, <1>9, <1>10, <1>11 DEF Next,
             CallStep, LoopStep, Stop, StopWhenIdle, vars, loops, Register, Subscribe,
             SendNotFound, SendPreCancelled, PutUnblocked, Return, Timeout, TokenCancel,
             CallerCancelled, BeginStop, FinishStop

\* The state of a call agrees with its answer.
LEMMA CallsStay ==
    ASSUME TypeOK, UnsentNowhere, NestedOK, CallsOK, [Next]_vars
    PROVE  CallsOK'
  <1> SUFFICES ASSUME NEW x \in Reqs
               PROVE  /\ call'[x] \in {"idle", "putting"} => ran'[x] = "no"
                      /\ call'[x] # "returned" => out'[x] = "none"
                      /\ call'[x] \in {"putting", "waiting"} => fut'[x] # "none"
                      /\ out'[x] \in {"not_found", "closed"} =>
                           ran'[x] = "no" /\ ~Held(x)' /\ call'[x] = "returned"
    BY DEF CallsOK, Held, In
  <1>c. /\ call[x] \in {"idle", "putting"} => ran[x] = "no"
        /\ call[x] # "returned" => out[x] = "none"
        /\ call[x] \in {"putting", "waiting"} => fut[x] # "none"
        /\ out[x] \in {"not_found", "closed"} => ran[x] = "no" /\ ~Held(x) /\ call[x] = "returned"
    BY DEF CallsOK
  <1>u. call[x] \in {"idle", "putting"} => ~Held(x)
    BY DEF UnsentNowhere
  <1>h. Held(x)' => Held(x) \/ (call[x] \in {"idle", "putting"} /\ call'[x] = "waiting")
    BY HeldGains
  <1>f. fut[x] \in FutStates /\ call[x] \in CallStates
    BY DEF TypeOK
  <1>b. \A b \in Boxes : cur[b] = x => Held(x)
    BY DEF Held
  <1> HIDE DEF Held
  <1>m. \/ /\ ran'[x] = ran[x] /\ fut'[x] \in {fut[x], "pending", "cancelled"}
           /\ \/ call'[x] = call[x] /\ out'[x] = out[x]
              \/ /\ call[x] = "idle" /\ call'[x] \in {"putting", "waiting"} /\ out'[x] = out[x]
                 /\ fut'[x] = "pending"
              \/ /\ call[x] = "idle" /\ call'[x] = "returned"
                 /\ out'[x] \in {"not_found", "closed", "cancelled"}
              \/ call[x] = "putting" /\ call'[x] = "waiting" /\ out'[x] = out[x]
              \/ /\ call[x] = "waiting" /\ call'[x] = "returned"
                 /\ out'[x] = fut[x] /\ fut[x] # "pending"
              \/ /\ call[x] \in {"putting", "waiting"} /\ call'[x] = "returned"
                 /\ out'[x] \in {"timeout", "cancelled"}
        \/ /\ call'[x] = call[x] /\ out'[x] = out[x] /\ Held(x)
           /\ fut'[x] \in {fut[x], "value", "error", "silent"}
    BY <1>b, LifeMoves
  <1> QED BY <1>c, <1>u, <1>h, <1>f, <1>m DEF FutStates, CallStates

\* A future is settled as its handler ended.
LEMMA FutsStay ==
    ASSUME TypeOK, NestedOK, RanOK, FutsOK, [Next]_vars
    PROVE  FutsOK'
  <1> SUFFICES ASSUME NEW x \in Reqs
               PROVE  /\ fut'[x] = "value" => ran'[x] = "ok"
                      /\ fut'[x] = "error" => ran'[x] = "error"
                      /\ fut'[x] = "silent" => ran'[x] = "aborted"
    BY DEF FutsOK
  <1>f. /\ fut[x] = "value" => ran[x] = "ok"
        /\ fut[x] = "error" => ran[x] = "error"
        /\ fut[x] = "silent" => ran[x] = "aborted"
    BY DEF FutsOK
  <1>r. \A b \in Boxes : cur[b] = x => /\ loop[b] = "got" => ran[x] = "no"
                                       /\ loop[b] = "handle" => ran[x] = "running"
    BY DEF RanOK
  <1> QED BY <1>f, <1>r, LifeMoves

-----------------------------------------------------------------------------
(* Callers that wait are answered                                          *)

\* Outside stop, what a caller still waits for is in a mailbox or in a loop.
WaitsHeld ==
    \A r \in Reqs : call[r] = "waiting" /\ fut[r] = "pending" /\ phase # "cancelling" => Held(r)

\* Appending keeps what is in a queue.
LEMMA InAppendKeeps ==
    ASSUME NEW S, NEW s \in Seq(S), NEW e, NEW x
    PROVE  /\ In(x, s) => In(x, Append(s, e))
           /\ In(e, Append(s, e))
  <1>1. At(x, Append(s, e)) = At(x, s) \cup (IF e = x THEN {Len(s) + 1} ELSE {})
    BY AtAppend, Zenon
  <1>2. At(e, Append(s, e)) = At(e, s) \cup {Len(s) + 1}
    BY AtAppend
  <1>3. At(x, s) # {} => At(x, Append(s, e)) # {}
    BY <1>1
  <1> QED BY <1>2, <1>3, InIsAt

\* What is in a queue is its head or in the rest.
LEMMA InHeadOrTail ==
    ASSUME NEW S, NEW s \in Seq(S), s # <<>>, NEW x, In(x, s)
    PROVE  x = Head(s) \/ In(x, Tail(s))
  <1> DEFINE t == Tail(s)
             l == Len(s)
  <1>1. /\ l \in Nat /\ l # 0 /\ DOMAIN s = 1..l /\ DOMAIN t = 1..(l - 1) /\ Head(s) = s[1]
        /\ \A i \in 1..(l - 1) : t[i] = s[i + 1]
    OBVIOUS
  <1>2. PICK i \in DOMAIN s : s[i] = x
    BY DEF In
  <1> HIDE DEF t, l
  <1>3. CASE i = 1
    BY <1>1, <1>2, <1>3
  <1>4. CASE i # 1
    <2>1. i - 1 \in 1..(l - 1) /\ (i - 1) + 1 = i
      BY <1>1, <1>4
    <2>2. t[i - 1] = x
      BY <1>1, <1>2, <2>1
    <2> QED BY <1>1, <2>1, <2>2 DEF In, t
  <1> QED BY <1>3, <1>4

\* What an open future waits for is held somewhere.
LEMMA WaitsStay ==
    ASSUME TypeOK, Mailboxes, Holding, Cancelling, NestedOK, OpenFutureIsPending, WaitsHeld,
           [Next]_vars
    PROVE  WaitsHeld'
  <1> SUFFICES ASSUME NEW x \in Reqs, call'[x] = "waiting", fut'[x] = "pending",
                      phase' # "cancelling"
               PROVE  \E d \in Boxes : cur'[d] = x \/ In(x, queue'[d])
    BY DEF WaitsHeld, Held, In
  <1> DEFINE Goal == \E d \in Boxes : cur'[d] = x \/ In(x, queue'[d])
  <1>q. \A b \in Boxes : queue[b] \in Seq(Msgs \cup {CLOSED})
    BY DEF TypeOK
  <1>x. x # CLOSED /\ x # NoMsg /\ \A p \in Pubs : x # p
    BY RuntimeAssumption DEF Msgs
  <1>o. fut[x] = "pending" => x \in pend
    BY DEF OpenFutureIsPending
  <1>w. call[x] = "waiting" /\ fut[x] = "pending" /\ phase # "cancelling"
           => \E d \in Boxes : cur[d] = x \/ In(x, queue[d])
    BY DEF WaitsHeld, Held
  <1>a. ASSUME NEW e, call[x] = "waiting", fut[x] = "pending", phase # "cancelling",
               \A d \in Boxes : cur[d] = x => cur'[d] = x,
               \A d \in Boxes : queue'[d] = queue[d] \/ queue'[d] = Append(queue[d], e)
        PROVE  Goal
    <2>1. PICK d \in Boxes : cur[d] = x \/ In(x, queue[d])
      BY <1>a, <1>w
    <2>2. In(x, queue[d]) => In(x, queue'[d])
      <3>1. In(x, queue[d]) => In(x, Append(queue[d], e))
        BY <1>q, InAppendKeeps
      <3> QED BY <1>a, <3>1
    <2> QED BY <1>a, <2>1, <2>2
  <1>k. ASSUME UNCHANGED queue, call[x] = "waiting", fut[x] = "pending", phase # "cancelling",
               \A d \in Boxes : cur[d] = x => cur'[d] = x
        PROVE  Goal
    BY <1>k, <1>w
  <1>1. ASSUME NEW r \in Reqs, NEW a \in AgentIds, NEW c \in {Outside} \cup Boxes,
               Send(r, a, c)
        PROVE  Goal
    <2>1. /\ EnsureAgents({a}) /\ closed' = closed /\ {a} \in SUBSET AgentIds
          /\ UNCHANGED <<cur, phase>>
      BY <1>1 DEF Send
    <2>2. boxOf'[a] \in Boxes
      BY <2>1, EnsureAgentsKeeps
    <2>3. CASE r = x
      <3>1. queue' = [queue EXCEPT ![boxOf'[a]] = Append(@, r)]
        BY <1>1, <2>3 DEF Send, TypeOK
      <3>2. queue'[boxOf'[a]] = Append(queue[boxOf'[a]], x)
        BY <2>2, <2>3, <3>1 DEF TypeOK
      <3> QED BY <1>q, <2>2, <3>2, InAppendKeeps
    <2>4. CASE r # x
      <3>1. call[x] = "waiting" /\ fut[x] = "pending"
        BY <1>1, <2>4 DEF Send, TypeOK
      <3>2. \A d \in Boxes : queue'[d] = queue[d] \/ queue'[d] = Append(queue[d], r)
        BY <1>1 DEF Send, TypeOK
      <3> QED BY <1>a, <2>1, <3>1, <3>2
    <2> QED BY <2>3, <2>4
  <1>2. ASSUME NEW r \in Reqs, NEW a \in AgentIds, SendNotFound(r, a) PROVE Goal
    <2>1. UNCHANGED <<queue, cur, phase>> /\ call[x] = "waiting" /\ fut[x] = "pending"
      BY <1>2 DEF SendNotFound, loops, TypeOK
    <2> QED BY <1>k, <2>1
  <1>3. ASSUME NEW r \in Reqs, NEW c \in {Outside} \cup Boxes,
               SendPreCancelled(r, c)
        PROVE  Goal
    <2>1. UNCHANGED <<queue, cur, phase>> /\ call[x] = "waiting" /\ fut[x] = "pending"
      BY <1>3 DEF SendPreCancelled, loops, TypeOK
    <2> QED BY <1>k, <2>1
  <1>4. ASSUME NEW r \in Reqs, PutUnblocked(r) PROVE Goal
    <2>1. /\ queue' = [queue EXCEPT ![target[r]] = Append(@, r)] /\ call[r] = "putting"
          /\ call' = [call EXCEPT ![r] = "waiting"] /\ UNCHANGED <<cur, fut, phase>>
      BY <1>4 DEF PutUnblocked, loops
    <2>2. CASE r = x
      <3>1. target[x] \in Boxes
        BY <2>1, <2>2 DEF NestedOK
      <3>2. queue'[target[x]] = Append(queue[target[x]], x)
        BY <2>1, <2>2, <3>1 DEF TypeOK
      <3> QED BY <1>q, <3>1, <3>2, InAppendKeeps
    <2>3. CASE r # x
      <3>1. call[x] = "waiting"
        BY <2>1, <2>3 DEF TypeOK
      <3>2. \A d \in Boxes : queue'[d] = queue[d] \/ queue'[d] = Append(queue[d], r)
        BY <2>1 DEF TypeOK
      <3> QED BY <1>a, <2>1, <3>1, <3>2
    <2> QED BY <2>2, <2>3
  <1>5. ASSUME NEW r \in Reqs, Return(r) PROVE Goal
    <2>1. UNCHANGED <<queue, cur, phase>> /\ call[x] = "waiting" /\ fut[x] = "pending"
      BY <1>5 DEF Return, loops, TypeOK
    <2> QED BY <1>k, <2>1
  <1>6. ASSUME NEW r \in Reqs, Timeout(r) PROVE Goal
    <2>1. UNCHANGED <<queue, cur, phase>> /\ call[x] = "waiting" /\ fut[x] = "pending"
      BY <1>6 DEF Timeout, loops, TypeOK
    <2> QED BY <1>k, <2>1
  <1>7. ASSUME NEW r \in Reqs, TokenCancel(r) PROVE Goal
    <2>1. UNCHANGED <<queue, cur, phase>> /\ call[x] = "waiting" /\ fut[x] = "pending"
      BY <1>7 DEF TokenCancel, loops, TypeOK
    <2> QED BY <1>k, <2>1
  <1>8. ASSUME NEW r \in Reqs, CallerCancelled(r) PROVE Goal
    <2>1. UNCHANGED <<queue, cur, phase>> /\ call[x] = "waiting" /\ fut[x] = "pending"
      BY <1>8 DEF CallerCancelled, Abandoned, loops, TypeOK
    <2> QED BY <1>k, <2>1
  <1>9. ASSUME NEW p \in Pubs, Publish(p) PROVE Goal
    <2>1. UNCHANGED <<cur, call, fut, phase>>
      BY <1>9 DEF Publish, calls
    <2>2. PICK d \in Boxes : cur[d] = x \/ In(x, queue[d])
      BY <1>w, <2>1
    <2>3. In(x, queue[d]) => In(x, queue'[d])
      <3>1. PICK k \in Int : queue'[d] = queue[d] \o [i \in 1..k |-> p]
        BY <1>9, PublishAppends
      <3>2. p \in Msgs \cup {CLOSED} /\ x # p /\ queue[d] \in Seq(Msgs \cup {CLOSED})
        BY <1>q, <1>x DEF Msgs
      <3>3. At(x, queue[d] \o [i \in 1..k |-> p]) = At(x, queue[d])
        BY <3>2, AtRepeat
      <3> QED BY <3>1, <3>3, InIsAt
    <2> QED BY <2>1, <2>2, <2>3
  <1>10. ASSUME NEW b \in Boxes, Take(b) PROVE Goal
    <2>1. /\ queue[b] \in Seq(Msgs \cup {CLOSED}) /\ queue[b] # <<>> /\ loop[b] = "get"
          /\ UNCHANGED <<call, fut, phase>>
      BY <1>10 DEF Take, TypeOK, calls
    <2>2. \A d \in Boxes : IF d = b THEN queue'[d] = Tail(queue[b]) /\ cur'[d] = Head(queue[b])
                                    ELSE queue'[d] = queue[d] /\ cur'[d] = cur[d]
      BY <1>10 DEF Take, TypeOK
    <2>3. PICK d \in Boxes : cur[d] = x \/ In(x, queue[d])
      BY <1>w, <2>1
    <2>4. CASE d # b
      BY <2>2, <2>3, <2>4
    <2>5. CASE d = b
      <3>1. cur[b] # x
        BY <1>x, <2>1 DEF Holding
      <3>2. In(x, queue[b])
        BY <2>3, <2>5, <3>1
      <3>3. x = Head(queue[b]) \/ In(x, Tail(queue[b]))
        BY <2>1, <3>2, InHeadOrTail
      <3> QED BY <2>2, <2>5, <3>3
    <2> QED BY <2>4, <2>5
  <1>11. ASSUME NEW b \in Boxes, SeeSentinel(b) PROVE Goal
    <2>1. /\ queue' = [queue EXCEPT ![b] = IF IsFull(b) THEN @ ELSE Append(@, CLOSED)]
          /\ cur' = [cur EXCEPT ![b] = NoMsg] /\ cur[b] = CLOSED /\ UNCHANGED <<call, fut, phase>>
      BY <1>11 DEF SeeSentinel, calls
    <2>2. \A d \in Boxes : queue'[d] = queue[d] \/ queue'[d] = Append(queue[d], CLOSED)
      BY <2>1 DEF TypeOK
    <2>3. \A d \in Boxes : cur[d] = x => cur'[d] = x
      BY <1>x, <2>1 DEF TypeOK
    <2> QED BY <1>a, <2>1, <2>2, <2>3
  <1>12. ASSUME NEW b \in Boxes, NEW how \in {"value", "error"}, Finish(b, how) PROVE Goal
    <2>1. UNCHANGED <<queue, call, phase>> /\ \A d \in Boxes : d # b => cur'[d] = cur[d]
      BY <1>12 DEF Finish, TypeOK
    <2>2. /\ fut'[x] = IF x = cur[b] /\ x \in pend /\ fut[x] = "pending" THEN how ELSE fut[x]
          /\ how # "pending"
      BY <1>12 DEF Finish, Resolve
    <2>3. fut[x] = "pending" /\ cur[b] # x
      BY <1>o, <2>2
    <2>4. \A d \in Boxes : cur[d] = x => cur'[d] = x
      BY <2>1, <2>3
    <2> QED BY <1>k, <2>1, <2>3, <2>4
  <1>13. ASSUME NEW b \in Boxes, HandlerRaisesCancelled(b) PROVE Goal
    <2>1. UNCHANGED <<queue, call, phase>> /\ \A d \in Boxes : d # b => cur'[d] = cur[d]
      BY <1>13 DEF HandlerRaisesCancelled, Abort, TypeOK
    <2>2. /\ fut'[x] = IF x = cur[b] /\ x \in pend /\ fut[x] = "pending" THEN "silent" ELSE fut[x]
          /\ "silent" # "pending"
      BY <1>13 DEF HandlerRaisesCancelled, Resolve
    <2>3. fut[x] = "pending" /\ cur[b] # x
      BY <1>o, <2>2
    <2>4. \A d \in Boxes : cur[d] = x => cur'[d] = x
      BY <2>1, <2>3
    <2> QED BY <1>k, <2>1, <2>3, <2>4
  <1>14. ASSUME NEW b \in Boxes, CancelHandler(b) PROVE Goal
    <2>1. UNCHANGED <<queue, phase>> /\ \A d \in Boxes : d # b => cur'[d] = cur[d]
      BY <1>14 DEF CancelHandler, Abort, TypeOK
    <2>2. /\ call[x] = "waiting" /\ ~(by[x] = b)
          /\ fut'[x] = IF x = cur[b] /\ x \in pend /\ fut[x] = "pending" THEN "silent" ELSE fut[x]
      BY <1>14 DEF CancelHandler
    <2>3. fut[x] = "pending" /\ cur[b] # x
      BY <1>o, <2>2
    <2>4. \A d \in Boxes : cur[d] = x => cur'[d] = x
      BY <2>1, <2>3
    <2> QED BY <1>k, <2>1, <2>2, <2>3, <2>4
  <1>15. ASSUME NEW b \in Boxes, CancelGet(b) PROVE Goal
    <2>1. phase' = phase /\ b \in cancelled /\ loop[b] # "ended"
      BY <1>15 DEF CancelGet
    <2> QED BY <2>1 DEF Cancelling
  <1>16. CASE BeginStop
    BY <1>16 DEF BeginStop
  <1>17. CASE FinishStop
    <2>1. fut[x] = "pending" /\ x \notin pend
      BY <1>17 DEF FinishStop
    <2> QED BY <1>o, <2>1
  <1>18. CASE UNCHANGED <<queue, cur, call, fut, phase>>
    BY <1>k, <1>18
  <1> QED BY <1>1, <1>2, <1>3, <1>4, <1>5, <1>6, <1>7, <1>8, <1>9, <1>10, <1>11, <1>12, <1>13,
             <1>14, <1>15, <1>16, <1>17, <1>18 DEF Next, CallStep, LoopStep, Stop,
             StopWhenIdle, vars, loops, calls, Register, Subscribe, Begin, SeeClosed

\* The counter goes up and down with the set of handlers in progress.
LEMMA HandlersStay ==
    ASSUME TypeOK, Mailboxes, ActiveHandlersCounted, [Next]_vars
    PROVE  ActiveHandlersCounted'
  <1> DEFINE H == {d \in Boxes : loop[d] = "handle"}
             K == {d \in Boxes : loop'[d] = "handle"}
  <1> SUFFICES active' = Cardinality(K)
    BY DEF ActiveHandlersCounted
  <1>f. IsFiniteSet(H)
    <2>1. IsFiniteSet(Boxes)
      BY RuntimeAssumption, FS_Interval DEF Boxes
    <2> QED BY <2>1, FS_Subset
  <1>h. active = Cardinality(H)
    BY DEF ActiveHandlersCounted
  <1>e. ASSUME active' = active, \A d \in Boxes : loop'[d] = "handle" <=> loop[d] = "handle"
        PROVE  active' = Cardinality(K)
    <2>1. K = H
      BY <1>e
    <2> QED BY <1>e, <1>h, <2>1
  <1>l. ASSUME NEW b \in Boxes, loop[b] = "handle", active' = active - 1,
               \A d \in Boxes : IF d = b THEN loop'[d] # "handle" ELSE loop'[d] = loop[d]
        PROVE  active' = Cardinality(K)
    <2>1. K = H \ {b} /\ b \in H
      BY <1>l
    <2> HIDE DEF H, K
    <2>2. Cardinality(H \ {b}) = Cardinality(H) - 1
      BY <1>f, <2>1, FS_RemoveElement
    <2> QED BY <1>h, <1>l, <2>1, <2>2
  <1>1. ASSUME NEW r \in Reqs, NEW a \in AgentIds, NEW c \in {Outside} \cup Boxes,
               Send(r, a, c)
        PROVE  active' = Cardinality(K)
    <2>1. EnsureAgents({a}) /\ closed' = closed /\ {a} \in SUBSET AgentIds /\ active' = active
      BY <1>1 DEF Send
    <2>2. \A b \in Boxes : loop'[b] = loop[b] \/ (loop[b] = "none" /\ loop'[b] = "get")
      BY <2>1, EnsureAgentsKeeps
    <2> QED BY <1>e, <2>1, <2>2
  <1>2. ASSUME NEW p \in Pubs, Publish(p) PROVE active' = Cardinality(K)
    <2>1. /\ EnsureAgents({Default[bindings[i]] : i \in DOMAIN bindings}) /\ closed' = closed 
          /\ active' = active
      BY <1>2 DEF Publish
    <2>2. \A b \in Boxes : loop'[b] = loop[b] \/ (loop[b] = "none" /\ loop'[b] = "get")
      BY <2>1, DefaultsAreAgents, EnsureAgentsKeeps
    <2> QED BY <1>e, <2>1, <2>2
  <1>3. ASSUME NEW b \in Boxes, Take(b) PROVE active' = Cardinality(K)
    <2>1. /\ active' = active /\ loop[b] # "handle" /\ loop'[b] # "handle"
          /\ \A d \in Boxes : d # b => loop'[d] = loop[d]
      BY <1>3 DEF Take, TypeOK
    <2> QED BY <1>e, <2>1
  <1>4. ASSUME NEW b \in Boxes, Begin(b) PROVE active' = Cardinality(K)
    <2>1. /\ active' = active + 1 /\ loop[b] = "got"
          /\ \A d \in Boxes : loop'[d] = IF d = b THEN "handle" ELSE loop[d]
      BY <1>4 DEF Begin, TypeOK
    <2>2. K = H \cup {b} /\ b \notin H
      BY <2>1
    <2> HIDE DEF H, K
    <2>3. Cardinality(H \cup {b}) = Cardinality(H) + 1
      BY <1>f, <2>2, FS_AddElement
    <2> QED BY <1>h, <2>1, <2>2, <2>3
  <1>5. ASSUME NEW b \in Boxes, SeeSentinel(b) PROVE active' = Cardinality(K)
    <2>1. /\ active' = active /\ loop[b] # "handle" /\ loop'[b] # "handle"
          /\ \A d \in Boxes : d # b => loop'[d] = loop[d]
      BY <1>5 DEF SeeSentinel, TypeOK
    <2> QED BY <1>e, <2>1
  <1>6. ASSUME NEW b \in Boxes, SeeClosed(b) PROVE active' = Cardinality(K)
    <2>1. /\ active' = active /\ loop[b] # "handle" /\ loop'[b] # "handle"
          /\ \A d \in Boxes : d # b => loop'[d] = loop[d]
      BY <1>6 DEF SeeClosed, TypeOK
    <2> QED BY <1>e, <2>1
  <1>7. ASSUME NEW b \in Boxes, NEW how \in {"value", "error"},
               Finish(b, how)
        PROVE  active' = Cardinality(K)
    <2>1. /\ active' = active - 1 /\ loop[b] = "handle"
          /\ \A d \in Boxes : IF d = b THEN loop'[d] # "handle" ELSE loop'[d] = loop[d]
      BY <1>7 DEF Finish, TypeOK
    <2> QED BY <1>l, <2>1
  <1>8. ASSUME NEW b \in Boxes, HandlerRaisesCancelled(b) PROVE active' = Cardinality(K)
    <2>1. /\ active' = active - 1 /\ loop[b] = "handle"
          /\ \A d \in Boxes : IF d = b THEN loop'[d] # "handle" ELSE loop'[d] = loop[d]
      BY <1>8 DEF HandlerRaisesCancelled, Abort, TypeOK
    <2> QED BY <1>l, <2>1
  <1>9. ASSUME NEW b \in Boxes, CancelHandler(b) PROVE active' = Cardinality(K)
    <2>1. /\ active' = active - 1 /\ loop[b] = "handle"
          /\ \A d \in Boxes : IF d = b THEN loop'[d] # "handle" ELSE loop'[d] = loop[d]
      BY <1>9 DEF CancelHandler, Abort, TypeOK
    <2> QED BY <1>l, <2>1
  <1>10. ASSUME NEW b \in Boxes, CancelGet(b) PROVE active' = Cardinality(K)
    <2>1. /\ active' = active /\ loop[b] # "handle" /\ loop'[b] # "handle"
          /\ \A d \in Boxes : d # b => loop'[d] = loop[d]
      BY <1>10 DEF CancelGet, TypeOK
    <2> QED BY <1>e, <2>1
  <1>11. CASE UNCHANGED <<active, loop>>
    BY <1>e, <1>11
  <1> QED BY <1>1, <1>2, <1>3, <1>4, <1>5, <1>6, <1>7, <1>8, <1>9, <1>10, <1>11 DEF Next,
             CallStep, LoopStep, Stop, StopWhenIdle, vars, loops, Register, Subscribe,
             SendNotFound, SendPreCancelled, PutUnblocked, Return, Timeout, TokenCancel,
             CallerCancelled, BeginStop, FinishStop

-----------------------------------------------------------------------------
(* The inductive invariant, and what follows from it                       *)

IInv ==
    /\ TypeOK
    /\ UnsentNowhere /\ OpenFutureIsPending
    /\ Mailboxes /\ Bounded
    /\ Holding /\ Cancelling
    /\ OneSpot /\ NestedOK
    /\ RanOK /\ CallsOK /\ FutsOK
    /\ WaitsHeld /\ ActiveHandlersCounted

\* The invariant holds at the start.
LEMMA InitInvariant == Init => IInv
  <1> SUFFICES ASSUME Init PROVE IInv
    OBVIOUS
  <1>0. MaxBoxes \in Nat /\ Capacity \in Nat /\ (\A r \in Reqs : r # NoMsg)
    BY RuntimeAssumption
  <1>1. TypeOK
    BY <1>0 DEF Init, TypeOK, LoopStates, CallStates, FutStates, Outcomes, RunStates, Outside
  <1>2. \A r \in Reqs, b \in Boxes : At(r, queue[b]) = {} /\ cur[b] # r
    BY <1>0 DEF Init, At
  <1>3. UnsentNowhere
    BY <1>2, InIsAt DEF UnsentNowhere, Held
  <1>4. OpenFutureIsPending /\ FutsOK /\ WaitsHeld
    BY DEF Init, OpenFutureIsPending, FutsOK, WaitsHeld
  <1>5. Mailboxes
    BY <1>0 DEF Init, Mailboxes, Boxes
  <1>6. Bounded
    <2>1. Len(<<>>) = 0
      OBVIOUS
    <2> QED BY <1>0, <2>1 DEF Init, Bounded
  <1>7. Holding /\ Cancelling
    BY DEF Init, Holding, Cancelling
  <1>8. OneSpot
    BY <1>2 DEF OneSpot, Single
  <1>9. NestedOK /\ RanOK /\ CallsOK
    BY <1>2 DEF Init, NestedOK, RanOK, CallsOK
  <1>10. ActiveHandlersCounted
    <2>1. {b \in Boxes : loop[b] = "handle"} = {} /\ active = 0
      BY DEF Init
    <2> QED BY <2>1, FS_EmptySet DEF ActiveHandlersCounted
  <1> QED BY <1>1, <1>3, <1>4, <1>5, <1>6, <1>7, <1>8, <1>9, <1>10 DEF IInv

\* Every step keeps the invariant.
LEMMA Inductive == IInv /\ [Next]_vars => IInv'
  <1> SUFFICES ASSUME IInv, [Next]_vars PROVE IInv'
    OBVIOUS
  <1> USE DEF IInv
  <1>1. TypeOK' /\ OpenFutureIsPending'
    BY TypeCorrect, OpenFutureStep
  <1>2. UnsentNowhere'
    <2> SUFFICES ASSUME NEW r \in Reqs, call'[r] \in {"idle", "putting"}, Held(r)' PROVE FALSE
      BY DEF UnsentNowhere
    <2> QED BY CallMoves, HeldGains DEF UnsentNowhere
  <1>3. Mailboxes' /\ Bounded' /\ Holding' /\ Cancelling'
    BY MailboxesStay, BoundedStays, HoldingStays, CancellingStays
  <1>4. OneSpot' /\ NestedOK'
    BY OneSpotStays, NestedStays
  <1>5. RanOK' /\ CallsOK' /\ FutsOK'
    BY RanStays, CallsStay, FutsStay
  <1>6. WaitsHeld' /\ ActiveHandlersCounted'
    BY WaitsStay, HandlersStay
  <1> QED BY <1>1, <1>2, <1>3, <1>4, <1>5, <1>6

\* The invariant of the specification.
LEMMA Invariance == Spec => []IInv
  BY InitInvariant, Inductive, PTL DEF Spec

\* One member at most.
LEMMA AtMostOne ==
    ASSUME NEW S, \A x, y \in S : x = y
    PROVE  /\ S = {} => Cardinality(S) = 0
           /\ S # {} => Cardinality(S) = 1
  <1>1. CASE S = {}
    BY <1>1, FS_EmptySet
  <1>2. CASE S # {}
    <2>1. PICK x \in S : TRUE
      BY <1>2
    <2>2. S = {x}
      BY <2>1
    <2> QED BY <2>2, FS_Singleton
  <1> QED BY <1>1, <1>2

\* The places of an envelope, counted.
LEMMA PlacesCounted ==
    ASSUME IInv, NEW r \in Reqs
    PROVE  Places(r) = IF Held(r) THEN 1 ELSE 0
  <1> DEFINE P == {x \in Boxes \X (1..(Capacity + 1)) :
                      x[2] \in DOMAIN queue[x[1]] /\ queue[x[1]][x[2]] = r}
             C == {b \in Boxes : cur[b] = r}
  <1>1. Single(queue, cur, r)
    BY DEF IInv, OneSpot
  <1>2. \A x \in P : \E b \in Boxes : \E i \in At(r, queue[b]) : x = <<b, i>>
    BY DEF At
  <1>3. \A x, y \in P : x = y
    BY <1>1, <1>2 DEF Single
  <1>4. \A b, c \in C : b = c
    BY <1>1 DEF Single
  <1>5. C # {} => P = {}
    BY <1>1, <1>2 DEF Single
  <1>6. ASSUME NEW b \in Boxes, NEW i \in At(r, queue[b]) PROVE <<b, i>> \in P
    <2> DEFINE l == Len(queue[b])
    <2>1. /\ l \in Nat /\ l <= Capacity /\ DOMAIN queue[b] = 1..l
      BY DEF IInv, Bounded, TypeOK
    <2>2. Capacity \in Nat
      BY RuntimeAssumption
    <2>3. i \in DOMAIN queue[b] /\ queue[b][i] = r
      BY <1>6 DEF At
    <2> HIDE DEF l
    <2>4. i \in 1..(Capacity + 1)
      BY <2>1, <2>2, <2>3
    <2> QED BY <2>3, <2>4
  <1>7. Held(r) <=> P # {} \/ C # {}
    <2>1. Held(r) <=> \E b \in Boxes : cur[b] = r \/ At(r, queue[b]) # {}
      BY InIsAt DEF Held
    <2> QED BY <1>2, <1>6, <2>1
  <1>8. Places(r) = Cardinality(P) + Cardinality(C)
    BY DEF Places
  <1> HIDE DEF P, C
  <1>9. /\ P = {} => Cardinality(P) = 0
        /\ P # {} => Cardinality(P) = 1
    BY <1>3, AtMostOne
  <1>10. /\ C = {} => Cardinality(C) = 0
         /\ C # {} => Cardinality(C) = 1
    BY <1>4, AtMostOne
  <1> QED BY <1>5, <1>7, <1>8, <1>9, <1>10

\* The invariant gives the property.
LEMMA FollowsNothingIsMislaid == IInv => NothingIsMislaid
  <1> SUFFICES ASSUME IInv PROVE NothingIsMislaid
    OBVIOUS
  <1>1. DeliveredOnce
    <2> SUFFICES ASSUME NEW r \in Reqs
                 PROVE  /\ Places(r) <= 1
                        /\ ran[r] \in {"ok", "error", "aborted"} => Places(r) = 0
                        /\ ran[r] = "running" => \E b \in Boxes : cur[b] = r /\ loop[b] = "handle"
      BY DEF DeliveredOnce
    <2>1. Places(r) = IF Held(r) THEN 1 ELSE 0
      BY PlacesCounted
    <2>2. ran[r] \in {"ok", "error", "aborted"} => ~Held(r)
      BY InIsAt DEF IInv, RanOK, Held
    <2>3. ran[r] = "running" => \E b \in Boxes : cur[b] = r /\ loop[b] = "handle"
      BY DEF IInv, RanOK
    <2> QED BY <2>1, <2>2, <2>3
  <1>2. WaitingCallIsHeld
    <2> SUFFICES ASSUME NEW r \in Reqs, call[r] = "waiting", fut[r] = "pending",
                        phase # "cancelling"
                 PROVE  r \in pend /\ Places(r) = 1
      BY DEF WaitingCallIsHeld
    <2>1. Held(r) /\ r \in pend
      BY DEF IInv, WaitsHeld, OpenFutureIsPending
    <2> QED BY <2>1, PlacesCounted
  <1>3. ActiveHandlersCounted
    BY DEF IInv
  <1>4. StartedAgentHasMailbox
    BY DEF IInv, Mailboxes, Bounded, StartedAgentHasMailbox
  <1> QED BY <1>1, <1>2, <1>3, <1>4 DEF NothingIsMislaid

\* Whatever the order of calls, publications, timeouts, cancellations and stops:
\* an envelope is in one place at a time and nowhere once its handler has ended;
\* outside stop, a caller whose future is open waits for an envelope that is held;
\* the counter of handlers is right; started agents have open mailboxes of their
\* own, within capacity.
THEOREM EnvelopesAreKept == Spec => []NothingIsMislaid
  BY Invariance, FollowsNothingIsMislaid, PTL

\* stop_when_idle leaves no call unanswered: it stops only when no future is open.
THEOREM IdleStopIsQuiet == Spec => IdleStopAnswersEveryCall
  <1> DEFINE Quiet == StopWhenIdle => \A r \in Reqs : \/ call[r] \in {"idle", "returned"}
                                                      \/ fut[r] # "pending"
  <1>1. IInv /\ [Next]_vars => [Quiet]_vars
    BY DEF IInv, OpenFutureIsPending, StopWhenIdle, Idle
  <1>2. Spec => [][Quiet]_vars
    BY <1>1, Invariance, PTL DEF Spec
  <1> QED BY <1>2 DEF IdleStopAnswersEveryCall

-----------------------------------------------------------------------------
(* The runtime implements CallPromise                                      *)

\* Where CallPromise sees the call of r.
Stage(c) == CASE c = "idle"     -> "new"
              [] c = "returned" -> "answered"
              [] OTHER          -> "open"

Life(r) == [call |-> Stage(call[r]), ran |-> ran[r], out |-> out[r]]

\* A call's life is one of the contract's states.
LEMMA LifeIsState ==
    ASSUME NEW c \in CallStates, NEW h \in RunStates, NEW o \in Outcomes
    PROVE  [call |-> Stage(c), ran |-> h, out |-> o] \in Promise!State
  <1>1. Stage(c) \in Promise!Calls
    BY DEF Stage, CallStates, Promise!Calls
  <1> QED BY <1>1
      DEF RunStates, Outcomes, Promise!State, Promise!Handlers, Promise!Answers

\* A step of the runtime is, for each call, a move of the contract or none.
LEMMA LifeIsPromised ==
    ASSUME IInv, [Next]_vars, NEW x \in Reqs
    PROVE  Life(x)' = Life(x) \/ Promise!Move(Life(x), Life(x)')
  <1>c. /\ call[x] \in {"idle", "putting"} => ran[x] = "no" /\ ~Held(x)
        /\ call[x] # "returned" => out[x] = "none"
        /\ call[x] \in {"putting", "waiting"} => fut[x] # "none"
        /\ out[x] \in {"not_found", "closed"} => ~Held(x)
    BY DEF IInv, CallsOK, UnsentNowhere
  <1>f. /\ fut[x] = "value" => ran[x] = "ok"
        /\ fut[x] = "error" => ran[x] = "error"
        /\ fut[x] = "silent" => ran[x] = "aborted"
        /\ fut[x] \in FutStates
    BY DEF IInv, FutsOK, TypeOK
  <1>r. \A b \in Boxes : cur[b] = x => /\ Held(x)
                                       /\ loop[b] = "got" => ran[x] = "no"
                                       /\ loop[b] = "handle" => ran[x] = "running"
    BY DEF IInv, RanOK, Held
  <1>l. Life(x)' = [call |-> Stage(call'[x]), ran |-> ran'[x], out |-> out'[x]]
    BY DEF Life
  <1> DEFINE s == Life(x)
             t == Life(x)'
  <1>1. CASE ran'[x] = ran[x] /\ call'[x] = call[x] /\ out'[x] = out[x]
    BY <1>1, <1>l DEF Life
  <1>2. CASE /\ ran'[x] = ran[x] /\ out'[x] = out[x]
             /\ call[x] = "idle" /\ call'[x] \in {"putting", "waiting"}
    <2>1. Promise!Open(s, t)
      BY <1>2, <1>c, <1>l DEF Life, Stage, Promise!Open, Promise!Fresh
    <2> QED BY <2>1 DEF Promise!Move
  <1>3. CASE /\ ran'[x] = ran[x] /\ call[x] = "idle" /\ call'[x] = "returned"
             /\ out'[x] \in {"not_found", "closed", "cancelled"}
    <2>1. s = Promise!Fresh
      BY <1>3, <1>c DEF Life, Stage, Promise!Fresh
    <2>2. t = Promise!Answered(s, out'[x])
      BY <1>3, <1>l DEF Life, Stage, Promise!Answered
    <2>3. Promise!Refuse(s, t)
      BY <1>3, <2>1, <2>2 DEF Promise!Refuse
    <2> QED BY <2>3 DEF Promise!Move
  <1>4. CASE /\ ran'[x] = ran[x] /\ out'[x] = out[x]
             /\ call[x] = "putting" /\ call'[x] = "waiting"
    BY <1>4, <1>l DEF Life, Stage
  <1>5. CASE /\ ran'[x] = ran[x] /\ call[x] \in {"putting", "waiting"} /\ call'[x] = "returned"
             /\ \/ out'[x] = fut[x] /\ fut[x] # "pending"
                \/ out'[x] \in {"timeout", "cancelled"}
    <2>1. out'[x] \in Promise!Reported(ran[x]) \cup {"timeout", "cancelled"}
      BY <1>5, <1>c, <1>f DEF FutStates, Promise!Reported
    <2>2. s.call = "open" /\ s.ran = ran[x] /\ t = Promise!Answered(s, out'[x])
      BY <1>5, <1>l DEF Life, Stage, Promise!Answered
    <2>3. Promise!Answer(s, t)
      <3> HIDE DEF s, t
      <3> QED BY <2>1, <2>2 DEF Promise!Answer
    <2> QED BY <2>3 DEF Promise!Move
  <1>6. CASE /\ call'[x] = call[x] /\ out'[x] = out[x]
             /\ \E b \in Boxes : cur[b] = x /\ loop[b] = "got" /\ ran'[x] = "running"
    <2>1. call[x] # "idle" /\ ran[x] = "no" /\ out[x] \notin {"not_found", "closed"}
      BY <1>6, <1>c, <1>r
    <2>2. Promise!StartHandler(s, t)
      BY <1>6, <1>l, <2>1 DEF Life, Stage, Promise!StartHandler, Promise!Refused
    <2> QED BY <2>2 DEF Promise!Move
  <1>7. CASE /\ call'[x] = call[x] /\ out'[x] = out[x]
             /\ \E b \in Boxes : cur[b] = x /\ loop[b] = "handle"
             /\ ran'[x] \in {"ok", "error", "aborted"}
    <2>1. ran[x] = "running"
      BY <1>7, <1>r
    <2>2. Promise!EndHandler(s, t)
      BY <1>7, <1>l, <2>1 DEF Life, Promise!EndHandler
    <2> QED BY <2>2 DEF Promise!Move
  <1>8. TypeOK /\ NestedOK
    BY DEF IInv
  <1> HIDE DEF s, t
  <1> QED BY <1>1, <1>2, <1>3, <1>4, <1>5, <1>6, <1>7, <1>8, LifeMoves

\* send_message keeps its promise: a call is answered once, its handler runs at most
\* once and only for an admitted call, and an answer that reports how a handler
\* ended reports how the handler of this very call ended.
THEOREM CallsKeepTheirPromise == Spec => KeepsPromise
  <1> DEFINE life == [r \in Reqs |->
                [call |-> CASE call[r] = "idle"     -> "new"
                            [] call[r] = "returned" -> "answered"
                            [] OTHER                -> "open",
                 ran  |-> ran[r],
                 out  |-> out[r]]]
  <1>1. Init => Promise!Init
    BY DEF Init, Promise!Init, Promise!Fresh
  <1>2. IInv /\ [Next]_vars /\ IInv' => [Promise!Next]_life
    <2> SUFFICES ASSUME IInv, [Next]_vars, IInv' PROVE Promise!Next
      OBVIOUS
    <2>1. /\ life = [r \in Reqs |-> Life(r)]
          /\ life' = [r \in Reqs |-> Life(r)']
      BY DEF Life, Stage
    <2>2. \A r \in Reqs : Life(r)' \in Promise!State
      <3>1. \A r \in Reqs : call'[r] \in CallStates /\ ran'[r] \in RunStates /\ out'[r] \in Outcomes
        BY DEF IInv, TypeOK
      <3> QED BY <3>1, LifeIsState DEF Life
    <2>3. \A r \in Reqs : Life(r)' = Life(r) \/ Promise!Move(Life(r), Life(r)')
      BY LifeIsPromised
    <2> QED BY <2>1, <2>2, <2>3 DEF Promise!Next
  <1> QED BY <1>1, <1>2, Invariance, PTL DEF Spec, KeepsPromise, Promise!Spec
=============================================================================
