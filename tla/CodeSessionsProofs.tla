------------------------- MODULE CodeSessionsProofs -------------------------
(***************************************************************************)
(* What holds of CodeSessions for any sessions, clients and VMs.  The VMs   *)
(* that exist are laid out over the pool, the sessions and the lists of     *)
(* those that are destroyed, each in one place (Lay); a step moves at most  *)
(* a few of them, and the account of the pool follows by counting.          *)
(***************************************************************************)
EXTENDS CodeSessions, Integers, SequenceTheorems, FunctionTheorems, FiniteSetTheorems, TLAPS

USE CodeAssumption
USE DEF client, vars

Distinct(q) == \A i, j \in 1..Len(q) : q[i] = q[j] => i = j

-----------------------------------------------------------------------------
(* Sequences of VMs, and the sets of their elements.                        *)

\* The elements of a sequence.
LEMMA ElementsAre ==
    ASSUME NEW S, NEW q \in Seq(S)
    PROVE  InSequence(q) \subseteq S /\ (InSequence(q) = {} <=> q = <<>>)
<1>1. Len(q) \in Nat /\ \A i \in 1..Len(q) : q[i] \in S
  BY LenProperties, ElementOfSeq
<1>2. q # <<>> => 1 \in 1..Len(q)
  <2>1. q # <<>> => Len(q) # 0
    BY EmptySeq
  <2> QED BY <1>1, <2>1
<1>3. q = <<>> => InSequence(q) = {}
  BY DEF InSequence
<1> QED BY <1>1, <1>2, <1>3 DEF InSequence

\* The rest of a queue, without its head.
LEMMA TailIs ==
    ASSUME NEW S, NEW q \in Seq(S), q # <<>>
    PROVE  /\ Tail(q) \in Seq(S) /\ Head(q) \in S
           /\ InSequence(q) = InSequence(Tail(q)) \cup {Head(q)}
           /\ Distinct(q) => Distinct(Tail(q)) /\ Head(q) \notin InSequence(Tail(q))
<1> DEFINE t == Tail(q)
           h == Head(q)
<1>1. /\ t \in Seq(S) /\ h \in S /\ h = q[1] /\ Len(q) \in Nat /\ Len(t) = Len(q) - 1
      /\ \A i \in 1..Len(t) : t[i] = q[i + 1]
  BY HeadTailProperties, LenProperties
<1>2. Len(q) # 0
  BY EmptySeq
<1> HIDE DEF t, h
<1>3. \A i \in 1..Len(t) : i + 1 \in 1..Len(q)
  BY <1>1
<1>4. 1 \in 1..Len(q) /\ \A i \in 1..Len(q) : i # 1 => i - 1 \in 1..Len(t) /\ (i - 1) + 1 = i
  BY <1>1, <1>2
<1>5. InSequence(q) = InSequence(t) \cup {h}
  <2>1. ASSUME NEW i \in 1..Len(t) PROVE t[i] \in InSequence(q)
    BY <1>1, <1>3 DEF InSequence
  <2>2. h \in InSequence(q)
    BY <1>1, <1>4 DEF InSequence
  <2>3. ASSUME NEW i \in 1..Len(q) PROVE q[i] = h \/ q[i] \in InSequence(t)
    <3>1. CASE i = 1
      BY <1>1, <3>1
    <3>2. CASE i # 1
      <4>1. t[i - 1] = q[i]
        BY <1>1, <1>4, <3>2
      <4> QED BY <1>4, <3>2, <4>1 DEF InSequence
    <3> QED BY <3>1, <3>2
  <2> QED BY <2>1, <2>2, <2>3 DEF InSequence
<1>6. ASSUME Distinct(q) PROVE Distinct(t) /\ h \notin InSequence(t)
  <2>1. ASSUME NEW i \in 1..Len(t), NEW j \in 1..Len(t), t[i] = t[j] PROVE i = j
    <3>1. q[i + 1] = q[j + 1] /\ i + 1 \in 1..Len(q) /\ j + 1 \in 1..Len(q)
      BY <1>1, <1>3, <2>1
    <3>2. i + 1 = j + 1
      BY <1>6, <3>1 DEF Distinct
    <3> QED BY <1>1, <3>2
  <2>2. ASSUME NEW i \in 1..Len(t), t[i] = h PROVE FALSE
    <3>1. q[i + 1] = q[1] /\ i + 1 \in 1..Len(q)
      BY <1>1, <1>3, <2>2
    <3>2. i + 1 = 1
      BY <1>4, <1>6, <3>1 DEF Distinct
    <3> QED BY <1>1, <3>2
  <2> QED BY <2>1, <2>2 DEF Distinct, InSequence
<1> QED BY <1>1, <1>5, <1>6 DEF t, h

\* A queue with one more.
LEMMA AppendIs ==
    ASSUME NEW S, NEW q \in Seq(S), NEW x \in S
    PROVE  /\ Append(q, x) \in Seq(S)
           /\ InSequence(Append(q, x)) = InSequence(q) \cup {x}
           /\ Distinct(q) /\ x \notin InSequence(q) => Distinct(Append(q, x))
<1> DEFINE a == Append(q, x)
<1>1. /\ a \in Seq(S) /\ Len(q) \in Nat /\ Len(a) = Len(q) + 1 /\ a[Len(q) + 1] = x
      /\ \A i \in 1..Len(q) : a[i] = q[i]
  BY AppendProperties, LenProperties
<1> HIDE DEF a
<1>2. 1..Len(a) = (1..Len(q)) \cup {Len(q) + 1}
  BY <1>1
<1>3. InSequence(a) = InSequence(q) \cup {x}
  BY <1>1, <1>2 DEF InSequence
<1>4. ASSUME Distinct(q), x \notin InSequence(q) PROVE Distinct(a)
  <2>1. \A i \in 1..Len(q) : q[i] # x
    BY <1>4 DEF InSequence
  <2> QED BY <1>1, <1>2, <1>4, <2>1 DEF Distinct
<1> QED BY <1>1, <1>3, <1>4 DEF a

\* Queues of no and of one element.
LEMMA ShortIs ==
    /\ \A S : <<>> \in Seq(S)
    /\ InSequence(<<>>) = {} /\ Distinct(<<>>)
    /\ \A S : \A x \in S : <<x>> \in Seq(S) /\ InSequence(<<x>>) = {x} /\ Distinct(<<x>>)
<1>1. \A S : <<>> \in Seq(S)
  BY EmptySeq
<1>2. InSequence(<<>>) = {} /\ Distinct(<<>>)
  BY DEF InSequence, Distinct
<1>3. ASSUME NEW S, NEW x \in S PROVE <<x>> \in Seq(S) /\ InSequence(<<x>>) = {x} /\ Distinct(<<x>>)
  <2>1. Len(<<x>>) = 1 /\ <<x>>[1] = x /\ <<x>> \in Seq(S)
    OBVIOUS
  <2> QED BY <2>1 DEF InSequence, Distinct
<1> QED BY <1>1, <1>2, <1>3

\* The cardinality of an interval.
LEMMA UpTo == \A n \in Nat : IsFiniteSet(1..n) /\ Cardinality(1..n) = n
<1>1. \A a, b \in Int : IsFiniteSet(a..b) /\ Cardinality(a..b) = IF a > b THEN 0 ELSE b - a + 1
  BY FS_Interval, Zenon
<1>2. ASSUME NEW n \in Nat PROVE (IF 1 > n THEN 0 ELSE n - 1 + 1) = n /\ n \in Int /\ 1 \in Int
  OBVIOUS
<1> QED BY <1>1, <1>2

\* Every order of a set has each of its elements once.
LEMMA OrderIs ==
    ASSUME NEW S, IsFiniteSet(S), NEW q \in Orders(S)
    PROVE  q \in Seq(S) /\ InSequence(q) = S /\ Distinct(q)
<1> DEFINE n == Cardinality(S)
<1>1. n \in Nat
  BY FS_CardinalityType
<1>2. q \in [1..n -> S] /\ InSequence(q) = S
  BY DEF Orders
<1> HIDE DEF n
<1>3. q \in Seq(S) /\ Len(q) = n
  BY <1>1, <1>2, IsASeq, LenProperties
<1>4. \A t \in S : \E i \in 1..n : q[i] = t
  BY <1>2, <1>3 DEF InSequence
<1>5. q \in Surjection(1..n, S)
  BY <1>2, <1>4, Fun_IsSurj
<1>6. IsFiniteSet(1..n) /\ Cardinality(1..n) = n
  BY <1>1, UpTo
<1>7. q \in Injection(1..n, S)
  BY <1>5, <1>6, FS_SurjSameCardinalityImpliesInj DEF n
<1>8. \A i, j \in 1..n : q[i] = q[j] => i = j
  BY <1>7, Fun_InjectionProperties
<1> QED BY <1>2, <1>3, <1>8 DEF Distinct

\* Two sets in bijection have as many elements.
LEMMA OneToOne ==
    ASSUME NEW S, NEW T, IsFiniteSet(T), NEW f \in [S -> T],
           \A a, b \in S : f[a] = f[b] => a = b,
           \A t \in T : \E s \in S : f[s] = t
    PROVE  IsFiniteSet(S) /\ Cardinality(S) = Cardinality(T)
<1>1. f \in Injection(S, T)
  BY Fun_IsInj
<1>2. f \in Surjection(S, T)
  BY Fun_IsSurj
<1> QED BY <1>1, <1>2, FS_Injection

\* A set of equal elements has one.
LEMMA OneElement ==
    ASSUME NEW S, \A a, b \in S : a = b
    PROVE  S # {} => Cardinality(S) = 1
<1> SUFFICES ASSUME S # {} PROVE Cardinality(S) = 1
  OBVIOUS
<1>1. PICK x : x \in S
  OBVIOUS
<1>2. S = {x}
  BY <1>1
<1>3. Cardinality({x}) = 1
  BY FS_Singleton
<1> QED BY <1>2, <1>3

\* A sequence without repetitions is as long as the set of its elements is large.
LEMMA LengthIs ==
    ASSUME NEW S, IsFiniteSet(S), NEW q \in Seq(S), Distinct(q)
    PROVE  IsFiniteSet(InSequence(q)) /\ Cardinality(InSequence(q)) = Len(q)
<1> DEFINE n == Len(q)
<1>1. n \in Nat /\ q \in [1..n -> S] /\ InSequence(q) \subseteq S
  BY LenProperties, ElementsAre
<1>2. IsFiniteSet(InSequence(q))
  BY <1>1, FS_Subset
<1>3. \A t \in InSequence(q) : \E i \in 1..n : q[i] = t
  BY DEF InSequence
<1>4. q \in [1..n -> InSequence(q)]
  BY <1>1 DEF InSequence
<1>5. \A i, j \in 1..n : q[i] = q[j] => i = j
  BY DEF Distinct
<1> DEFINE I == 1..n
           E == InSequence(q)
           f == q
<1> HIDE DEF n
<1>6. /\ IsFiniteSet(E) /\ f \in [I -> E]
      /\ (\A i, j \in I : f[i] = f[j] => i = j) /\ (\A t \in E : \E i \in I : f[i] = t)
  BY <1>2, <1>3, <1>4, <1>5
<1> HIDE DEF I, E, f
<1>8. Cardinality(I) = Cardinality(E)
  <2>1. f \in Injection(I, E) /\ f \in Surjection(I, E)
    BY <1>6, Fun_IsInj, Fun_IsSurj
  <2> QED BY <1>6, <2>1, FS_Injection
<1>7. Cardinality(1..n) = n
  BY <1>1, UpTo
<1> QED BY <1>2, <1>7, <1>8 DEF n, I, E

-----------------------------------------------------------------------------
(* The places of the VMs: P in the pool, D destroyed, S in sessions.         *)

Lay(P, D, S, V) ==
    /\ \A s \in Sessions : S[s] \notin P
    /\ \A d \in Destroyers : D[d] \cap P = {} /\ \A s \in Sessions : S[s] \notin D[d]
    /\ \A d, e \in Destroyers : d # e => D[d] \cap D[e] = {}
    /\ \A s, t \in Sessions : S[s] # NoVM /\ S[s] = S[t] => s = t
    /\ \A v \in VMs : V[v] # "none" <=>
            v \in P \/ (\E s \in Sessions : S[s] = v) \/ (\E d \in Destroyers : v \in D[d])
    /\ \A v \in VMs : v \in P \/ (\E s \in Sessions : S[s] = v) => V[v] \in {"ready", "crashed"}

Laid(P, D, S, V) ==
    /\ P \subseteq VMs /\ D \in [Destroyers -> SUBSET VMs]
    /\ S \in [Sessions -> VMs \cup {NoVM}]
    /\ V \in [VMs -> {"none", "ready", "crashed", "stopping"}]
    /\ Lay(P, D, S, V)

\* A session forgets its VM, and nobody remembers it.
LEMMA Forgets ==
    ASSUME NEW P, NEW D, NEW S, NEW V, Laid(P, D, S, V), NEW s \in Sessions, S[s] # NoVM
    PROVE  Lay(P, D, [S EXCEPT ![s] = NoVM], [V EXCEPT ![S[s]] = "none"])
  BY DEF Laid, Lay

\* A session gets a VM of the pool.
LEMMA Takes ==
    ASSUME NEW P, NEW D, NEW S, NEW V, Laid(P, D, S, V), NEW s \in Sessions, S[s] = NoVM,
           NEW v \in P
    PROVE  Lay(P \ {v}, D, [S EXCEPT ![s] = v], V)
  BY DEF Laid, Lay

\* A VM of the pool is thrown away.
LEMMA Discards ==
    ASSUME NEW P, NEW D, NEW S, NEW V, Laid(P, D, S, V), NEW v \in P
    PROVE  Lay(P \ {v}, D, S, [V EXCEPT ![v] = "none"])
  BY DEF Laid, Lay

\* Sessions leave their VMs to d, who has no other ones.
LEMMA Dooms ==
    ASSUME NEW P, NEW D, NEW S, NEW V, Laid(P, D, S, V), NEW d \in Destroyers, D[d] = {},
           NEW X \in SUBSET {s \in Sessions : S[s] # NoVM}
    PROVE  Lay(P, [D EXCEPT ![d] = {S[s] : s \in X}],
               [s \in Sessions |-> IF s \in X THEN NoVM ELSE S[s]], V)
  BY DEF Laid, Lay

\* d destroys one of its VMs.
LEMMA Destroys ==
    ASSUME NEW P, NEW D, NEW S, NEW V, Laid(P, D, S, V), NEW d \in Destroyers, NEW v \in D[d]
    PROVE  Lay(P, [D EXCEPT ![d] = @ \ {v}], S, [V EXCEPT ![v] = "none"])
  BY DEF Laid, Lay

\* A new VM comes to the pool.
LEMMA Boots ==
    ASSUME NEW P, NEW D, NEW S, NEW V, Laid(P, D, S, V), NEW v \in VMs, V[v] = "none"
    PROVE  Lay(P \cup {v}, D, S, [V EXCEPT ![v] = "ready"])
  BY DEF Laid, Lay

\* A VM dies by itself, or is told to shut down.
LEMMA Dies ==
    ASSUME NEW P, NEW D, NEW S, NEW V, Laid(P, D, S, V), NEW v \in VMs, V[v] # "none",
           NEW x \in {"crashed", "stopping"}, x = "stopping" => \E d \in Destroyers : v \in D[d]
    PROVE  Lay(P, D, S, [V EXCEPT ![v] = x])
  BY DEF Laid, Lay

-----------------------------------------------------------------------------
(* Types, the lock and the lists.                                           *)

Typed ==
    /\ vm \in [VMs -> {"none", "ready", "crashed", "stopping"}]
    /\ served \in [VMs -> SUBSET Sessions]
    /\ pool \in Seq(VMs)
    /\ boots \in Nat /\ lost \in Nat
    /\ sessions \in [Sessions -> VMs \cup {NoVM}]
    /\ idle \subseteq Open
    /\ lock \in Clients \cup {Nobody}
    /\ pc \in [Clients -> {"none", "asking", "deleting", "acquiring", "running", "destroying"}]
    /\ on \in [Clients -> Sessions]
    /\ at \in [Clients -> VMs \cup {NoVM}]
    /\ doomed \in [Destroyers -> Seq(VMs)]
    /\ asked \in 0..MaxRequests
    /\ phase \in {"up", "stopping", "down"}
    /\ deaths \in 0..MaxDeaths

Fewer == Cardinality(Open) <= MaxSessions

\* The type invariant is the types and the bound on sessions.
LEMMA TypesAre == TypeOK <=> Typed /\ Fewer
  BY DEF TypeOK, Typed, Fewer

\* What a destroyer has still to stop.
LEMMA DoomedAre ==
    ASSUME Typed, NEW d \in Destroyers
    PROVE  /\ doomed[d] \in Seq(VMs) /\ InSequence(doomed[d]) \subseteq VMs
           /\ doomed[d] # <<>> => /\ Tail(doomed[d]) \in Seq(VMs) /\ Head(doomed[d]) \in VMs
                                  /\ Head(doomed[d]) \in InSequence(doomed[d])
<1>1. doomed[d] \in Seq(VMs)
  BY DEF Typed
<1> QED BY <1>1, ElementsAre, TailIs

\* The VMs of sessions that are evicted together, in the order they are destroyed.
LEMMA OrdersAre ==
    ASSUME Typed, NEW X \in SUBSET Open, NEW q \in Orders({sessions[s] : s \in X})
    PROVE  q \in Seq(VMs) /\ InSequence(q) = {sessions[s] : s \in X} /\ Distinct(q)
<1> DEFINE S == {sessions[s] : s \in X}
<1>1. S \subseteq VMs
  BY DEF Typed, Open
<1>2. IsFiniteSet(S)
  BY <1>1, FS_Subset
<1> HIDE DEF S
<1>3. q \in Orders(S)
  BY DEF S
<1>4. q \in Seq(S) /\ InSequence(q) = S /\ Distinct(q)
  BY <1>2, <1>3, OrderIs
<1>5. q \in Seq(VMs)
  <2>1. Len(q) \in Nat /\ q \in [1..Len(q) -> S]
    BY <1>4, LenProperties
  <2>2. q \in [1..Len(q) -> VMs]
    BY <1>1, <2>1
  <2> QED BY <2>1, <2>2, IsASeq
<1> QED BY <1>4, <1>5 DEF S

\* Every step keeps the types.
LEMMA TypesStay == ASSUME Typed, [Next]_vars PROVE Typed'
<1>1. ASSUME NEW c \in Clients, Ask(c) PROVE Typed'
  BY <1>1 DEF Ask, Typed, Open, Run
<1>2. ASSUME NEW c \in Clients, Reuse(c) PROVE Typed'
  BY <1>2 DEF Reuse, Typed, Open, Run
<1>3. ASSUME NEW c \in Clients, Create(c) PROVE Typed'
  <2>1. /\ on[c] \in Sessions /\ sessions' = [sessions EXCEPT ![on[c]] = NoVM] /\ idle' = idle \ {on[c]}
        /\ UNCHANGED <<served, pool, boots, on, at, asked, doomed, phase, deaths>>
    BY <1>3 DEF Create, Typed
  <2>2. idle' \subseteq Open'
    BY <2>1 DEF Typed, Open
  <2>3. vm' \in [VMs -> {"none", "ready", "crashed", "stopping"}] /\ lost' \in Nat
    BY <1>3, <2>1 DEF Create, Typed
  <2>4. /\ pc' \in [Clients ->
                      {"none", "asking", "deleting", "acquiring", "running", "destroying"}]
        /\ lock' \in Clients \cup {Nobody}
    BY <1>3 DEF Create, Typed
  <2>5. sessions' \in [Sessions -> VMs \cup {NoVM}]
    BY <2>1 DEF Typed
  <2> QED BY <2>1, <2>2, <2>3, <2>4, <2>5 DEF Typed
<1>4. ASSUME NEW c \in Clients, Acquire(c) PROVE Typed'
  <2>1. Tail(pool) \in Seq(VMs) /\ Head(pool) \in VMs
    BY <1>4, TailIs DEF Acquire, Typed
  <2>2. CASE vm[Head(pool)] = "ready"
    <3> DEFINE v == Head(pool)
    <3>1. /\ pool' = Tail(pool) /\ on[c] \in Sessions /\ sessions' = [sessions EXCEPT ![on[c]] = v]
          /\ pc' = [pc EXCEPT ![c] = "running"] /\ at' = [at EXCEPT ![c] = v] /\ lock' = Nobody
          /\ served' = [served EXCEPT ![v] = @ \cup {on[c]}]
          /\ UNCHANGED <<vm, boots, lost, idle, on, asked, doomed, phase, deaths>>
      BY <1>4, <2>2 DEF Acquire, Run, Typed
    <3> HIDE DEF v
    <3>2. v \in VMs /\ v # NoVM
      BY <2>1 DEF v
    <3>3. idle' \subseteq Open' /\ sessions' \in [Sessions -> VMs \cup {NoVM}]
      BY <3>1, <3>2 DEF Typed, Open
    <3>4. served' \in [VMs -> SUBSET Sessions]
      BY <3>1, <3>2 DEF Typed
    <3> QED BY <2>1, <3>1, <3>2, <3>3, <3>4 DEF Typed
  <2>3. CASE vm[Head(pool)] # "ready"
    BY <1>4, <2>1, <2>3 DEF Acquire, Typed, Open
  <2> QED BY <2>2, <2>3
<1>5. ASSUME NEW c \in Clients, AcquireTimeout(c) PROVE Typed'
  BY <1>5 DEF AcquireTimeout, Typed, Open, Run
<1>6. ASSUME NEW c \in Clients, Return(c) PROVE Typed'
  BY <1>6 DEF Return, Typed, Open, Run
<1>7. ASSUME NEW c \in Clients, Delete(c) PROVE Typed'
  <2>1. sessions[on[c]] # NoVM => <<sessions[on[c]]>> \in Seq(VMs)
    BY ShortIs DEF Typed
  <2>2. /\ on[c] \in Sessions /\ sessions' = [sessions EXCEPT ![on[c]] = NoVM] /\ idle' = idle \ {on[c]}
        /\ UNCHANGED <<vm, served, pool, boots, lost, lock, on, at, asked, phase, deaths>>
    BY <1>7 DEF Delete, Typed
  <2>3. idle' \subseteq Open' /\ sessions' \in [Sessions -> VMs \cup {NoVM}]
    BY <2>2 DEF Typed, Open
  <2>4. doomed' \in [Destroyers -> Seq(VMs)]
    BY <1>7, <2>1 DEF Delete, Typed
  <2>5. pc' \in [Clients ->
                   {"none", "asking", "deleting", "acquiring", "running", "destroying"}]
    BY <1>7 DEF Delete, Typed
  <2> QED BY <2>2, <2>3, <2>4, <2>5 DEF Typed
<1>8. ASSUME NEW d \in Destroyers, StopVM(d) PROVE Typed'
  BY <1>8 DEF StopVM, Typed, Open, Run
<1>9. CASE DestroyVM
  <2>1. PICK d \in Destroyers :
          /\ doomed[d] # <<>> /\ Pop(d) /\ vm' = [vm EXCEPT ![Head(doomed[d])] = "none"]
          /\ boots' = boots + 1
          /\ UNCHANGED <<served, pool, lost, sessions, idle, lock, on, at, asked, phase, deaths>>
    BY <1>9 DEF DestroyVM
  <2>2. Tail(doomed[d]) \in Seq(VMs)
    BY <2>1, DoomedAre
  <2>3. doomed' \in [Destroyers -> Seq(VMs)] /\ pc' \in [Clients ->
                          {"none", "asking", "deleting", "acquiring", "running", "destroying"}]
    BY <2>1, <2>2 DEF Pop, Typed
  <2> QED BY <2>1, <2>3 DEF Typed, Open
<1>10. CASE Boot
  <2> DEFINE v == CHOOSE u \in Unused : TRUE
  <2>1. v \in VMs
    BY <1>10 DEF Boot, Unused
  <2>2. /\ boots > 0 /\ boots' = boots - 1 /\ vm' = [vm EXCEPT ![v] = "ready"]
        /\ served' = [served EXCEPT ![v] = {}] /\ pool' = Append(pool, v)
        /\ UNCHANGED <<lost, sessions, idle, lock, client, doomed, phase, deaths>>
    BY <1>10 DEF Boot
  <2> HIDE DEF v
  <2>3. pool' \in Seq(VMs)
    BY <2>1, <2>2, AppendIs DEF Typed
  <2> QED BY <2>1, <2>2, <2>3 DEF Typed, Open
<1>11. CASE BootFails
  BY <1>11 DEF BootFails, Typed, Open, Run
<1>12. CASE Evict
  <2>1. PICK q \in Orders({sessions[s] : s \in idle}) :
          doomed' = [doomed EXCEPT !["cleanup"] = q]
    BY <1>12 DEF Evict, EvictOf
  <2>2. q \in Seq(VMs)
    BY <2>1, OrdersAre DEF Typed
  <2>3. doomed' \in [Destroyers -> Seq(VMs)]
    BY <2>1, <2>2 DEF Typed
  <2> QED BY <1>12, <2>3 DEF Evict, EvictOf, Typed, Open
<1>13. CASE Stop
  <2>1. PICK q \in Orders({sessions[s] : s \in Open}) :
          doomed' = [doomed EXCEPT !["cleanup"] = <<>>, !["stop"] = q]
    BY <1>13 DEF Stop
  <2>2. q \in Seq(VMs) /\ <<>> \in Seq(VMs)
    BY <2>1, OrdersAre, ShortIs
  <2>3. doomed' \in [Destroyers -> Seq(VMs)]
    BY <2>1, <2>2 DEF Typed
  <2> QED BY <1>13, <2>3 DEF Stop, Typed, Open
<1>14. CASE StopPool
  <2>1. <<>> \in Seq(VMs)
    BY ShortIs
  <2> QED BY <1>14, <2>1 DEF StopPool, Typed, Open
<1>15. ASSUME NEW v \in VMs, VMDies(v) PROVE Typed'
  BY <1>15 DEF VMDies, Typed, Open, Run
<1>16. ASSUME NEW s \in Sessions, GoesIdle(s) PROVE Typed'
  BY <1>16 DEF GoesIdle, Typed, Open, Run
<1>17. CASE UNCHANGED vars
  BY <1>17 DEF Typed, Open, Run
<1> QED BY <1>1, <1>2, <1>3, <1>4, <1>5, <1>6, <1>7, <1>8, <1>9, <1>10, <1>11, <1>12, <1>13,
           <1>14, <1>15, <1>16, <1>17 DEF Next, Handle

Housed ==
    /\ Distinct(pool) /\ \A d \in Destroyers : Distinct(doomed[d])
    /\ Lay(InSequence(pool), [d \in Destroyers |-> InSequence(doomed[d])], sessions, vm)

Held == [d \in Destroyers |-> InSequence(doomed[d])]

\* Housed is Laid of the present state.
LEMMA LaidOut == ASSUME Typed, Housed PROVE Laid(InSequence(pool), Held, sessions, vm)
<1>1. InSequence(pool) \subseteq VMs
  BY ElementsAre DEF Typed
<1>2. Held \in [Destroyers -> SUBSET VMs]
  BY DoomedAre DEF Held
<1> QED BY <1>1, <1>2 DEF Typed, Housed, Laid, Held

\* One destroyer's VMs change.
LEMMA HeldAfter ==
    ASSUME Typed, NEW d \in Destroyers, NEW q, doomed' = [doomed EXCEPT ![d] = q], NEW Y,
           InSequence(q) = Y
    PROVE  Held' = [Held EXCEPT ![d] = Y]
<1>1. ASSUME NEW e \in Destroyers PROVE InSequence(doomed'[e]) = [Held EXCEPT ![d] = Y][e]
  <2>1. doomed'[e] = IF e = d THEN q ELSE doomed[e]
    BY DEF Typed
  <2> QED BY <2>1 DEF Held
<1> QED BY <1>1 DEF Held

\* The step leaves the VMs where they are.
LEMMA HousedSame ==
    ASSUME Housed, UNCHANGED <<pool, doomed, sessions, vm>> PROVE Housed'
  BY DEF Housed

\* Every VM stays in one place while the service is up.
LEMMA HousedStays ==
    ASSUME Typed, Housed, phase' = "up", [Next]_vars,
           \A c \in Clients : doomed[c] # <<>> => pc[c] = "destroying",
           \A c \in Clients : pc[c] = "acquiring" => sessions[on[c]] = NoVM
    PROVE  Housed'
<1>l. Laid(InSequence(pool), Held, sessions, vm)
  BY LaidOut
<1>h. /\ Distinct(pool) /\ \A d \in Destroyers : Distinct(doomed[d])
      /\ \A d \in Destroyers : Held[d] = InSequence(doomed[d])
  BY DEF Housed, Held
<1>d. ASSUME doomed' = doomed PROVE Held' = Held
  BY <1>d DEF Held
<1>q. ASSUME Distinct(pool'), \A d \in Destroyers : Distinct(doomed'[d]),
          Lay(InSequence(pool'), Held', sessions', vm')
      PROVE  Housed'
  BY <1>q DEF Housed, Held
<1>1. ASSUME NEW c \in Clients, Ask(c) PROVE Housed'
  BY <1>1, HousedSame DEF Ask, Run
<1>2. ASSUME NEW c \in Clients, Reuse(c) PROVE Housed'
  BY <1>2, HousedSame DEF Reuse, Run
<1>3. ASSUME NEW c \in Clients, Create(c) PROVE Housed'
  <2> DEFINE v == sessions[on[c]]
  <2>1. on[c] \in Sessions /\ UNCHANGED <<pool, doomed>> /\ sessions' = [sessions EXCEPT ![on[c]] = NoVM]
    BY <1>3 DEF Create, Typed
  <2>2. CASE v = NoVM
    <3>1. sessions' = sessions /\ vm' = vm
      BY <1>3, <2>1, <2>2 DEF Create, Typed
    <3> QED BY <2>1, <3>1, HousedSame
  <2>3. CASE v # NoVM
    <3>1. vm' = [vm EXCEPT ![v] = "none"]
      BY <1>3, <2>3 DEF Create
    <3>2. Lay(InSequence(pool), Held, sessions', vm')
      BY <1>l, <2>1, <2>3, <3>1, Forgets
    <3> QED BY <1>q, <1>d, <1>h, <2>1, <3>2
  <2> QED BY <2>2, <2>3
<1>4. ASSUME NEW c \in Clients, Acquire(c) PROVE Housed'
  <2> DEFINE v == Head(pool)
  <2>1. on[c] \in Sessions /\ pool # <<>> /\ pool' = Tail(pool) /\ doomed' = doomed
    BY <1>4 DEF Acquire, Typed
  <2>2. pool \in Seq(VMs)
    BY DEF Typed
  <2>3. /\ v \in InSequence(pool) /\ InSequence(pool') = InSequence(pool) \ {v} /\ Distinct(pool')
    BY <1>h, <2>1, <2>2, TailIs
  <2>0. pc[c] = "acquiring"
    BY <1>4 DEF Acquire
  <2>4. CASE vm[v] = "ready"
    <3>1. sessions' = [sessions EXCEPT ![on[c]] = v] /\ vm' = vm
      BY <1>4, <2>4 DEF Acquire, Run
    <3>2. sessions[on[c]] = NoVM
      BY <2>0
    <3>3. Lay(InSequence(pool) \ {v}, Held, [sessions EXCEPT ![on[c]] = v], vm)
      BY <1>l, <2>1, <2>3, <3>2, Takes, Zenon
    <3>4. Lay(InSequence(pool'), Held', sessions', vm')
      BY <1>d, <2>1, <2>3, <3>1, <3>3
    <3> QED BY <1>q, <1>h, <2>1, <2>3, <3>4
  <2>5. CASE vm[v] # "ready"
    <3>1. vm' = [vm EXCEPT ![v] = "none"] /\ sessions' = sessions
      BY <1>4, <2>5 DEF Acquire
    <3>2. Lay(InSequence(pool) \ {v}, Held, sessions, [vm EXCEPT ![v] = "none"])
      BY <1>l, <2>3, Discards, Zenon
    <3>3. Lay(InSequence(pool'), Held', sessions', vm')
      BY <1>d, <2>1, <2>3, <3>1, <3>2
    <3> QED BY <1>q, <1>h, <2>1, <2>3, <3>3
  <2> QED BY <2>4, <2>5
<1>5. ASSUME NEW c \in Clients, AcquireTimeout(c) PROVE Housed'
  BY <1>5, HousedSame DEF AcquireTimeout, Run
<1>6. ASSUME NEW c \in Clients, Return(c) PROVE Housed'
  BY <1>6, HousedSame DEF Return, Run
<1>7. ASSUME NEW c \in Clients, Delete(c) PROVE Housed'
  <2> DEFINE v == sessions[on[c]]
  <2>1. /\ on[c] \in Sessions /\ UNCHANGED <<pool, vm>>
        /\ sessions' = [sessions EXCEPT ![on[c]] = NoVM] /\ c \in Destroyers
    BY <1>7 DEF Delete, Typed, Destroyers
  <2>2. CASE v = NoVM
    <3>1. sessions' = sessions /\ doomed' = doomed
      BY <1>7, <2>1, <2>2 DEF Delete, Typed
    <3> QED BY <2>1, <3>1, HousedSame
  <2>3. CASE v # NoVM
    <3>1. doomed' = [doomed EXCEPT ![c] = <<v>>] /\ doomed[c] = <<>>
      BY <1>7, <2>3 DEF Delete
    <3>2. v \in VMs
      BY <2>1, <2>3 DEF Typed
    <3>3. InSequence(<<v>>) = {v} /\ Distinct(<<v>>) /\ Held[c] = {}
      BY <1>h, <2>1, <3>1, <3>2, ShortIs
    <3>4. Held' = [Held EXCEPT ![c] = {v}]
      <4> DEFINE q == <<v>>
                 Y == {v}
      <4>1. doomed' = [doomed EXCEPT ![c] = q] /\ InSequence(q) = Y
        BY <3>1, <3>3
      <4> HIDE DEF q, Y
      <4>2. Held' = [Held EXCEPT ![c] = Y]
        BY <2>1, <4>1, HeldAfter
      <4> QED BY <4>2 DEF Y
    <3> DEFINE X == {on[c]}
    <3>5. /\ X \in SUBSET {s \in Sessions : sessions[s] # NoVM} /\ {sessions[s] : s \in X} = {v}
          /\ sessions' = [s \in Sessions |-> IF s \in X THEN NoVM ELSE sessions[s]]
      <4>1. sessions = [s \in Sessions |-> sessions[s]]
        BY DEF Typed
      <4>2. X \in SUBSET {s \in Sessions : sessions[s] # NoVM} /\ {sessions[s] : s \in X} = {v}
        BY <2>1, <2>3
      <4>3. \A s \in Sessions : sessions'[s] = IF s \in X THEN NoVM ELSE sessions[s]
        BY <2>1, <4>1
      <4>4. sessions' = [s \in Sessions |-> sessions'[s]]
        BY <2>1, <4>1
      <4> QED BY <4>2, <4>3, <4>4
    <3> HIDE DEF X
    <3>6. Lay(InSequence(pool), [Held EXCEPT ![c] = {sessions[s] : s \in X}],
              [s \in Sessions |-> IF s \in X THEN NoVM ELSE sessions[s]], vm)
      BY <1>l, <2>1, <3>3, <3>5, Dooms
    <3>7. Lay(InSequence(pool'), Held', sessions', vm')
      BY <2>1, <3>4, <3>5, <3>6
    <3>8. \A d \in Destroyers : Distinct(doomed'[d])
      BY <1>h, <2>1, <3>1, <3>3 DEF Typed
    <3> QED BY <1>q, <1>h, <2>1, <3>7, <3>8
  <2> QED BY <2>2, <2>3
<1>8. ASSUME NEW d \in Destroyers, StopVM(d) PROVE Housed'
  <2> DEFINE v == Head(doomed[d])
  <2>1. /\ v \in VMs /\ v \in InSequence(doomed[d]) /\ vm[v] # "none" /\ vm' = [vm EXCEPT ![v] = "stopping"]
        /\ UNCHANGED <<pool, doomed, sessions>>
    BY <1>8, DoomedAre DEF StopVM
  <2> HIDE DEF v
  <2>2. \E e \in Destroyers : v \in Held[e]
    BY <1>h, <2>1
  <2>3. "stopping" \in {"crashed", "stopping"}
    OBVIOUS
  <2>4. Lay(InSequence(pool), Held, sessions, [vm EXCEPT ![v] = "stopping"])
    BY <1>l, <2>1, <2>2, <2>3, Dies, Zenon
  <2> QED BY <1>q, <1>d, <1>h, <2>1, <2>4
<1>9. CASE DestroyVM
  <2>1. PICK d \in Destroyers : /\ doomed[d] # <<>> /\ doomed' = [doomed EXCEPT ![d] = Tail(@)]
                                /\ vm' = [vm EXCEPT ![Head(doomed[d])] = "none"]
                                /\ UNCHANGED <<pool, sessions>>
    BY <1>9 DEF DestroyVM, Pop
  <2> DEFINE v == Head(doomed[d])
             t == Tail(doomed[d])
  <2>2. doomed[d] \in Seq(VMs) /\ Distinct(doomed[d]) /\ Held[d] = InSequence(doomed[d])
    BY <1>h, DoomedAre
  <2>3. v \in Held[d] /\ InSequence(t) = Held[d] \ {v} /\ Distinct(t)
    BY <2>1, <2>2, TailIs
  <2>4. doomed' = [doomed EXCEPT ![d] = t]
    BY <2>1
  <2> HIDE DEF v, t
  <2>5. Held' = [Held EXCEPT ![d] = Held[d] \ {v}]
    BY <2>3, <2>4, HeldAfter
  <2>6. Lay(InSequence(pool), [Held EXCEPT ![d] = @ \ {v}], sessions, [vm EXCEPT ![v] = "none"])
    BY <1>l, <2>3, Destroys
  <2>7. [Held EXCEPT ![d] = @ \ {v}] = [Held EXCEPT ![d] = Held[d] \ {v}]
    BY DEF Held
  <2>8. \A e \in Destroyers : Distinct(doomed'[e])
    BY <1>h, <2>3, <2>4 DEF Typed
  <2> QED BY <1>q, <1>h, <2>1, <2>5, <2>6, <2>7, <2>8 DEF v
<1>10. CASE Boot
  <2> DEFINE v == CHOOSE u \in Unused : TRUE
  <2>1. v \in VMs /\ vm[v] = "none"
    BY <1>10 DEF Boot, Unused
  <2>2. vm' = [vm EXCEPT ![v] = "ready"] /\ pool' = Append(pool, v) /\ UNCHANGED <<sessions, doomed>>
    BY <1>10 DEF Boot
  <2> HIDE DEF v
  <2>3. v \notin InSequence(pool)
    BY <1>l, <2>1 DEF Laid, Lay
  <2>4. InSequence(pool') = InSequence(pool) \cup {v} /\ Distinct(pool')
    BY <1>h, <2>1, <2>2, <2>3, AppendIs DEF Typed
  <2>5. Lay(InSequence(pool) \cup {v}, Held, sessions, [vm EXCEPT ![v] = "ready"])
    BY <1>l, <2>1, Boots, Zenon
  <2> QED BY <1>q, <1>d, <1>h, <2>2, <2>4, <2>5
<1>11. CASE BootFails
  BY <1>11, HousedSame DEF BootFails
<1>12. CASE Evict
  <2>1. PICK q \in Orders({sessions[s] : s \in idle}) :
          doomed' = [doomed EXCEPT !["cleanup"] = q]
    BY <1>12 DEF Evict, EvictOf
  <2>2. /\ doomed["cleanup"] = <<>> /\ UNCHANGED <<pool, vm>> /\ "cleanup" \in Destroyers
        /\ sessions' = [s \in Sessions |-> IF s \in idle THEN NoVM ELSE sessions[s]]
    BY <1>12 DEF Evict, EvictOf, Destroyers
  <2>3. idle \in SUBSET {s \in Sessions : sessions[s] # NoVM} /\ idle \in SUBSET Open
    BY DEF Typed, Open
  <2>4. InSequence(q) = {sessions[s] : s \in idle} /\ Distinct(q) /\ Held["cleanup"] = {}
    BY <1>h, <2>1, <2>2, <2>3, OrdersAre, ShortIs
  <2>5. Held' = [Held EXCEPT !["cleanup"] = {sessions[s] : s \in idle}]
    BY <2>1, <2>2, <2>4, HeldAfter
  <2>6. Lay(InSequence(pool), [Held EXCEPT !["cleanup"] = {sessions[s] : s \in idle}],
            [s \in Sessions |-> IF s \in idle THEN NoVM ELSE sessions[s]], vm)
    BY <1>l, <2>2, <2>3, <2>4, Dooms
  <2>7. Lay(InSequence(pool'), Held', sessions', vm')
    BY <2>2, <2>5, <2>6
  <2>8. \A d \in Destroyers : Distinct(doomed'[d])
    BY <1>h, <2>1, <2>2, <2>4 DEF Typed
  <2> QED BY <1>q, <1>h, <2>2, <2>7, <2>8
<1>13. CASE Stop
  BY <1>13 DEF Stop
<1>14. CASE StopPool
  BY <1>14 DEF StopPool
<1>15. ASSUME NEW v \in VMs, VMDies(v) PROVE Housed'
  <2>1. Lay(InSequence(pool), Held, sessions, [vm EXCEPT ![v] = "crashed"])
    BY <1>15, <1>l, Dies DEF VMDies
  <2> QED BY <1>15, <1>q, <1>d, <1>h, <2>1 DEF VMDies
<1>16. ASSUME NEW s \in Sessions, GoesIdle(s) PROVE Housed'
  BY <1>16, HousedSame DEF GoesIdle
<1>17. CASE UNCHANGED vars
  BY <1>17, HousedSame
<1> QED BY <1>1, <1>2, <1>3, <1>4, <1>5, <1>6, <1>7, <1>8, <1>9, <1>10, <1>11, <1>12, <1>13,
           <1>14, <1>15, <1>16, <1>17 DEF Next, Handle

-----------------------------------------------------------------------------
(* The lock, the lists, and what is left when the service stops.             *)

LockOK ==
    /\ lock # Nobody => pc[lock] = "acquiring"
    /\ \A c \in Clients : pc[c] = "acquiring" =>
          lock = c /\ sessions[on[c]] = NoVM /\ Cardinality(Open) < MaxSessions

ListsOK ==
    \A c \in Clients : doomed[c] # <<>> => pc[c] = "destroying" /\ Tail(doomed[c]) = <<>>

Stopped == phase # "up" => Open = {} /\ \A c \in Clients : pc[c] = "none"

Few == IsFiniteSet(Open) /\ Fewer

Control == LockOK /\ ListsOK /\ Stopped /\ Few

\* Subsets of a finite set are finite and no larger.
LEMMA PartsAreFewer ==
    ASSUME NEW S, IsFiniteSet(S)
    PROVE  \A X \in SUBSET S :
              /\ IsFiniteSet(X) /\ Cardinality(X) \in Nat /\ Cardinality(S) \in Nat
              /\ Cardinality(X) <= Cardinality(S)
<1> SUFFICES ASSUME NEW X \in SUBSET S
             PROVE  /\ IsFiniteSet(X) /\ Cardinality(X) \in Nat /\ Cardinality(S) \in Nat
                    /\ Cardinality(X) <= Cardinality(S)
  OBVIOUS
<1>1. IsFiniteSet(X) /\ Cardinality(X) <= Cardinality(S)
  BY FS_Subset
<1> QED BY <1>1, FS_CardinalityType

\* A step that opens no session.
LEMMA FewStay ==
    ASSUME Typed, Few, \A s \in Sessions : sessions'[s] \in {sessions[s], NoVM}
    PROVE  Few' /\ Open' \subseteq Open
           /\ (Cardinality(Open) < MaxSessions => Cardinality(Open') < MaxSessions)
<1>1. Open' \subseteq Open
  BY DEF Open
<1>2. /\ IsFiniteSet(Open') /\ Cardinality(Open') \in Nat /\ Cardinality(Open) \in Nat
      /\ Cardinality(Open') <= Cardinality(Open)
  BY <1>1, PartsAreFewer DEF Few
<1>3. MaxSessions \in Nat
  OBVIOUS
<1> DEFINE n == Cardinality(Open')
           m == Cardinality(Open)
<1>4. m <= MaxSessions /\ n <= m /\ n \in Nat /\ m \in Nat
  BY <1>2 DEF Few, Fewer
<1> HIDE DEF n, m
<1>5. n <= MaxSessions /\ (m < MaxSessions => n < MaxSessions)
  BY <1>3, <1>4
<1> QED BY <1>1, <1>2, <1>5 DEF Few, Fewer, n, m

\* Every step keeps what the points of the handlers mean.
LEMMA ControlStays == ASSUME Typed, Control, [Next]_vars PROVE Control'
<1>1. ASSUME NEW c \in Clients, Ask(c) PROVE Control'
  <2>1. sessions' = sessions /\ doomed' = doomed /\ phase' = phase
    BY <1>1 DEF Ask
  <2>2. Few' /\ Open' = Open
    BY <2>1 DEF Control, Few, Fewer, Open
  <2>3. LockOK'
    BY <1>1, <2>1, <2>2 DEF Ask, Run, Control, LockOK, Typed
  <2> QED BY <1>1, <2>1, <2>2, <2>3 DEF Ask, Run, Control, ListsOK, Stopped, Typed
<1>2. ASSUME NEW c \in Clients, Reuse(c) PROVE Control'
  <2>1. sessions' = sessions /\ doomed' = doomed /\ phase' = phase
    BY <1>2 DEF Reuse
  <2>2. Few' /\ Open' = Open
    BY <2>1 DEF Control, Few, Fewer, Open
  <2>3. LockOK'
    BY <1>2, <2>1, <2>2 DEF Reuse, Run, Control, LockOK, Typed
  <2> QED BY <1>2, <2>1, <2>2, <2>3 DEF Reuse, Run, Control, ListsOK, Stopped, Typed
<1>3. ASSUME NEW c \in Clients, Create(c) PROVE Control'
  <2>1. /\ on[c] \in Sessions /\ sessions' = [sessions EXCEPT ![on[c]] = NoVM]
        /\ pc[c] = "asking" /\ lock = Nobody
        /\ UNCHANGED <<doomed, phase, on>>
    BY <1>3 DEF Create, Typed
  <2>2. Few'
    BY <2>1, FewStay DEF Typed, Control
  <2>3. Open' = Open \ {on[c]}
    BY <2>1 DEF Typed, Open
  <2>4. \A a \in Clients : pc[a] # "acquiring"
    BY <2>1 DEF Control, LockOK
  <2>5. CASE Cardinality(Open \ {on[c]}) < MaxSessions
    <3>1. pc' = [pc EXCEPT ![c] = "acquiring"] /\ lock' = c
      BY <1>3, <2>5 DEF Create
    <3>2. Cardinality(Open') < MaxSessions /\ sessions'[on[c]] = NoVM
      BY <2>1, <2>3, <2>5 DEF Typed
    <3>3. LockOK'
      BY <2>1, <2>4, <3>1, <3>2 DEF LockOK, Typed
    <3> QED BY <2>1, <2>2, <3>1, <3>3 DEF Control, ListsOK, Stopped, Typed
  <2>6. CASE ~(Cardinality(Open \ {on[c]}) < MaxSessions)
    <3>1. pc' = [pc EXCEPT ![c] = "none"] /\ lock' = lock
      BY <1>3, <2>6 DEF Create
    <3>2. LockOK'
      BY <2>1, <2>4, <3>1 DEF LockOK, Typed
    <3> QED BY <2>1, <2>2, <3>1, <3>2 DEF Control, ListsOK, Stopped, Typed
  <2> QED BY <2>5, <2>6
<1>4. ASSUME NEW c \in Clients, Acquire(c) PROVE Control'
  <2>1. /\ pc[c] = "acquiring" /\ lock = c /\ sessions[on[c]] = NoVM
        /\ Cardinality(Open) < MaxSessions /\ on[c] \in Sessions
    BY <1>4 DEF Acquire, Control, LockOK, Typed
  <2>2. \A a \in Clients : pc[a] = "acquiring" => a = c
    BY <2>1 DEF Control, LockOK
  <2>3. UNCHANGED <<doomed, phase, on>> /\ phase = "up"
    BY <1>4, <2>1 DEF Acquire, Control, Stopped
  <2>4. CASE vm[Head(pool)] = "ready"
    <3>1. /\ sessions' = [sessions EXCEPT ![on[c]] = Head(pool)]
          /\ pc' = [pc EXCEPT ![c] = "running"] /\ lock' = Nobody
      BY <1>4, <2>4 DEF Acquire, Run
    <3>2. Open' \subseteq Open \cup {on[c]} /\ on[c] \notin Open
      BY <2>1, <3>1 DEF Typed, Open
    <3>3. IsFiniteSet(Open \cup {on[c]}) /\ Cardinality(Open \cup {on[c]}) = Cardinality(Open) + 1
      BY <3>2, FS_AddElement DEF Control, Few
    <3>4. /\ IsFiniteSet(Open') /\ Cardinality(Open') \in Nat /\ Cardinality(Open) \in Nat
          /\ Cardinality(Open') <= Cardinality(Open) + 1
      <4>1. /\ IsFiniteSet(Open') /\ Cardinality(Open') \in Nat
            /\ Cardinality(Open') <= Cardinality(Open \cup {on[c]})
        BY <3>2, <3>3, PartsAreFewer
      <4> QED BY <3>3, <4>1, FS_CardinalityType DEF Control, Few
    <3> DEFINE n == Cardinality(Open')
               m == Cardinality(Open)
    <3>5. n \in Nat /\ m \in Nat /\ n <= m + 1 /\ m < MaxSessions /\ MaxSessions \in Nat
      BY <2>1, <3>4
    <3> HIDE DEF n, m
    <3>6. n <= MaxSessions
      BY <3>5
    <3>7. Few'
      BY <3>4, <3>6 DEF Few, Fewer, n
    <3>8. LockOK'
      BY <2>2, <3>1 DEF LockOK, Typed
    <3> QED BY <2>1, <2>3, <3>1, <3>7, <3>8 DEF Control, ListsOK, Stopped, Typed
  <2>5. CASE vm[Head(pool)] # "ready"
    <3>1. UNCHANGED <<sessions, pc, lock>>
      BY <1>4, <2>5 DEF Acquire
    <3> QED BY <2>3, <3>1 DEF Control, LockOK, ListsOK, Stopped, Few, Fewer, Open
  <2> QED BY <2>4, <2>5
<1>5. ASSUME NEW c \in Clients, AcquireTimeout(c) PROVE Control'
  <2>1. sessions' = sessions /\ doomed' = doomed /\ phase' = phase
    BY <1>5 DEF AcquireTimeout
  <2>2. Few' /\ Open' = Open
    BY <2>1 DEF Control, Few, Fewer, Open
  <2>3. LockOK'
    BY <1>5, <2>1, <2>2 DEF AcquireTimeout, Run, Control, LockOK, Typed
  <2> QED BY <1>5, <2>1, <2>2, <2>3 DEF AcquireTimeout, Run, Control, ListsOK, Stopped, Typed
<1>6. ASSUME NEW c \in Clients, Return(c) PROVE Control'
  <2>1. sessions' = sessions /\ doomed' = doomed /\ phase' = phase
    BY <1>6 DEF Return
  <2>2. Few' /\ Open' = Open
    BY <2>1 DEF Control, Few, Fewer, Open
  <2>3. LockOK'
    BY <1>6, <2>1, <2>2 DEF Return, Run, Control, LockOK, Typed
  <2> QED BY <1>6, <2>1, <2>2, <2>3 DEF Return, Run, Control, ListsOK, Stopped, Typed
<1>7. ASSUME NEW c \in Clients, Delete(c) PROVE Control'
  <2>1. /\ on[c] \in Sessions /\ sessions' = [sessions EXCEPT ![on[c]] = NoVM]
        /\ pc[c] = "deleting" /\ lock = Nobody
        /\ UNCHANGED <<lock, phase, on>>
    BY <1>7 DEF Delete, Typed
  <2>2. Few'
    BY <2>1, FewStay DEF Typed, Control
  <2>3. \A a \in Clients : pc[a] # "acquiring"
    BY <2>1 DEF Control, LockOK
  <2>4. phase = "up" /\ phase' = "up"
    BY <2>1 DEF Control, Stopped
  <2>5. pc' = [pc EXCEPT ![c] = pc'[c]] /\ pc'[c] \in {"none", "destroying"}
    BY <1>7 DEF Delete, Typed
  <2>6. LockOK'
    BY <2>1, <2>3, <2>5 DEF LockOK, Typed
  <2>7. CASE sessions[on[c]] = NoVM
    <3>1. pc' = [pc EXCEPT ![c] = "none"] /\ doomed' = doomed
      BY <1>7, <2>7 DEF Delete
    <3> QED BY <2>1, <2>2, <2>4, <2>6, <3>1 DEF Control, ListsOK, Stopped, Typed
  <2>8. CASE sessions[on[c]] # NoVM
    <3>1. pc' = [pc EXCEPT ![c] = "destroying"] /\ doomed' = [doomed EXCEPT ![c] = <<sessions[on[c]]>>]
      BY <1>7, <2>8 DEF Delete
    <3>2. Tail(<<sessions[on[c]]>>) = <<>>
      OBVIOUS
    <3>3. ListsOK'
      BY <3>1, <3>2 DEF Control, ListsOK, Typed, Destroyers
    <3> QED BY <2>2, <2>4, <2>6, <3>3 DEF Control, Stopped
  <2> QED BY <2>7, <2>8
<1>8. ASSUME NEW d \in Destroyers, StopVM(d) PROVE Control'
  <2>1. UNCHANGED <<sessions, lock, client, doomed, phase>>
    BY <1>8 DEF StopVM
  <2> QED BY <2>1 DEF Control, LockOK, ListsOK, Stopped, Few, Fewer, Open
<1>9. CASE DestroyVM
  <2>1. PICK d \in Destroyers : doomed[d] # <<>> /\ Pop(d) /\ UNCHANGED <<sessions, lock, on, phase>>
    BY <1>9 DEF DestroyVM
  <2>2. Few' /\ Open' = Open
    BY <2>1 DEF Control, Few, Fewer, Open
  <2>3. doomed' = [doomed EXCEPT ![d] = Tail(doomed[d])]
    BY <2>1 DEF Pop
  <2>4. CASE d \in Clients
    <3>1. pc[d] = "destroying" /\ Tail(doomed[d]) = <<>> /\ pc' = [pc EXCEPT ![d] = "none"]
      BY <2>1, <2>4 DEF Pop, Control, ListsOK
    <3>2. LockOK'
      BY <2>1, <2>2, <3>1 DEF Control, LockOK, Typed
    <3>3. ListsOK'
      BY <2>3, <3>1 DEF Control, ListsOK, Typed, Destroyers
    <3> QED BY <2>1, <2>2, <3>1, <3>2, <3>3 DEF Control, Stopped, Typed
  <2>5. CASE d \notin Clients
    <3>1. pc' = pc
      BY <2>1, <2>5 DEF Pop
    <3>2. ListsOK'
      BY <2>3, <2>5, <3>1 DEF Control, ListsOK, Typed, Destroyers
    <3> QED BY <2>1, <2>2, <3>1, <3>2 DEF Control, LockOK, Stopped
  <2> QED BY <2>4, <2>5
<1>10. CASE Boot
  <2>1. UNCHANGED <<sessions, lock, client, doomed, phase>>
    BY <1>10 DEF Boot
  <2> QED BY <2>1 DEF Control, LockOK, ListsOK, Stopped, Few, Fewer, Open
<1>11. CASE BootFails
  <2>1. UNCHANGED <<sessions, lock, client, doomed, phase>>
    BY <1>11 DEF BootFails
  <2> QED BY <2>1 DEF Control, LockOK, ListsOK, Stopped, Few, Fewer, Open
<1>12. CASE Evict
  <2>1. /\ phase = "up" /\ lock = Nobody /\ UNCHANGED <<lock, client, phase>>
        /\ \A s \in Sessions : sessions'[s] \in {sessions[s], NoVM}
    BY <1>12 DEF Evict, EvictOf
  <2>2. Few'
    BY <2>1, FewStay DEF Control
  <2>3. PICK q : doomed' = [doomed EXCEPT !["cleanup"] = q]
    BY <1>12 DEF Evict, EvictOf
  <2>4. \A c \in Clients : doomed'[c] = doomed[c] /\ pc[c] # "acquiring"
    BY <2>1, <2>3 DEF Typed, Destroyers, Control, LockOK
  <2> QED BY <2>1, <2>2, <2>4 DEF Control, LockOK, ListsOK, Stopped
<1>13. CASE Stop
  <2>1. /\ phase' = "stopping" /\ UNCHANGED <<lock, client>> /\ \A c \in Clients : pc[c] = "none"
        /\ \A s \in Sessions : sessions'[s] = NoVM
    BY <1>13 DEF Stop
  <2>2. Few' /\ Open' = {}
    BY <2>1, FewStay DEF Control, Open
  <2>3. PICK q : doomed' = [doomed EXCEPT !["cleanup"] = <<>>, !["stop"] = q]
    BY <1>13 DEF Stop
  <2>4. \A c \in Clients : doomed'[c] = doomed[c]
    BY <2>3 DEF Typed, Destroyers
  <2> QED BY <2>1, <2>2, <2>4 DEF Control, LockOK, ListsOK, Stopped
<1>14. CASE StopPool
  <2>1. UNCHANGED <<sessions, lock, client, doomed>> /\ phase = "stopping"
    BY <1>14 DEF StopPool
  <2> QED BY <2>1 DEF Control, LockOK, ListsOK, Stopped, Few, Fewer, Open
<1>15. ASSUME NEW v \in VMs, VMDies(v) PROVE Control'
  <2>1. UNCHANGED <<sessions, lock, client, doomed, phase>>
    BY <1>15 DEF VMDies
  <2> QED BY <2>1 DEF Control, LockOK, ListsOK, Stopped, Few, Fewer, Open
<1>16. ASSUME NEW s \in Sessions, GoesIdle(s) PROVE Control'
  <2>1. UNCHANGED <<sessions, lock, client, doomed, phase>>
    BY <1>16 DEF GoesIdle
  <2> QED BY <2>1 DEF Control, LockOK, ListsOK, Stopped, Few, Fewer, Open
<1>17. CASE UNCHANGED vars
  BY <1>17 DEF Control, LockOK, ListsOK, Stopped, Few, Fewer, Open
<1> QED BY <1>1, <1>2, <1>3, <1>4, <1>5, <1>6, <1>7, <1>8, <1>9, <1>10, <1>11, <1>12, <1>13,
           <1>14, <1>15, <1>16, <1>17 DEF Next, Handle

-----------------------------------------------------------------------------
(* The service never starts again, and its account while it is up: VMs come  *)
(* and go one at a time.                                                     *)

\* A service that stops does not come up again.
LEMMA StaysUp == [Next]_vars => (phase' = "up" => phase = "up")
<1> SUFFICES ASSUME [Next]_vars, phase' = "up" PROVE phase = "up"
  OBVIOUS
<1>1. ASSUME NEW c \in Clients, Ask(c) PROVE phase = "up"
  BY <1>1 DEF Ask
<1>2. ASSUME NEW c \in Clients, Reuse(c) PROVE phase = "up"
  BY <1>2 DEF Reuse
<1>3. ASSUME NEW c \in Clients, Create(c) PROVE phase = "up"
  BY <1>3 DEF Create
<1>4. ASSUME NEW c \in Clients, Acquire(c) PROVE phase = "up"
  BY <1>4 DEF Acquire
<1>5. ASSUME NEW c \in Clients, AcquireTimeout(c) PROVE phase = "up"
  BY <1>5 DEF AcquireTimeout
<1>6. ASSUME NEW c \in Clients, Return(c) PROVE phase = "up"
  BY <1>6 DEF Return
<1>7. ASSUME NEW c \in Clients, Delete(c) PROVE phase = "up"
  BY <1>7 DEF Delete
<1>8. ASSUME NEW d \in Destroyers, StopVM(d) PROVE phase = "up"
  BY <1>8 DEF StopVM
<1>9. CASE DestroyVM
  BY <1>9 DEF DestroyVM
<1>10. CASE Boot
  BY <1>10 DEF Boot
<1>11. CASE BootFails
  BY <1>11 DEF BootFails
<1>12. CASE Evict
  BY <1>12 DEF Evict, EvictOf
<1>13. CASE Stop
  BY <1>13 DEF Stop
<1>14. CASE StopPool
  BY <1>14 DEF StopPool
<1>15. ASSUME NEW v \in VMs, VMDies(v) PROVE phase = "up"
  BY <1>15 DEF VMDies
<1>16. ASSUME NEW s \in Sessions, GoesIdle(s) PROVE phase = "up"
  BY <1>16 DEF GoesIdle
<1>17. CASE UNCHANGED vars
  BY <1>17
<1> QED BY <1>1, <1>2, <1>3, <1>4, <1>5, <1>6, <1>7, <1>8, <1>9, <1>10, <1>11, <1>12, <1>13,
           <1>14, <1>15, <1>16, <1>17 DEF Next, Handle

Existing == {v \in VMs : vm[v] # "none"}
Total == Cardinality(Existing) + boots + lost = PoolSize

\* The VMs that exist can be counted.
LEMMA ExistingAre == IsFiniteSet(Existing) /\ Cardinality(Existing) \in Nat
  BY FS_Subset, FS_CardinalityType DEF Existing

\* A VM that is destroyed is one less.
LEMMA OneGoes ==
    ASSUME Typed, NEW v \in VMs, vm[v] # "none", vm' = [vm EXCEPT ![v] = "none"]
    PROVE  Cardinality(Existing) = Cardinality(Existing') + 1 /\ Cardinality(Existing') \in Nat
<1>1. Existing = Existing' \cup {v} /\ v \notin Existing'
  BY DEF Existing, Typed
<1>2. IsFiniteSet(Existing')
  BY FS_Subset DEF Existing
<1>3. Cardinality(Existing' \cup {v}) = Cardinality(Existing') + 1 /\ Cardinality(Existing') \in Nat
  BY <1>1, <1>2, FS_AddElement, FS_CardinalityType
<1> QED BY <1>1, <1>3

\* A VM that boots is one more.
LEMMA OneComes ==
    ASSUME Typed, NEW v \in VMs, vm[v] = "none", vm' = [vm EXCEPT ![v] = "ready"]
    PROVE  Cardinality(Existing') = Cardinality(Existing) + 1 /\ Cardinality(Existing) \in Nat
<1>1. Existing' = Existing \cup {v} /\ v \notin Existing
  BY DEF Existing, Typed
<1>2. Cardinality(Existing \cup {v}) = Cardinality(Existing) + 1
  BY <1>1, ExistingAre, FS_AddElement
<1> QED BY <1>1, <1>2, ExistingAre

\* VMs, boots and lost ones still add up to the pool's size.
LEMMA TotalStays ==
    ASSUME Typed, Housed, Total, phase' = "up", [Next]_vars
    PROVE  Total'
<1>l. Laid(InSequence(pool), Held, sessions, vm)
  BY LaidOut
<1>h. \A d \in Destroyers : Held[d] = InSequence(doomed[d])
  BY DEF Held
<1> DEFINE n == Cardinality(Existing)
<1>t. n \in Nat /\ boots \in Nat /\ lost \in Nat /\ n + boots + lost = PoolSize
  BY ExistingAre DEF Typed, Total
<1>1. ASSUME NEW c \in Clients, Ask(c) PROVE Total'
  BY <1>1 DEF Ask, Total, Existing
<1>2. ASSUME NEW c \in Clients, Reuse(c) PROVE Total'
  BY <1>2 DEF Reuse, Run, Total, Existing
<1>3. ASSUME NEW c \in Clients, Create(c) PROVE Total'
  <2> DEFINE v == sessions[on[c]]
  <2>1. on[c] \in Sessions /\ boots' = boots
    BY <1>3 DEF Create, Typed
  <2>2. CASE v = NoVM
    BY <1>3, <2>2 DEF Create, Total, Existing
  <2>3. CASE v # NoVM
    <3>1. vm' = [vm EXCEPT ![v] = "none"] /\ lost' = lost + 1
      BY <1>3, <2>3 DEF Create
    <3>2. v \in VMs /\ vm[v] # "none"
      BY <1>l, <2>1, <2>3 DEF Laid, Lay
    <3>3. n = Cardinality(Existing') + 1 /\ Cardinality(Existing') \in Nat
      BY <3>1, <3>2, OneGoes
    <3> HIDE DEF n
    <3> QED BY <1>t, <2>1, <3>1, <3>3 DEF Total
  <2> QED BY <2>2, <2>3
<1>4. ASSUME NEW c \in Clients, Acquire(c) PROVE Total'
  <2> DEFINE v == Head(pool)
  <2>1. pool # <<>> /\ pool \in Seq(VMs) /\ lost' = lost
    BY <1>4 DEF Acquire, Typed
  <2>2. v \in VMs /\ v \in InSequence(pool)
    BY <2>1, TailIs
  <2>3. vm[v] # "none"
    BY <1>l, <2>2 DEF Laid, Lay
  <2>4. CASE vm[v] = "ready"
    BY <1>4, <2>4 DEF Acquire, Total, Existing
  <2>5. CASE vm[v] # "ready"
    <3>1. vm' = [vm EXCEPT ![v] = "none"] /\ boots' = boots + 1
      BY <1>4, <2>5 DEF Acquire
    <3>2. n = Cardinality(Existing') + 1 /\ Cardinality(Existing') \in Nat
      BY <2>2, <2>3, <3>1, OneGoes
    <3> HIDE DEF n
    <3> QED BY <1>t, <2>1, <3>1, <3>2 DEF Total
  <2> QED BY <2>4, <2>5
<1>5. ASSUME NEW c \in Clients, AcquireTimeout(c) PROVE Total'
  BY <1>5 DEF AcquireTimeout, Total, Existing
<1>6. ASSUME NEW c \in Clients, Return(c) PROVE Total'
  BY <1>6 DEF Return, Total, Existing
<1>7. ASSUME NEW c \in Clients, Delete(c) PROVE Total'
  BY <1>7 DEF Delete, Total, Existing
<1>8. ASSUME NEW d \in Destroyers, StopVM(d) PROVE Total'
  <2>1. /\ vm' = [vm EXCEPT ![Head(doomed[d])] = "stopping"] /\ vm[Head(doomed[d])] # "none"
        /\ UNCHANGED <<boots, lost>>
    BY <1>8 DEF StopVM
  <2>2. Existing' = Existing
    BY <2>1 DEF Existing, Typed
  <2> QED BY <2>1, <2>2 DEF Total
<1>9. CASE DestroyVM
  <2>1. PICK d \in Destroyers : /\ doomed[d] # <<>> /\ vm' = [vm EXCEPT ![Head(doomed[d])] = "none"]
                                /\ boots' = boots + 1 /\ lost' = lost
    BY <1>9 DEF DestroyVM
  <2> DEFINE v == Head(doomed[d])
  <2>2. v \in VMs /\ v \in Held[d]
    BY <1>h, <2>1, DoomedAre
  <2>3. vm[v] # "none"
    BY <1>l, <2>2 DEF Laid, Lay
  <2>4. n = Cardinality(Existing') + 1 /\ Cardinality(Existing') \in Nat
    BY <2>1, <2>2, <2>3, OneGoes
  <2> HIDE DEF n
  <2> QED BY <1>t, <2>1, <2>4 DEF Total
<1>10. CASE Boot
  <2> DEFINE v == CHOOSE u \in Unused : TRUE
  <2>1. v \in VMs /\ vm[v] = "none"
    BY <1>10 DEF Boot, Unused
  <2>2. vm' = [vm EXCEPT ![v] = "ready"] /\ boots > 0 /\ boots' = boots - 1 /\ lost' = lost
    BY <1>10 DEF Boot
  <2> HIDE DEF v
  <2>3. Cardinality(Existing') = n + 1
    BY <2>1, <2>2, OneComes
  <2> HIDE DEF n
  <2> QED BY <1>t, <2>2, <2>3 DEF Total
<1>11. CASE BootFails
  <2>1. boots > 0 /\ boots' = boots - 1 /\ lost' = lost + 1 /\ vm' = vm
    BY <1>11 DEF BootFails
  <2>2. Cardinality(Existing') = n
    BY <2>1 DEF Existing
  <2> HIDE DEF n
  <2> QED BY <1>t, <2>1, <2>2 DEF Total
<1>12. CASE Evict
  BY <1>12 DEF Evict, EvictOf, Total, Existing
<1>13. CASE Stop
  BY <1>13 DEF Stop
<1>14. CASE StopPool
  BY <1>14 DEF StopPool
<1>15. ASSUME NEW v \in VMs, VMDies(v) PROVE Total'
  <2>1. Existing' = Existing
    BY <1>15 DEF VMDies, Existing, Typed
  <2> QED BY <1>15, <2>1 DEF VMDies, Total
<1>16. ASSUME NEW s \in Sessions, GoesIdle(s) PROVE Total'
  BY <1>16 DEF GoesIdle, Total, Existing
<1>17. CASE UNCHANGED vars
  BY <1>17 DEF Total, Existing
<1> QED BY <1>1, <1>2, <1>3, <1>4, <1>5, <1>6, <1>7, <1>8, <1>9, <1>10, <1>11, <1>12, <1>13,
           <1>14, <1>15, <1>16, <1>17 DEF Next, Handle

-----------------------------------------------------------------------------
(* Whom the VMs have worked for.                                             *)

Isolated ==
    /\ \A v \in VMs : \A s, t \in served[v] : s = t
    /\ phase = "up" =>
          \A v \in VMs : /\ v \in InSequence(pool) => served[v] = {}
                         /\ \A s \in Sessions : sessions[s] = v => served[v] \subseteq {s}

\* The VM that is handed out was in the pool and nowhere else.
LEMMA FirstOfPool ==
    ASSUME Typed, Housed, pool # <<>>
    PROVE  /\ Head(pool) \in VMs /\ Head(pool) \in InSequence(pool)
           /\ InSequence(Tail(pool)) = InSequence(pool) \ {Head(pool)}
           /\ \A s \in Sessions : sessions[s] # Head(pool)
           /\ \A d \in Destroyers : Head(pool) \notin InSequence(doomed[d])
<1> DEFINE v == Head(pool)
<1>1. pool \in Seq(VMs) /\ Distinct(pool)
  BY DEF Typed, Housed
<1>2. v \in VMs /\ InSequence(pool) = InSequence(Tail(pool)) \cup {v} /\ v \notin InSequence(Tail(pool))
  BY <1>1, TailIs
<1> HIDE DEF v
<1>3. v \in InSequence(pool) /\ InSequence(Tail(pool)) = InSequence(pool) \ {v}
  BY <1>2
<1>4. Laid(InSequence(pool), Held, sessions, vm) /\ \A d \in Destroyers : Held[d] = InSequence(doomed[d])
  BY LaidOut DEF Held
<1>5. (\A s \in Sessions : sessions[s] # v) /\ \A d \in Destroyers : v \notin InSequence(doomed[d])
  BY <1>3, <1>4 DEF Laid, Lay
<1> QED BY <1>2, <1>3, <1>5 DEF v

\* The VM of a session is nowhere else.
LEMMA OfSession ==
    ASSUME Typed, Housed, NEW s \in Sessions, sessions[s] # NoVM
    PROVE  /\ sessions[s] \in VMs /\ sessions[s] \notin InSequence(pool)
           /\ \A t \in Sessions : sessions[t] = sessions[s] => t = s
           /\ \A d \in Destroyers : sessions[s] \notin InSequence(doomed[d])
           /\ vm[sessions[s]] \in {"ready", "crashed"}
<1>1. Laid(InSequence(pool), Held, sessions, vm) /\ \A d \in Destroyers : Held[d] = InSequence(doomed[d])
  BY LaidOut DEF Held
<1> QED BY <1>1 DEF Laid, Lay

\* A VM that is about to boot is nowhere.
LEMMA OfNobody ==
    ASSUME Typed, Housed, NEW v \in VMs, vm[v] = "none"
    PROVE  v \notin InSequence(pool) /\ \A s \in Sessions : sessions[s] # v
<1>1. Laid(InSequence(pool), Held, sessions, vm)
  BY LaidOut
<1> QED BY <1>1 DEF Laid, Lay

\* No VM is given to a second session.
LEMMA IsolatedStays ==
    ASSUME Typed, phase = "up" => Housed, Control, Isolated, [Next]_vars
    PROVE  Isolated'
<1>1. ASSUME NEW c \in Clients, Ask(c) PROVE Isolated'
  <2>1. UNCHANGED <<served, pool, sessions, phase>>
    BY <1>1 DEF Ask
  <2> QED BY <2>1 DEF Isolated
<1>2. ASSUME NEW c \in Clients, Reuse(c) PROVE Isolated'
  <2> DEFINE v == sessions[on[c]]
  <2>1. /\ phase = "up" /\ on[c] \in Sessions /\ v # NoVM /\ served' = [served EXCEPT ![v] = @ \cup {on[c]}]
        /\ UNCHANGED <<pool, sessions, phase>>
    BY <1>2 DEF Reuse, Run, Alive, Control, Stopped, Typed
  <2>2. v \in VMs /\ v \notin InSequence(pool) /\ \A t \in Sessions : sessions[t] = v => t = on[c]
    BY <2>1, OfSession
  <2>3. served[v] \subseteq {on[c]}
    BY <2>1, <2>2 DEF Isolated
  <2> HIDE DEF v
  <2>4. served'[v] = {on[c]} /\ \A u \in VMs : u # v => served'[u] = served[u]
    BY <2>1, <2>2, <2>3 DEF Typed
  <2> QED BY <2>1, <2>2, <2>4 DEF Isolated
<1>3. ASSUME NEW c \in Clients, Create(c) PROVE Isolated'
  <2>1. /\ UNCHANGED <<served, pool, phase>> /\ on[c] \in Sessions
        /\ sessions' = [sessions EXCEPT ![on[c]] = NoVM]
    BY <1>3 DEF Create, Typed
  <2> QED BY <2>1 DEF Isolated, Typed
<1>4. ASSUME NEW c \in Clients, Acquire(c) PROVE Isolated'
  <2> DEFINE v == Head(pool)
  <2>1. phase = "up" /\ pool # <<>> /\ pool' = Tail(pool) /\ phase' = phase /\ on[c] \in Sessions
    BY <1>4 DEF Acquire, Control, Stopped, Typed
  <2>2. /\ v \in VMs /\ v \in InSequence(pool) /\ InSequence(pool') = InSequence(pool) \ {v}
        /\ \A s \in Sessions : sessions[s] # v
    BY <2>1, FirstOfPool
  <2>3. CASE vm[v] = "ready"
    <3>1. served' = [served EXCEPT ![v] = @ \cup {on[c]}] /\ sessions' = [sessions EXCEPT ![on[c]] = v]
      BY <1>4, <2>3 DEF Acquire, Run
    <3>2. served[v] = {}
      BY <2>1, <2>2 DEF Isolated
    <3> HIDE DEF v
    <3>3. served'[v] = {on[c]} /\ \A u \in VMs : u # v => served'[u] = served[u]
      BY <2>2, <3>1, <3>2 DEF Typed
    <3>4. \A s \in Sessions : sessions'[s] = IF s = on[c] THEN v ELSE sessions[s]
      BY <3>1 DEF Typed
    <3> QED BY <2>1, <2>2, <3>3, <3>4 DEF Isolated
  <2>4. CASE vm[v] # "ready"
    <3>1. served' = served /\ sessions' = sessions
      BY <1>4, <2>4 DEF Acquire
    <3> QED BY <2>1, <2>2, <3>1 DEF Isolated
  <2> QED BY <2>3, <2>4
<1>5. ASSUME NEW c \in Clients, AcquireTimeout(c) PROVE Isolated'
  <2>1. UNCHANGED <<served, pool, sessions, phase>>
    BY <1>5 DEF AcquireTimeout
  <2> QED BY <2>1 DEF Isolated
<1>6. ASSUME NEW c \in Clients, Return(c) PROVE Isolated'
  <2>1. UNCHANGED <<served, pool, sessions, phase>>
    BY <1>6 DEF Return
  <2> QED BY <2>1 DEF Isolated
<1>7. ASSUME NEW c \in Clients, Delete(c) PROVE Isolated'
  <2>1. /\ UNCHANGED <<served, pool, phase>> /\ on[c] \in Sessions
        /\ sessions' = [sessions EXCEPT ![on[c]] = NoVM]
    BY <1>7 DEF Delete, Typed
  <2> QED BY <2>1 DEF Isolated, Typed
<1>8. ASSUME NEW d \in Destroyers, StopVM(d) PROVE Isolated'
  <2>1. UNCHANGED <<served, pool, sessions, phase>>
    BY <1>8 DEF StopVM
  <2> QED BY <2>1 DEF Isolated
<1>9. CASE DestroyVM
  <2>1. UNCHANGED <<served, pool, sessions, phase>>
    BY <1>9 DEF DestroyVM
  <2> QED BY <2>1 DEF Isolated
<1>10. CASE Boot
  <2> DEFINE v == CHOOSE u \in Unused : TRUE
  <2>1. v \in VMs /\ vm[v] = "none"
    BY <1>10 DEF Boot, Unused
  <2>2. served' = [served EXCEPT ![v] = {}] /\ pool' = Append(pool, v) /\ UNCHANGED <<sessions, phase>>
    BY <1>10 DEF Boot
  <2> HIDE DEF v
  <2>3. InSequence(pool') = InSequence(pool) \cup {v}
    BY <2>1, <2>2, AppendIs DEF Typed
  <2>4. \A u \in VMs : served'[u] = IF u = v THEN {} ELSE served[u]
    BY <2>2 DEF Typed
  <2>5. phase = "up" => v \notin InSequence(pool) /\ \A s \in Sessions : sessions[s] # v
    BY <2>1, OfNobody
  <2> QED BY <2>2, <2>3, <2>4, <2>5 DEF Isolated
<1>11. CASE BootFails
  <2>1. UNCHANGED <<served, pool, sessions, phase>>
    BY <1>11 DEF BootFails
  <2> QED BY <2>1 DEF Isolated
<1>12. CASE Evict
  <2>1. /\ UNCHANGED <<served, pool, phase>>
        /\ sessions' = [s \in Sessions |-> IF s \in idle THEN NoVM ELSE sessions[s]]
    BY <1>12 DEF Evict, EvictOf
  <2> QED BY <2>1 DEF Isolated
<1>13. CASE Stop
  BY <1>13 DEF Stop, Isolated
<1>14. CASE StopPool
  BY <1>14 DEF StopPool, Isolated
<1>15. ASSUME NEW v \in VMs, VMDies(v) PROVE Isolated'
  <2>1. UNCHANGED <<served, pool, sessions, phase>>
    BY <1>15 DEF VMDies
  <2> QED BY <2>1 DEF Isolated
<1>16. ASSUME NEW s \in Sessions, GoesIdle(s) PROVE Isolated'
  <2>1. UNCHANGED <<served, pool, sessions, phase>>
    BY <1>16 DEF GoesIdle
  <2> QED BY <2>1 DEF Isolated
<1>17. CASE UNCHANGED vars
  BY <1>17 DEF Isolated
<1> QED BY <1>1, <1>2, <1>3, <1>4, <1>5, <1>6, <1>7, <1>8, <1>9, <1>10, <1>11, <1>12, <1>13,
           <1>14, <1>15, <1>16, <1>17 DEF Next, Handle

-----------------------------------------------------------------------------
(* The VMs that execute requests.                                            *)

Executing ==
    \A c \in Clients :
      /\ pc[c] = "running" <=> at[c] # NoVM
      /\ pc[c] = "running" => /\ at[c] \notin InSequence(pool)
                              /\ at[c] \notin InSequence(doomed["cleanup"])
                              /\ \A s \in idle : sessions[s] # at[c]

\* A VM that executes is neither handed out again nor evicted.
LEMMA ExecutingStays ==
    ASSUME Typed, phase = "up" => Housed, Control, Executing, [Next]_vars
    PROVE  Executing'
<1>1. ASSUME NEW c \in Clients, Ask(c) PROVE Executing'
  <2>1. /\ UNCHANGED <<pool, doomed, idle, sessions, at>> /\ pc[c] = "none" /\ pc'[c] # "running"
        /\ \A a \in Clients : a # c => pc'[a] = pc[a]
    BY <1>1 DEF Ask, Typed
  <2> QED BY <2>1 DEF Executing
<1>2. ASSUME NEW c \in Clients, Reuse(c) PROVE Executing'
  <2> DEFINE v == sessions[on[c]]
  <2>1. /\ phase = "up" /\ on[c] \in Sessions /\ v # NoVM
        /\ pc' = [pc EXCEPT ![c] = "running"] /\ at' = [at EXCEPT ![c] = v]
        /\ UNCHANGED <<pool, sessions, doomed>> /\ idle' = idle \ {on[c]}
    BY <1>2 DEF Reuse, Run, Alive, Control, Stopped, Typed
  <2>2. /\ v \in VMs /\ v \notin InSequence(pool) /\ \A t \in Sessions : sessions[t] = v => t = on[c]
        /\ v \notin InSequence(doomed["cleanup"])
    BY <2>1, OfSession DEF Destroyers
  <2>3. \A s \in idle' : s \in idle /\ sessions[s] # v
    BY <2>1, <2>2 DEF Typed, Open
  <2> HIDE DEF v
  <2>4. \A a \in Clients : IF a = c THEN pc'[a] = "running" /\ at'[a] = v
                                     ELSE pc'[a] = pc[a] /\ at'[a] = at[a]
    BY <2>1 DEF Typed
  <2> QED BY <2>1, <2>2, <2>3, <2>4 DEF Executing
<1>3. ASSUME NEW c \in Clients, Create(c) PROVE Executing'
  <2>1. /\ UNCHANGED <<pool, doomed, at>> /\ idle' \subseteq idle \ {on[c]}
        /\ pc[c] = "asking" /\ pc'[c] # "running"
        /\ \A s \in Sessions : s # on[c] => sessions'[s] = sessions[s]
        /\ \A a \in Clients : a # c => pc'[a] = pc[a]
    BY <1>3 DEF Create, Typed
  <2>2. \A s \in idle' : s \in idle /\ sessions'[s] = sessions[s]
    BY <2>1 DEF Typed, Open
  <2> QED BY <2>1, <2>2 DEF Executing
<1>4. ASSUME NEW c \in Clients, Acquire(c) PROVE Executing'
  <2> DEFINE v == Head(pool)
  <2>1. /\ phase = "up" /\ pool # <<>> /\ pool' = Tail(pool) /\ UNCHANGED <<idle, doomed>>
        /\ sessions[on[c]] = NoVM /\ on[c] \in Sessions
    BY <1>4 DEF Acquire, Control, Stopped, LockOK, Typed
  <2>2. /\ v \in VMs /\ InSequence(pool') = InSequence(pool) \ {v} /\ \A s \in Sessions : sessions[s] # v
        /\ v \notin InSequence(doomed["cleanup"])
    BY <2>1, FirstOfPool DEF Destroyers
  <2>3. on[c] \notin idle /\ idle \subseteq Sessions
    BY <2>1 DEF Typed, Open
  <2>4. CASE vm[v] = "ready"
    <3>1. /\ pc' = [pc EXCEPT ![c] = "running"] /\ at' = [at EXCEPT ![c] = v]
          /\ sessions' = [sessions EXCEPT ![on[c]] = v]
      BY <1>4, <2>4 DEF Acquire, Run
    <3> HIDE DEF v
    <3>2. \A s \in idle : sessions'[s] = sessions[s] /\ sessions[s] # v
      BY <2>2, <2>3, <3>1 DEF Typed
    <3>3. \A a \in Clients : IF a = c THEN pc'[a] = "running" /\ at'[a] = v
                                       ELSE pc'[a] = pc[a] /\ at'[a] = at[a]
      BY <3>1 DEF Typed
    <3> QED BY <2>1, <2>2, <3>2, <3>3 DEF Executing
  <2>5. CASE vm[v] # "ready"
    <3>1. UNCHANGED <<pc, at, sessions>>
      BY <1>4, <2>5 DEF Acquire
    <3> QED BY <2>1, <2>2, <3>1 DEF Executing
  <2> QED BY <2>4, <2>5
<1>5. ASSUME NEW c \in Clients, AcquireTimeout(c) PROVE Executing'
  <2>1. /\ UNCHANGED <<pool, doomed, idle, sessions, at>> /\ pc[c] = "acquiring" /\ pc'[c] # "running"
        /\ \A a \in Clients : a # c => pc'[a] = pc[a]
    BY <1>5 DEF AcquireTimeout, Typed
  <2> QED BY <2>1 DEF Executing
<1>6. ASSUME NEW c \in Clients, Return(c) PROVE Executing'
  <2>1. /\ UNCHANGED <<pool, doomed, sessions>> /\ idle' \subseteq idle
        /\ \A a \in Clients : IF a = c THEN pc'[a] = "none" /\ at'[a] = NoVM
                                        ELSE pc'[a] = pc[a] /\ at'[a] = at[a]
    BY <1>6 DEF Return, Typed
  <2> QED BY <2>1 DEF Executing
<1>7. ASSUME NEW c \in Clients, Delete(c) PROVE Executing'
  <2>1. /\ UNCHANGED <<pool, at>> /\ idle' \subseteq idle \ {on[c]} /\ pc[c] = "deleting"
        /\ pc'[c] # "running"
        /\ \A s \in Sessions : s # on[c] => sessions'[s] = sessions[s]
        /\ \A a \in Clients : a # c => pc'[a] = pc[a]
    BY <1>7 DEF Delete, Typed
  <2>2. doomed'["cleanup"] = doomed["cleanup"]
    BY <1>7 DEF Delete, Typed, Destroyers
  <2>3. \A s \in idle' : s \in idle /\ sessions'[s] = sessions[s]
    BY <2>1 DEF Typed, Open
  <2> QED BY <2>1, <2>2, <2>3 DEF Executing
<1>8. ASSUME NEW d \in Destroyers, StopVM(d) PROVE Executing'
  <2>1. UNCHANGED <<client, pool, doomed, idle, sessions>>
    BY <1>8 DEF StopVM
  <2> QED BY <2>1 DEF Executing
<1>9. CASE DestroyVM
  <2>1. PICK d \in Destroyers : doomed[d] # <<>> /\ Pop(d) /\ UNCHANGED <<pool, sessions, idle, at>>
    BY <1>9 DEF DestroyVM
  <2>2. /\ doomed[d] \in Seq(VMs) /\ doomed' = [doomed EXCEPT ![d] = Tail(doomed[d])]
        /\ "cleanup" \in Destroyers
    BY <2>1 DEF Pop, Typed, Destroyers
  <2>3. InSequence(Tail(doomed[d])) \subseteq InSequence(doomed[d])
    BY <2>1, <2>2, TailIs
  <2>4. InSequence(doomed'["cleanup"]) \subseteq InSequence(doomed["cleanup"])
    BY <2>2, <2>3 DEF Typed
  <2>5. \A a \in Clients : pc'[a] = pc[a] \/ (pc[a] = "destroying" /\ pc'[a] = "none")
    BY <2>1 DEF Pop, Control, ListsOK, Typed
  <2> QED BY <2>1, <2>4, <2>5 DEF Executing
<1>10. CASE Boot
  <2> DEFINE v == CHOOSE u \in Unused : TRUE
  <2>1. v \in VMs /\ \A c \in Clients : at[c] # v
    BY <1>10 DEF Boot, Unused
  <2>2. pool' = Append(pool, v) /\ UNCHANGED <<sessions, idle, client, doomed>>
    BY <1>10 DEF Boot
  <2> HIDE DEF v
  <2>3. InSequence(pool') = InSequence(pool) \cup {v}
    BY <2>1, <2>2, AppendIs DEF Typed
  <2> QED BY <2>1, <2>2, <2>3 DEF Executing
<1>11. CASE BootFails
  <2>1. UNCHANGED <<client, pool, doomed, idle, sessions>>
    BY <1>11 DEF BootFails
  <2> QED BY <2>1 DEF Executing
<1>12. CASE Evict
  <2>1. PICK q \in Orders({sessions[s] : s \in idle}) :
          doomed' = [doomed EXCEPT !["cleanup"] = q]
    BY <1>12 DEF Evict, EvictOf
  <2>2. InSequence(q) = {sessions[s] : s \in idle}
    BY <2>1, OrdersAre DEF Typed
  <2>3. doomed'["cleanup"] = q /\ UNCHANGED <<client, pool>> /\ idle' = {}
    BY <1>12, <2>1 DEF Evict, EvictOf, Typed, Destroyers
  <2> QED BY <2>2, <2>3 DEF Executing
<1>13. CASE Stop
  <2>1. UNCHANGED client /\ \A c \in Clients : pc[c] = "none"
    BY <1>13 DEF Stop
  <2> QED BY <2>1 DEF Executing
<1>14. CASE StopPool
  <2>1. UNCHANGED client /\ phase = "stopping"
    BY <1>14 DEF StopPool
  <2> QED BY <2>1 DEF Executing, Control, Stopped
<1>15. ASSUME NEW v \in VMs, VMDies(v) PROVE Executing'
  <2>1. UNCHANGED <<client, pool, doomed, idle, sessions>>
    BY <1>15 DEF VMDies
  <2> QED BY <2>1 DEF Executing
<1>16. ASSUME NEW s \in Sessions, GoesIdle(s) PROVE Executing'
  <2>1. /\ UNCHANGED <<client, pool, doomed, sessions>> /\ idle' = idle \cup {s}
        /\ \A c \in Clients : at[c] # sessions[s]
    BY <1>16 DEF GoesIdle
  <2> QED BY <2>1 DEF Executing
<1>17. CASE UNCHANGED vars
  BY <1>17 DEF Executing
<1> QED BY <1>1, <1>2, <1>3, <1>4, <1>5, <1>6, <1>7, <1>8, <1>9, <1>10, <1>11, <1>12, <1>13,
           <1>14, <1>15, <1>16, <1>17 DEF Next, Handle

-----------------------------------------------------------------------------
(* The invariant.                                                            *)

IInv ==
    /\ Typed /\ Control /\ Isolated /\ Executing
    /\ phase = "up" => Housed /\ Total

\* The pool the service starts with exists.
LEMMA PoolExists ==
    ASSUME NEW n \in 0..PoolSize
    PROVE  \E q \in [1..n -> VMs] : \A i, j \in 1..n : q[i] = q[j] => i = j
<1> DEFINE m == Cardinality(VMs)
<1>1. m \in Nat /\ n \in Nat /\ PoolSize \in Nat /\ PoolSize <= m
  BY FS_CardinalityType
<1>2. IsFiniteSet(1..m) /\ Cardinality(1..m) = m
  BY <1>1, UpTo
<1>3. ExistsBijection(1..m, VMs)
  BY <1>2, FS_SameCardinalityBij
<1>4. PICK g : g \in Bijection(1..m, VMs)
  BY <1>3 DEF ExistsBijection
<1>5. g \in [1..m -> VMs] /\ \A i, j \in 1..m : g[i] = g[j] => i = j
  <2>1. g \in Injection(1..m, VMs)
    BY <1>4 DEF Bijection
  <2> QED BY <2>1, Fun_InjectionProperties
<1> HIDE DEF m
<1>6. 1..n \subseteq 1..m
  BY <1>1
<1> DEFINE q == [i \in 1..n |-> g[i]]
<1>7. q \in [1..n -> VMs] /\ \A i, j \in 1..n : q[i] = q[j] => i = j
  BY <1>5, <1>6
<1> QED BY <1>7

\* The invariant holds at the start.
LEMMA InitHolds == Init => IInv
<1> SUFFICES ASSUME Init PROVE IInv
  OBVIOUS
<1>0. (IF "boot_fails" \in Env THEN 0..PoolSize ELSE {PoolSize}) \subseteq 0..PoolSize
  OBVIOUS
<1>1. PICK n \in 0..PoolSize :
        /\ pool = CHOOSE q \in [1..n -> VMs] : \A i, j \in 1..n : q[i] = q[j] => i = j
        /\ vm = [v \in VMs |-> IF v \in InSequence(pool) THEN "ready" ELSE "none"]
        /\ lost = PoolSize - n
        /\ served = [v \in VMs |-> {}] /\ boots = 0
        /\ sessions = [s \in Sessions |-> NoVM] /\ idle = {} /\ lock = Nobody
        /\ pc = [c \in Clients |-> "none"]
        /\ on = [c \in Clients |-> CHOOSE s \in Sessions : TRUE]
        /\ at = [c \in Clients |-> NoVM]
        /\ doomed = [d \in Destroyers |-> <<>>]
        /\ asked = 0 /\ phase = "up" /\ deaths = 0
  BY <1>0 DEF Init
<1>n. n \in Nat /\ PoolSize \in Nat /\ n <= PoolSize
  OBVIOUS
<1>2. pool \in [1..n -> VMs] /\ \A i, j \in 1..n : pool[i] = pool[j] => i = j
  BY <1>1, PoolExists
<1>3. pool \in Seq(VMs) /\ Len(pool) = n
  BY <1>n, <1>2, IsASeq, LenProperties
<1>4. Distinct(pool) /\ InSequence(pool) \subseteq VMs
  BY <1>2, <1>3, ElementsAre DEF Distinct
<1>5. Typed
  <2>1. lost \in Nat /\ boots \in Nat
    BY <1>1, <1>n
  <2>2. <<>> \in Seq(VMs)
    BY ShortIs
  <2>3. doomed \in [Destroyers -> Seq(VMs)]
    BY <1>1, <2>2
  <2>4. asked \in 0..MaxRequests /\ deaths \in 0..MaxDeaths
    BY <1>1
  <2> QED BY <1>1, <1>3, <2>1, <2>3, <2>4 DEF Typed
<1>6. Control
  <2>1. Open = {}
    BY <1>1 DEF Open
  <2>2. IsFiniteSet(Open) /\ Cardinality(Open) = 0
    BY <2>1, FS_EmptySet
  <2>3. Few
    BY <2>2 DEF Few, Fewer
  <2> QED BY <1>1, <2>3 DEF Control, LockOK, ListsOK, Stopped, Destroyers
<1>7. Isolated /\ Executing
  BY <1>1 DEF Isolated, Executing
<1>8. Housed
  <2>1. \A d \in Destroyers : doomed[d] = <<>> /\ InSequence(doomed[d]) = {} /\ Distinct(doomed[d])
    BY <1>1, ShortIs
  <2> HIDE DEF InSequence, Distinct
  <2>2. \A s \in Sessions : sessions[s] = NoVM /\ NoVM \notin InSequence(pool)
    BY <1>1, <1>4
  <2>3. \A v \in VMs : vm[v] = IF v \in InSequence(pool) THEN "ready" ELSE "none"
    BY <1>1
  <2> QED BY <1>4, <2>1, <2>2, <2>3 DEF Housed, Lay
<1>9. Total
  <2>1. Existing = InSequence(pool)
    BY <1>1, <1>4 DEF Existing
  <2>2. Cardinality(InSequence(pool)) = n
    BY <1>3, <1>4, LengthIs
  <2> QED BY <1>1, <1>n, <2>1, <2>2 DEF Total
<1> QED BY <1>5, <1>6, <1>7, <1>8, <1>9 DEF IInv

\* The invariant is inductive.
LEMMA NextKeeps == IInv /\ [Next]_vars => IInv'
<1> SUFFICES ASSUME IInv, [Next]_vars PROVE IInv'
  OBVIOUS
<1>1. Typed' /\ Control' /\ Isolated' /\ Executing'
  BY TypesStay, ControlStays, IsolatedStays, ExecutingStays DEF IInv
<1>2. ASSUME phase' = "up" PROVE Housed' /\ Total'
  <2>1. Housed /\ Total
    BY <1>2, StaysUp DEF IInv
  <2>2. /\ \A c \in Clients : doomed[c] # <<>> => pc[c] = "destroying"
        /\ \A c \in Clients : pc[c] = "acquiring" => sessions[on[c]] = NoVM
    BY DEF IInv, Control, ListsOK, LockOK
  <2> QED BY <1>2, <2>1, <2>2, HousedStays, TotalStays DEF IInv
<1> QED BY <1>1, <1>2 DEF IInv

\* The invariant of the specification.
LEMMA AlwaysHolds == Spec => []IInv
<1>1. Init => IInv
  BY InitHolds
<1>2. IInv /\ [Next]_vars => IInv'
  BY NextKeeps
<1> QED BY <1>1, <1>2, PTL DEF Spec

-----------------------------------------------------------------------------
(* What follows.                                                             *)

\* The count, from the places and the total.
LEMMA CountedIs ==
    ASSUME Typed, Housed, Total, Few PROVE CapacityIsConserved
<1> DEFINE P == InSequence(pool)
           S == {sessions[s] : s \in Open}
           D == UNION {InSequence(doomed[d]) : d \in Destroyers}
           Pairs == UNION {{d} \X (1..Len(doomed[d])) : d \in Destroyers}
<1>l. Laid(P, Held, sessions, vm) /\ \A d \in Destroyers : Held[d] = InSequence(doomed[d])
  BY LaidOut DEF Held
<1>1. IsFiniteSet(P) /\ Cardinality(P) = Len(pool)
  BY LengthIs DEF Typed, Housed
<1>2. P \subseteq VMs /\ S \subseteq VMs /\ D \subseteq VMs
  BY <1>l DEF Laid, Open
<1>3. Existing = P \cup S \cup D
  <2>1. \A v \in VMs : vm[v] # "none" <=> v \in P \/ v \in S \/ v \in D
    BY <1>l DEF Laid, Lay, Open
  <2> HIDE DEF P, S, D
  <2> QED BY <1>2, <2>1 DEF Existing
<1>4. P \cap S = {} /\ (P \cup S) \cap D = {}
  <2>1. \A s \in Open :
           sessions[s] \notin P /\ \A d \in Destroyers : sessions[s] \notin InSequence(doomed[d])
    BY <1>l DEF Laid, Lay, Open
  <2>2. \A d \in Destroyers : InSequence(doomed[d]) \cap P = {}
    BY <1>l DEF Laid, Lay
  <2> QED BY <2>1, <2>2
<1>5. IsFiniteSet(S) /\ Cardinality(S) = Cardinality(Open)
  <2> DEFINE f == [s \in Open |-> sessions[s]]
  <2>1. f \in [Open -> S]
    OBVIOUS
  <2>2. \A s, t \in Open : f[s] = f[t] => s = t
    BY <1>l DEF Laid, Lay, Open
  <2>3. \A v \in S : \E s \in Open : f[s] = v
    OBVIOUS
  <2>4. IsFiniteSet(S)
    BY <1>2, FS_Subset
  <2> HIDE DEF f, S
  <2> QED BY <2>1, <2>2, <2>3, <2>4, OneToOne
<1>6. IsFiniteSet(D) /\ Cardinality(D) = InDoom
  <2> DEFINE f == [p \in Pairs |-> doomed[p[1]][p[2]]]
  <2>1. \A p \in Pairs : p[1] \in Destroyers /\ p[2] \in 1..Len(doomed[p[1]]) /\ p = <<p[1], p[2]>>
    OBVIOUS
  <2>2. \A d \in Destroyers : \A i \in 1..Len(doomed[d]) :
           <<d, i>> \in Pairs /\ doomed[d][i] \in InSequence(doomed[d])
    BY DEF InSequence
  <2> HIDE DEF Pairs
  <2>3. \A p \in Pairs : f[p] = doomed[p[1]][p[2]]
    OBVIOUS
  <2>4. f \in [Pairs -> D]
    BY <2>1, <2>2
  <2>5. ASSUME NEW p \in Pairs, NEW r \in Pairs, f[p] = f[r] PROVE p = r
    <3>1. /\ f[p] \in InSequence(doomed[p[1]]) /\ f[r] \in InSequence(doomed[r[1]])
          /\ p[1] \in Destroyers /\ r[1] \in Destroyers
      BY <2>1, <2>2, <2>3
    <3>2. p[1] = r[1]
      BY <1>l, <2>5, <3>1 DEF Laid, Lay
    <3>3. Distinct(doomed[p[1]])
      BY <3>1 DEF Housed
    <3>4. p[2] = r[2]
      BY <2>1, <2>3, <2>5, <3>2, <3>3 DEF Distinct
    <3> QED BY <2>1, <3>2, <3>4
  <2>6. ASSUME NEW v \in D PROVE \E p \in Pairs : f[p] = v
    <3>1. PICK d \in Destroyers : v \in InSequence(doomed[d])
      OBVIOUS
    <3>2. PICK i \in 1..Len(doomed[d]) : v = doomed[d][i]
      BY <3>1 DEF InSequence
    <3>3. <<d, i>> \in Pairs /\ f[<<d, i>>] = v
      BY <2>2, <2>3, <3>2
    <3> QED BY <3>3
  <2>7. IsFiniteSet(D)
    BY <1>2, FS_Subset
  <2> HIDE DEF f, D
  <2>8. Cardinality(Pairs) = Cardinality(D)
    BY <2>4, <2>5, <2>6, <2>7, OneToOne
  <2>9. InDoom = Cardinality(Pairs)
    BY DEF InDoom, Pairs
  <2> QED BY <2>7, <2>8, <2>9
<1> HIDE DEF P, S, D, Pairs
<1>7. IsFiniteSet(P \cup S) /\ Cardinality(P \cup S) = Cardinality(P) + Cardinality(S)
  <2>1. /\ IsFiniteSet(P \cup S)
        /\ Cardinality(P \cup S) = Cardinality(P) + Cardinality(S) - Cardinality(P \cap S)
    BY <1>1, <1>5, FS_Union
  <2> QED BY <1>1, <1>4, <1>5, <2>1, FS_EmptySet, FS_CardinalityType
<1>8. Cardinality(Existing) = Cardinality(P \cup S) + Cardinality(D)
  <2>1. Cardinality((P \cup S) \cup D)
          = Cardinality(P \cup S) + Cardinality(D) - Cardinality((P \cup S) \cap D)
    BY <1>6, <1>7, FS_Union
  <2>2. Cardinality((P \cup S) \cap D) = 0 /\ Cardinality(P \cup S) \in Nat /\ Cardinality(D) \in Nat
    BY <1>4, <1>6, <1>7, FS_EmptySet, FS_CardinalityType
  <2> QED BY <1>3, <2>1, <2>2
<1>9. /\ Len(pool) \in Nat /\ Cardinality(Open) \in Nat /\ InDoom \in Nat /\ boots \in Nat /\ lost \in Nat
      /\ Cardinality(Existing) + boots + lost = PoolSize
      /\ Cardinality(Existing) = Len(pool) + Cardinality(Open) + InDoom
  BY <1>1, <1>5, <1>6, <1>7, <1>8, FS_CardinalityType DEF Typed, Total
<1> DEFINE l == Len(pool)
           o == Cardinality(Open)
           k == InDoom
           e == Cardinality(Existing)
<1>10. /\ l \in Nat /\ o \in Nat /\ k \in Nat /\ boots \in Nat /\ lost \in Nat
       /\ e = l + o + k /\ e + boots + lost = PoolSize
  BY <1>9
<1> HIDE DEF l, o, k, e
<1>11. l + o + boots + k + lost = PoolSize
  BY <1>10
<1> QED BY <1>11 DEF CapacityIsConserved, l, o, k

\* One owner, from the places.
LEMMA OwnedOnce ==
    ASSUME Typed, Housed PROVE EveryVMHasOneOwner
<1> SUFFICES ASSUME NEW v \in VMs, vm[v] # "none"
             PROVE  Cardinality({i \in 1..Len(pool) : pool[i] = v})
                      + Cardinality({s \in Sessions : sessions[s] = v})
                      + Cardinality({d \in Destroyers : v \in InSequence(doomed[d])}) = 1
  BY DEF EveryVMHasOneOwner
<1> DEFINE A == {i \in 1..Len(pool) : pool[i] = v}
           B == {s \in Sessions : sessions[s] = v}
           C == {d \in Destroyers : v \in InSequence(doomed[d])}
<1>l. Laid(InSequence(pool), Held, sessions, vm) /\ \A d \in Destroyers : Held[d] = InSequence(doomed[d])
  BY LaidOut DEF Held
<1>1. v # NoVM /\ v \in VMs
  OBVIOUS
<1>2. \A i, j \in A : i = j
  BY DEF Housed, Distinct
<1>3. \A s, t \in B : s = t
  BY <1>l, <1>1 DEF Laid, Lay
<1>4. \A d, e \in C : d = e
  BY <1>l DEF Laid, Lay
<1>5. A # {} <=> v \in InSequence(pool)
  BY DEF InSequence
<1>6. B # {} <=> \E s \in Sessions : sessions[s] = v
  OBVIOUS
<1>7. C # {} <=> \E d \in Destroyers : v \in Held[d]
  BY <1>l
<1>8. A # {} \/ B # {} \/ C # {}
  BY <1>l, <1>5, <1>6, <1>7 DEF Laid, Lay
<1>9. ~(A # {} /\ B # {}) /\ ~(A # {} /\ C # {}) /\ ~(B # {} /\ C # {})
  BY <1>l, <1>5, <1>6, <1>7 DEF Laid, Lay
<1> HIDE DEF A, B, C
<1>10. (A = {} => Cardinality(A) = 0) /\ (B = {} => Cardinality(B) = 0) /\ (C = {} => Cardinality(C) = 0)
  BY FS_EmptySet
<1>11. (A # {} => Cardinality(A) = 1) /\ (B # {} => Cardinality(B) = 1) /\ (C # {} => Cardinality(C) = 1)
  BY <1>2, <1>3, <1>4, OneElement
<1>12. Cardinality(A) + Cardinality(B) + Cardinality(C) = 1
  BY <1>8, <1>9, <1>10, <1>11
<1> QED BY <1>12 DEF A, B, C

\* The invariant gives the properties.
LEMMA InvImplies == IInv => VMsAreAccounted
<1> SUFFICES ASSUME IInv PROVE VMsAreAccounted
  OBVIOUS
<1>1. TypeOK
  BY TypesAre DEF IInv, Control, Few
<1>2. SessionsAreIsolated
  <2> SUFFICES ASSUME NEW v \in VMs PROVE Cardinality(served[v]) <= 1
    BY DEF SessionsAreIsolated
  <2>1. \A s, t \in served[v] : s = t
    BY DEF IInv, Isolated
  <2>2. served[v] = {} \/ Cardinality(served[v]) = 1
    BY <2>1, OneElement
  <2>3. Cardinality({}) = 0
    BY FS_EmptySet
  <2> QED BY <2>2, <2>3
<1>3. CapacityIsConserved
  <2>1. CASE phase = "up"
    BY <2>1, CountedIs DEF IInv, Control
  <2>2. CASE phase # "up"
    BY <2>2 DEF CapacityIsConserved
  <2> QED BY <2>1, <2>2
<1>4. EveryVMHasOneOwner
  <2>1. CASE phase = "up"
    BY <2>1, OwnedOnce DEF IInv
  <2>2. CASE phase # "up"
    BY <2>2 DEF EveryVMHasOneOwner
  <2> QED BY <2>1, <2>2
<1>5. NoEvictionUnderExecution
  BY DEF IInv, Executing, NoEvictionUnderExecution
<1> QED BY <1>1, <1>2, <1>3, <1>4, <1>5 DEF VMsAreAccounted

-----------------------------------------------------------------------------
\* Whatever clients, the cleanup, the boots, the deaths and the shutdown do, no VM
\* works for two sessions, each VM is in one place, none is forgotten or made up,
\* and none is evicted while it executes (SessionManager and VMPool).
THEOREM VMsStayAccounted == Spec => []VMsAreAccounted
<1>1. IInv => VMsAreAccounted
  BY InvImplies
<1> QED BY <1>1, AlwaysHolds, PTL

\* Why a session may lose its VM in a step.
LEMMA StepSurvives ==
    ASSUME IInv, [Next]_vars, NEW r \in Open, sessions'[r] # sessions[r]
    PROVE  \/ vm[sessions[r]] = "crashed"
           \/ r \in idle
           \/ \E c \in Clients : pc[c] = "deleting" /\ on[c] = r
           \/ phase' # "up"
<1>t. Typed /\ Control /\ r \in Sessions /\ sessions[r] # NoVM
  BY DEF IInv, Open
<1>u. phase = "up"
  BY <1>t DEF Control, Stopped
<1>v. vm[sessions[r]] \in {"ready", "crashed"}
  BY <1>t, <1>u, OfSession DEF IInv
<1>1. ASSUME NEW c \in Clients, Ask(c)
      PROVE  \/ vm[sessions[r]] = "crashed" \/ r \in idle
             \/ \E a \in Clients : pc[a] = "deleting" /\ on[a] = r
             \/ phase' # "up"
  <2>1. sessions' = sessions
    BY <1>1 DEF Ask
  <2> QED BY <2>1
<1>2. ASSUME NEW c \in Clients, Reuse(c)
      PROVE  \/ vm[sessions[r]] = "crashed" \/ r \in idle
             \/ \E a \in Clients : pc[a] = "deleting" /\ on[a] = r
             \/ phase' # "up"
  <2>1. sessions' = sessions
    BY <1>2 DEF Reuse, Run
  <2> QED BY <2>1
<1>3. ASSUME NEW c \in Clients, Create(c)
      PROVE  \/ vm[sessions[r]] = "crashed" \/ r \in idle
             \/ \E a \in Clients : pc[a] = "deleting" /\ on[a] = r
             \/ phase' # "up"
  <2>1. sessions' = [sessions EXCEPT ![on[c]] = NoVM] /\ ~Alive(on[c])
    BY <1>3 DEF Create
  <2>2. on[c] = r
    BY <1>t, <2>1 DEF Typed
  <2> QED BY <1>t, <1>v, <2>1, <2>2 DEF Alive
<1>4. ASSUME NEW c \in Clients, Acquire(c)
      PROVE  \/ vm[sessions[r]] = "crashed" \/ r \in idle
             \/ \E a \in Clients : pc[a] = "deleting" /\ on[a] = r
             \/ phase' # "up"
  <2>1. sessions' = sessions \/ sessions' = [sessions EXCEPT ![on[c]] = Head(pool)]
    BY <1>4 DEF Acquire
  <2>2. sessions[on[c]] = NoVM /\ on[c] # r
    BY <1>4, <1>t DEF Acquire, Control, LockOK
  <2>3. sessions'[r] = sessions[r]
    BY <1>t, <2>1, <2>2 DEF Typed
  <2> QED BY <2>3
<1>5. ASSUME NEW c \in Clients, AcquireTimeout(c)
      PROVE  \/ vm[sessions[r]] = "crashed" \/ r \in idle
             \/ \E a \in Clients : pc[a] = "deleting" /\ on[a] = r
             \/ phase' # "up"
  <2>1. sessions' = sessions
    BY <1>5 DEF AcquireTimeout
  <2> QED BY <2>1
<1>6. ASSUME NEW c \in Clients, Return(c)
      PROVE  \/ vm[sessions[r]] = "crashed" \/ r \in idle
             \/ \E a \in Clients : pc[a] = "deleting" /\ on[a] = r
             \/ phase' # "up"
  <2>1. sessions' = sessions
    BY <1>6 DEF Return
  <2> QED BY <2>1
<1>7. ASSUME NEW c \in Clients, Delete(c)
      PROVE  \/ vm[sessions[r]] = "crashed" \/ r \in idle
             \/ \E a \in Clients : pc[a] = "deleting" /\ on[a] = r
             \/ phase' # "up"
  <2>1. sessions' = [sessions EXCEPT ![on[c]] = NoVM] /\ pc[c] = "deleting"
    BY <1>7 DEF Delete
  <2>2. on[c] = r
    BY <1>t, <2>1 DEF Typed
  <2> QED BY <2>1, <2>2
<1>8. ASSUME NEW d \in Destroyers, StopVM(d)
      PROVE  \/ vm[sessions[r]] = "crashed" \/ r \in idle
             \/ \E a \in Clients : pc[a] = "deleting" /\ on[a] = r
             \/ phase' # "up"
  <2>1. sessions' = sessions
    BY <1>8 DEF StopVM
  <2> QED BY <2>1
<1>9. CASE DestroyVM
  <2>1. sessions' = sessions
    BY <1>9 DEF DestroyVM
  <2> QED BY <2>1
<1>10. CASE Boot
  <2>1. sessions' = sessions
    BY <1>10 DEF Boot
  <2> QED BY <2>1
<1>11. CASE BootFails
  <2>1. sessions' = sessions
    BY <1>11 DEF BootFails
  <2> QED BY <2>1
<1>12. CASE Evict
  BY <1>12, <1>t DEF Evict, EvictOf, Typed
<1>13. CASE Stop
  BY <1>13 DEF Stop
<1>14. CASE StopPool
  <2>1. sessions' = sessions
    BY <1>14 DEF StopPool
  <2> QED BY <2>1
<1>15. ASSUME NEW v \in VMs, VMDies(v)
      PROVE  \/ vm[sessions[r]] = "crashed" \/ r \in idle
             \/ \E a \in Clients : pc[a] = "deleting" /\ on[a] = r
             \/ phase' # "up"
  <2>1. sessions' = sessions
    BY <1>15 DEF VMDies
  <2> QED BY <2>1
<1>16. ASSUME NEW s \in Sessions, GoesIdle(s)
      PROVE  \/ vm[sessions[r]] = "crashed" \/ r \in idle
             \/ \E a \in Clients : pc[a] = "deleting" /\ on[a] = r
             \/ phase' # "up"
  <2>1. sessions' = sessions
    BY <1>16 DEF GoesIdle
  <2> QED BY <2>1
<1>17. CASE UNCHANGED vars
  BY <1>17
<1> QED BY <1>1, <1>2, <1>3, <1>4, <1>5, <1>6, <1>7, <1>8, <1>9, <1>10, <1>11, <1>12, <1>13,
           <1>14, <1>15, <1>16, <1>17 DEF Next, Handle

\* A session loses its VM only when the VM has died, or when it has been idle too
\* long, is deleted, or the service stops (SessionManager).
THEOREM StateSurvivesAlways == Spec => StateSurvives
<1>1. IInv /\ [Next]_vars =>
        [\A s \in Open : sessions'[s] # sessions[s] =>
          \/ vm[sessions[s]] = "crashed"
          \/ s \in idle
          \/ \E c \in Clients : pc[c] = "deleting" /\ on[c] = s
          \/ phase' # "up"]_vars
  BY StepSurvives
<1> QED BY <1>1, AlwaysHolds, PTL DEF Spec, StateSurvives

=============================================================================
