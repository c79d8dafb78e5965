------------------------- MODULE CallPipelineProofs -------------------------
(***************************************************************************)
(* What holds of CallPipeline for any calls, keys, chain of middleware and  *)
(* settings of the limiter, the cache and the retry loop.                   *)
(***************************************************************************)
EXTENDS CallPipeline, Integers, SequenceTheorems, FiniteSetTheorems, WellFoundedInduction, TLAPS

Last == Len(Chain)

USE PipelineAssumption
USE DEF limiterVars, cacheVars, callVars, vars

Less == {r \in Nat \X Nat : r[1] < r[2]}

\* A set of naturals has a least element.
LEMMA HasLeast ==
    ASSUME NEW T, T \subseteq Nat, T # {}
    PROVE  \E x \in T : \A y \in T : x <= y
<1>1. IsWellFoundedOn(Less, Nat)
  <2>1. OpToRel(<, Nat) = Less
    BY DEF OpToRel, Less
  <2> QED BY <2>1, NatLessThanWellFounded, Zenon
<1>2. PICK x \in T : \A y \in T : ~(<<y, x>> \in Less)
  BY <1>1, WFMin
<1>3. ASSUME NEW y \in T PROVE x <= y
  <2>1. <<y, x>> \in Nat \X Nat /\ <<y, x>> \notin Less
    BY <1>2
  <2>2. ~(y < x)
    BY <2>1 DEF Less
  <2> QED BY <2>2
<1> QED BY <1>3

\* A bounded set of naturals has a greatest element.
LEMMA HasGreatest ==
    ASSUME NEW n \in Nat, NEW T, T \subseteq 0..n, T # {}
    PROVE  \E x \in T : \A y \in T : y <= x
<1> DEFINE R == {n - y : y \in T}
<1>1. R \subseteq Nat
  <2>1. \A y \in T : n - y \in Nat
    OBVIOUS
  <2> QED BY <2>1
<1>2. R # {}
  OBVIOUS
<1>3. PICK r \in R : \A y \in R : r <= y
  BY <1>1, <1>2, HasLeast
<1>4. PICK x \in T : r = n - x
  OBVIOUS
<1>5. ASSUME NEW y \in T PROVE y <= x
  <2>1. n - y \in R /\ y \in 0..n /\ x \in 0..n
    OBVIOUS
  <2>2. n - x <= n - y
    BY <1>3, <1>4, <2>1
  <2> QED BY <2>1, <2>2
<1> QED BY <1>5

\* What the assumption says of the numbers.
LEMMA Constants == /\ Last \in Nat /\ Full \in Nat /\ Period \in Nat \ {0} /\ Full >= Period
                   /\ Retries \in Nat /\ MaxEntries \in Nat \ {0}
<1>1. Last \in Nat
  BY LenProperties DEF Last
<1>2. MaxRate \in Nat \ {0} /\ Period \in Nat \ {0} /\ Retries \in Nat /\ MaxEntries \in Nat \ {0}
  OBVIOUS
<1>3. MaxRate * Period \in Nat /\ MaxRate * Period >= Period
  BY <1>2
<1> QED BY <1>1, <1>2, <1>3 DEF Full

\* The next hook forwards of place i is the first one after it, or the call.
LEMMA GoesForwards ==
    ASSUME NEW c, NEW i \in 0..Last, ForwardsFrom(c, i)
    PROVE  \E n \in (i + 1)..(Last + 1) :
             /\ at' = [at EXCEPT ![c] = n]
             /\ pc' = [pc EXCEPT ![c] = IF n = Last + 1 THEN "execute" ELSE "before"]
             /\ \A r \in (i + 1)..Last : Chain[r] = "rate" => n <= r
<1> DEFINE later == {j \in (i + 1)..Len(Chain) : Chain[j] \in {"rate", "cache", "validator"}}
           all == later \cup {Len(Chain) + 1}
           n == CHOOSE j \in all : \A k \in later : j <= k
<1>1. Last \in Nat /\ Last = Len(Chain)
  BY Constants DEF Last
<1>2. all \subseteq Nat /\ all # {}
  BY <1>1
<1>3. \E j \in all : \A k \in later : j <= k
  BY <1>2, HasLeast
<1>4. n \in all /\ \A k \in later : n <= k
  BY <1>3
<1>5. /\ at' = [at EXCEPT ![c] = n]
      /\ pc' = [pc EXCEPT ![c] = IF later = {} THEN "execute" ELSE "before"]
  BY DEF ForwardsFrom, GoTo
<1> HIDE DEF n
<1>6. n \in (i + 1)..(Last + 1)
  BY <1>1, <1>4
<1>7. (n = Last + 1) <=> later = {}
  BY <1>1, <1>4
<1>8. \A r \in (i + 1)..Last : Chain[r] = "rate" => n <= r
  BY <1>1, <1>4
<1> QED BY <1>5, <1>6, <1>7, <1>8

\* Backwards it is the nearest of its kinds, or the outside.
LEMMA GoesBackwards ==
    ASSUME NEW c, NEW i \in 1..(Last + 1), NEW kinds, Backwards(c, i, kinds)
    PROVE  \E n \in 0..(i - 1) :
             /\ at' = [at EXCEPT ![c] = n]
             /\ n > 0 => n <= Last /\ Chain[n] \in kinds
             /\ n = 0 => \A j \in 1..(i - 1) : Chain[j] \notin kinds
<1> DEFINE earlier == {j \in 1..(i - 1) : Chain[j] \in kinds}
           all == earlier \cup {0}
           n == CHOOSE j \in all : \A k \in earlier : k <= j
<1>1. Last \in Nat /\ i - 1 \in Nat /\ i - 1 <= Last
  BY Constants
<1>2. all \subseteq 0..(i - 1) /\ all # {}
  BY <1>1
<1>3. \E j \in all : \A k \in earlier : k <= j
  BY <1>1, <1>2, HasGreatest
<1>4. n \in all /\ \A k \in earlier : k <= n
  BY <1>3
<1>5. at' = [at EXCEPT ![c] = n]
  BY DEF Backwards
<1> HIDE DEF n
<1>6. n \in 0..(i - 1)
  BY <1>2, <1>4
<1>7. n > 0 => n <= Last /\ Chain[n] \in kinds
  BY <1>1, <1>4
<1>8. n = 0 => \A j \in 1..(i - 1) : Chain[j] \notin kinds
  BY <1>1, <1>4
<1> QED BY <1>5, <1>6, <1>7, <1>8

Occurs(d, l) == \E i \in 1..Len(l) : l[i] = d

\* The line without a call, whether it has the lock, waits for it or neither.
LEMMA WithoutIsLine ==
    ASSUME line \in Seq(Calls), NEW c \in Calls
    PROVE  /\ LineWithout(c) \in Seq(Calls)
           /\ line # <<>> /\ line[1] # c => LineWithout(c) # <<>> /\ LineWithout(c)[1] = line[1]
           /\ \A d \in Calls \ {c} : Occurs(d, line) => Occurs(d, LineWithout(c))
<1>0. line \in Seq(Calls) /\ Len(line) \in Nat /\ \A j \in 1..Len(line) : line[j] \in Calls
  BY LenProperties, ElementOfSeq
<1>1. CASE \A i \in 1..Len(line) : line[i] # c
  <2>1. LineWithout(c) = line
    BY <1>1 DEF LineWithout
  <2> QED BY <1>0, <2>1
<1>2. CASE \E i \in 1..Len(line) : line[i] = c
  <2> DEFINE i == CHOOSE j \in 1..Len(line) : line[j] = c
             n == Len(line) - 1
             w == [j \in 1..n |-> IF j < i THEN line[j] ELSE line[j + 1]]
  <2>1. LineWithout(c) = w
    BY <1>2 DEF LineWithout
  <2>2. i \in 1..Len(line) /\ line[i] = c
    BY <1>2
  <2> HIDE DEF i
  <2>3. n \in Nat
    BY <1>0, <2>2
  <2>4. \A j \in 1..n : j \in 1..Len(line) /\ j + 1 \in 1..Len(line)
    BY <1>0, <2>3
  <2>5. w \in [1..n -> Calls]
    BY <1>0, <2>4
  <2>6. w \in Seq(Calls) /\ Len(w) = n
    BY <2>3, <2>5, IsASeq, LenProperties
  <2>7. ASSUME line[1] # c PROVE w # <<>> /\ w[1] = line[1]
    <3>1. i > 1 /\ n >= 1
      BY <1>0, <2>2, <2>7
    <3>2. w[1] = line[1]
      BY <2>2, <2>3, <3>1
    <3>3. w # <<>>
      <4> HIDE DEF w
      <4>1. Len(w) # 0
        BY <2>3, <2>6, <3>1
      <4> QED BY <4>1, EmptySeq
    <3> QED BY <3>2, <3>3
  <2>8. ASSUME NEW d \in Calls \ {c}, NEW k \in 1..Len(line),
            line[k] = d PROVE \E j \in 1..n : w[j] = d
    <3>1. CASE k < i
      <4>1. k \in 1..n /\ w[k] = line[k]
        BY <1>0, <2>2, <2>3, <3>1
      <4> QED BY <4>1, <2>8
    <3>2. CASE k > i
      <4>1. k - 1 \in 1..n /\ ~(k - 1 < i) /\ (k - 1) + 1 = k
        BY <1>0, <2>2, <2>3, <3>2
      <4>2. w[k - 1] = line[k]
        BY <4>1
      <4> QED BY <4>1, <4>2, <2>8
    <3>3. k # i
      BY <2>2, <2>8
    <3> QED BY <1>0, <2>2, <3>1, <3>2, <3>3
  <2> HIDE DEF w
  <2>9. \A d \in Calls \ {c} : Occurs(d, line) => Occurs(d, w)
    BY <2>6, <2>8 DEF Occurs
  <2> QED BY <2>1, <2>6, <2>7, <2>9
<1> QED BY <1>1, <1>2


-----------------------------------------------------------------------------
(* Types, places in the chain and attempts.                                 *)

Places == {"new", "before", "queued", "execute", "on_error", "after"} \cup Sleeping \cup Ended

CallsTyped ==
    /\ pc \in [Calls -> Places]
    /\ at \in [Calls -> 0..(Last + 1)]
    /\ attempt \in [Calls -> 0..Retries]
    /\ runs \in [Calls -> 0..(Retries + 1)]

TimersTyped ==
    /\ error \in [Calls -> Errors \cup {"none"}]
    /\ wakeAt \in [Calls -> 0..(now + Period)]

OutcomesTyped ==
    /\ hit \in [Calls -> Values \cup {None, Fallback}]
    /\ result \in [Calls -> Values \cup {None, Fallback}]

LimiterTyped ==
    /\ now \in Nat /\ lastRefill \in 0..now
    /\ tokens \in 0..Full
    /\ line \in Seq(Calls)
    /\ passes \in Seq([call : Calls, time : 0..now])

CacheTyped == cache \in Seq(Keys) /\ stored \in [Keys -> Values \cup {None, Fallback}]

\* The type invariant, by parts that different steps disturb.
LEMMA TypesAre == TypeOK <=> CallsTyped /\ TimersTyped /\ OutcomesTyped /\ LimiterTyped /\ CacheTyped
  BY DEF TypeOK, CallsTyped, TimersTyped, OutcomesTyped, LimiterTyped, CacheTyped, Places, Last

\* Sequences over a subset are sequences over the set.
LEMMA SeqIsMonotonic ==
    ASSUME NEW S, NEW T, S \subseteq T, NEW s \in Seq(S)
    PROVE  s \in Seq(T)
<1>1. Len(s) \in Nat /\ s \in [1..Len(s) -> S]
  BY LenProperties
<1>2. s \in [1..Len(s) -> T]
  BY <1>1
<1> QED BY <1>1, <1>2, IsASeq

\* A call that is at p in the chain at place a, in attempt t, executed r times.
Forward == {"new", "before", "queued", "limited", "execute"}
Proper(p, a, t, r) ==
    /\ p \in {"before", "queued", "limited"} => a \in 1..Last
    /\ p \in {"queued", "limited"} => Chain[a] = "rate"
    /\ p \in {"on_error", "delayed"} => a \in 0..Last
    /\ p = "after" => a \in 0..Last /\ (a > 0 => Chain[a] = "cache")
    /\ p \in Forward => r <= t
    /\ r <= t + 1
    /\ p = "backoff" => t < Retries

AllProper == \A c \in Calls : Proper(pc[c], at[c], attempt[c], runs[c])
Controlled == CallsTyped /\ AllProper

\* A step that moves one call to a proper place leaves all in proper places.
LEMMA OneMoves ==
    ASSUME Controlled, NEW c \in Calls,
           NEW p \in Places, NEW a \in 0..(Last + 1), NEW t \in 0..Retries,
                 NEW r \in 0..(Retries + 1),
           Proper(p, a, t, r),
           pc' = [pc EXCEPT ![c] = p], at' = [at EXCEPT ![c] = a],
           attempt' = [attempt EXCEPT ![c] = t], runs' = [runs EXCEPT ![c] = r]
    PROVE  Controlled'
<1>1. CallsTyped'
  BY DEF Controlled, CallsTyped
<1>2. ASSUME NEW d \in Calls PROVE Proper(pc'[d], at'[d], attempt'[d], runs'[d])
  <2>1. CASE d = c
    <3>1. pc'[d] = p /\ at'[d] = a /\ attempt'[d] = t /\ runs'[d] = r
      BY <2>1 DEF Controlled, CallsTyped
    <3> QED BY <3>1
  <2>2. CASE d # c
    <3>1. pc'[d] = pc[d] /\ at'[d] = at[d] /\ attempt'[d] = attempt[d] /\ runs'[d] = runs[d]
      BY <2>2 DEF Controlled, CallsTyped
    <3>2. Proper(pc[d], at[d], attempt[d], runs[d])
      BY DEF Controlled, AllProper
    <3> QED BY <3>1, <3>2
  <2> QED BY <2>1, <2>2
<1> QED BY <1>1, <1>2 DEF Controlled, AllProper

\* What holds of every call.
LEMMA OneIs ==
    ASSUME Controlled, NEW c \in Calls
    PROVE  /\ pc[c] \in Places /\ at[c] \in 0..(Last + 1) /\ attempt[c] \in 0..Retries
           /\ runs[c] \in 0..(Retries + 1) /\ Proper(pc[c], at[c], attempt[c], runs[c])
           /\ pc = [pc EXCEPT ![c] = pc[c]] /\ at = [at EXCEPT ![c] = at[c]]
           /\ attempt = [attempt EXCEPT ![c] = attempt[c]] /\ runs = [runs EXCEPT ![c] = runs[c]]
  BY DEF Controlled, CallsTyped, AllProper

\* The before hooks passed over, up to the next one that suspends or the execution.
LEMMA ForwardsControlled ==
    ASSUME Controlled, NEW c \in Calls, NEW i \in 0..Last, ForwardsFrom(c, i),
           NEW t \in 0..Retries, runs[c] <= t, attempt' = [attempt EXCEPT ![c] = t],
                 runs' = runs
    PROVE  Controlled'
<1>1. PICK n \in (i + 1)..(Last + 1) :
             /\ at' = [at EXCEPT ![c] = n]
             /\ pc' = [pc EXCEPT ![c] = IF n = Last + 1 THEN "execute" ELSE "before"]
  BY GoesForwards
<1> DEFINE p == IF n = Last + 1 THEN "execute" ELSE "before"
<1> HIDE DEF p
<1>n. Last \in Nat /\ n \in 1..(Last + 1) /\ runs[c] \in Nat /\ t \in Nat
  <2>1. Last \in Nat /\ Retries \in Nat
    BY Constants
  <2>2. runs[c] \in 0..(Retries + 1)
    BY OneIs
  <2> QED BY <2>1, <2>2
<1>p. p \in {"execute", "before"} /\ (p = "before" => n # Last + 1)
  BY DEF p
<1>2. n \in 0..(Last + 1) /\ p \in Places /\ Proper(p, n, t, runs[c])
  <2>1. n \in 0..(Last + 1) /\ p \in Places
    BY <1>n, <1>p DEF Places
  <2>2. Proper(p, n, t, runs[c])
    BY <1>n, <1>p DEF Proper
  <2> QED BY <2>1, <2>2
<1>3. runs[c] \in 0..(Retries + 1) /\ runs' = [runs EXCEPT ![c] = runs[c]]
  BY OneIs
<1> QED BY <1>1, <1>2, <1>3, OneMoves DEF p

\* Back to a hook of kinds, p being what those hooks are.
LEMMA BackwardsControlled ==
    ASSUME Controlled, NEW c \in Calls, NEW i \in 1..(Last + 1), NEW kinds,
           Backwards(c, i, kinds),
           NEW p \in {"on_error", "delayed", "after"}, p = "after" => kinds = {"cache"},
           NEW r \in 0..(Retries + 1), r <= attempt[c] + 1,
           pc' = [pc EXCEPT ![c] = p], runs' = [runs EXCEPT ![c] = r], attempt' = attempt
    PROVE  Controlled'
<1>1. PICK n \in 0..(i - 1) : at' = [at EXCEPT ![c] = n] /\ (n > 0 => n <= Last /\ Chain[n] \in kinds)
  BY GoesBackwards
<1>n. Last \in Nat /\ n \in 0..Last
  BY <1>1, Constants
<1>2. n \in 0..(Last + 1) /\ p \in Places /\ Proper(p, n, attempt[c], r)
  <2>1. n \in 0..(Last + 1) /\ p \in Places
    BY <1>n DEF Places, Sleeping
  <2>2. p = "after" => (n > 0 => Chain[n] = "cache")
    BY <1>1
  <2>3. Proper(p, n, attempt[c], r)
    BY <1>n, <2>2 DEF Proper, Forward
  <2> QED BY <2>1, <2>3
<1>3. attempt[c] \in 0..Retries /\ attempt' = [attempt EXCEPT ![c] = attempt[c]]
  BY OneIs
<1> QED BY <1>1, <1>2, <1>3, OneMoves

\* A call that stays in its place.
LEMMA StaysControlled ==
    ASSUME Controlled, NEW c \in Calls, NEW p \in Places, Proper(p, at[c], attempt[c], runs[c]),
           pc' = [pc EXCEPT ![c] = p], UNCHANGED <<at, attempt, runs>>
    PROVE  Controlled'
<1>1. /\ at[c] \in 0..(Last + 1) /\ attempt[c] \in 0..Retries /\ runs[c] \in 0..(Retries + 1)
      /\ at' = [at EXCEPT ![c] = at[c]]
      /\ attempt' = [attempt EXCEPT ![c] = attempt[c]] /\ runs' = [runs EXCEPT ![c] = runs[c]]
  BY OneIs
<1> QED BY <1>1, OneMoves

\* An attempt that ends with an error.
LEMMA FailsControlled ==
    ASSUME Controlled, NEW c \in Calls, NEW e, AttemptFails(c, e), UNCHANGED <<at, attempt,
           runs>>
    PROVE  Controlled'
<1>1. PICK p \in {"backoff", "raised"} :
          pc' = [pc EXCEPT ![c] = p] /\ (p = "backoff" => attempt[c] < Retries)
  BY DEF AttemptFails, Sleep, GoTo
<1>2. p \in Places /\ Proper(p, at[c], attempt[c], runs[c])
  BY <1>1, OneIs DEF Proper, Places, Sleeping, Ended, Forward
<1> QED BY <1>1, <1>2, StaysControlled

\* The limiter's two ways out: through, or into its sleep.
LEMMA RefillControlled ==
    ASSUME Controlled, NEW c \in Calls, NEW rest, Refill(c, rest),
           pc[c] \in {"before", "queued"},
           Chain[at[c]] = "rate", UNCHANGED <<attempt, runs>>
    PROVE  Controlled'
<1>1. CASE /\ Sleep(c, "limited", Period - (IF tokens + now - lastRefill > Full THEN Full
                                           ELSE tokens + now - lastRefill))
           /\ at' = at
  <2>1. "limited" \in Places /\ Proper("limited", at[c], attempt[c], runs[c])
    BY OneIs DEF Proper, Places, Sleeping, Forward
  <2> QED BY <1>1, <2>1, StaysControlled DEF Sleep, GoTo
<1>2. CASE Forwards(c)
  <2>1. /\ at[c] \in 0..Last /\ runs[c] <= attempt[c] /\ attempt[c] \in 0..Retries
        /\ attempt' = [attempt EXCEPT ![c] = attempt[c]]
    BY OneIs, Constants DEF Proper, Forward
  <2> QED BY <1>2, <2>1, ForwardsControlled DEF Forwards
<1> QED BY <1>1, <1>2 DEF Refill

\* Calls are in proper places after every step.
LEMMA ControlStays ==
    ASSUME Controlled, [Next]_vars
    PROVE  Controlled'
<1>1. CASE Tick
  BY <1>1 DEF Tick, Controlled, CallsTyped, AllProper
<1>2. ASSUME NEW c \in Calls, Call(c) PROVE Controlled'
  <2>1. ForwardsFrom(c, 0) /\ 0 \in 0..Last
    BY <1>2, OneIs, Constants DEF Call, Attempt
  <2>2. /\ attempt[c] \in 0..Retries /\ runs[c] <= attempt[c]
        /\ attempt' = [attempt EXCEPT ![c] = attempt[c]] /\ runs' = runs
    BY <1>2, OneIs DEF Call, Proper, Forward
  <2> QED BY <2>1, <2>2, ForwardsControlled
<1>3. ASSUME NEW c \in Calls, Again(c) PROVE Controlled'
  <2>1. ForwardsFrom(c, 0) /\ 0 \in 0..Last
    BY <1>3, OneIs, Constants DEF Again, Attempt
  <2>2. /\ (attempt[c] + 1) \in 0..Retries /\ runs[c] <= (attempt[c] + 1)
        /\ attempt' = [attempt EXCEPT ![c] = (attempt[c] + 1)] /\ runs' = runs
    BY <1>3, OneIs DEF Again, Proper
  <2> QED BY <2>1, <2>2, ForwardsControlled
<1>4. ASSUME NEW c \in Calls, Before(c) PROVE Controlled'
  <2>1. ForwardsFrom(c, at[c]) /\ at[c] \in 0..Last
    BY <1>4, OneIs, Constants DEF Before, Forwards, Proper
  <2>2. /\ attempt[c] \in 0..Retries /\ runs[c] <= attempt[c]
        /\ attempt' = [attempt EXCEPT ![c] = attempt[c]] /\ runs' = runs
    BY <1>4, OneIs DEF Before, Proper, Forward
  <2> QED BY <2>1, <2>2, ForwardsControlled
<1>5. ASSUME NEW c \in Calls, Limit(c) PROVE Controlled'
  <2>1. CASE \E rest : Refill(c, rest)
    BY <1>5, <2>1, RefillControlled DEF Limit
  <2>2. CASE GoTo(c, "queued") /\ at' = at
    <3>1. "queued" \in Places /\ Proper("queued", at[c], attempt[c], runs[c])
      BY <1>5, OneIs DEF Limit, Proper, Places, Forward
    <3> QED BY <1>5, <2>2, <3>1, StaysControlled DEF Limit, GoTo
  <2> QED BY <1>5, <2>1, <2>2 DEF Limit
<1>6. ASSUME NEW c \in Calls, GetLock(c) PROVE Controlled'
  <2>1. Chain[at[c]] = "rate"
    BY <1>6, OneIs DEF GetLock, Proper
  <2> QED BY <1>6, <2>1, RefillControlled DEF GetLock
<1>7. ASSUME NEW c \in Calls, LimitPassed(c) PROVE Controlled'
  <2>1. ForwardsFrom(c, at[c]) /\ at[c] \in 0..Last
    BY <1>7, OneIs, Constants DEF LimitPassed, Forwards, Proper
  <2>2. /\ attempt[c] \in 0..Retries /\ runs[c] <= attempt[c]
        /\ attempt' = [attempt EXCEPT ![c] = attempt[c]] /\ runs' = runs
    BY <1>7, OneIs DEF LimitPassed, Proper, Forward
  <2> QED BY <2>1, <2>2, ForwardsControlled
<1>8. ASSUME NEW c \in Calls, Returns(c) PROVE Controlled'
  <2>1. (Last + 1) \in 1..(Last + 1) /\ Backwards(c, (Last + 1), {"cache"})
    BY <1>8, OneIs, Constants DEF Returns, Last
  <2>2. (runs[c] + 1) \in 0..(Retries + 1) /\ (runs[c] + 1) <= attempt[c] + 1
    <3>1. runs[c] <= attempt[c]
      BY <1>8, OneIs DEF Returns, Proper, Forward
    <3>2. Retries \in Nat /\ runs[c] \in 0..(Retries + 1) /\ attempt[c] \in 0..Retries
      BY OneIs, Constants
    <3> QED BY <3>1, <3>2
  <2>3. pc' = [pc EXCEPT ![c] = "after"] /\ runs' = [runs EXCEPT ![c] = (runs[c] + 1)] /\ attempt' = attempt
    BY <1>8, OneIs DEF Returns, GoTo, Executed
  <2> QED BY <2>1, <2>2, <2>3, BackwardsControlled
<1>9. ASSUME NEW c \in Calls, OnError(c) PROVE Controlled'
  <2>1. at[c] \in 1..(Last + 1) /\ Backwards(c, at[c], Handling)
    BY <1>9, OneIs DEF OnError
  <2>2. PICK p \in {"on_error", "delayed"} : pc' = [pc EXCEPT ![c] = p]
    BY <1>9, OneIs DEF OnError, Sleep, GoTo
  <2>3. /\ runs[c] \in 0..(Retries + 1) /\ runs[c] <= attempt[c] + 1
        /\ runs' = [runs EXCEPT ![c] = runs[c]] /\ attempt' = attempt
    BY <1>9, OneIs DEF OnError, Proper
  <2> QED BY <2>1, <2>2, <2>3, BackwardsControlled
<1>10. ASSUME NEW c \in Calls, Delayed(c) PROVE Controlled'
  <2>1. "on_error" \in Places /\ Proper("on_error", at[c], attempt[c], runs[c])
    BY <1>10, OneIs DEF Delayed, Proper, Places, Forward
  <2>2. pc' = [pc EXCEPT ![c] = "on_error"] /\ UNCHANGED <<at, attempt, runs>>
    BY <1>10, OneIs DEF Delayed, GoTo
  <2> QED BY <2>1, <2>2, StaysControlled
<1>11. ASSUME NEW c \in Calls, ErrorHandled(c) PROVE Controlled'
  <2>1. CASE AttemptFails(c, error[c]) /\ at' = at
    BY <1>11, <2>1, FailsControlled DEF ErrorHandled
  <2>2. CASE Backwards(c, Len(Chain) + 1, {"cache"}) /\ GoTo(c, "after")
    <3>1. /\ Last + 1 \in 1..(Last + 1) /\ Backwards(c, Last + 1, {"cache"})
          /\ pc' = [pc EXCEPT ![c] = "after"]
      BY <2>2, Constants DEF Last, GoTo
    <3>2. /\ runs[c] \in 0..(Retries + 1) /\ runs[c] <= attempt[c] + 1
          /\ runs' = [runs EXCEPT ![c] = runs[c]] /\ attempt' = attempt
      BY <1>11, OneIs DEF ErrorHandled, Proper
    <3> QED BY <3>1, <3>2, BackwardsControlled
  <2> QED BY <1>11, <2>1, <2>2 DEF ErrorHandled
<1>12. ASSUME NEW c \in Calls, After(c) PROVE Controlled'
  <2>1. CASE GoTo(c, "returned") /\ at' = at
    <3>1. "returned" \in Places /\ Proper("returned", at[c], attempt[c], runs[c])
      BY <1>12, OneIs DEF Proper, Places, Ended, Forward
    <3> QED BY <1>12, <2>1, <3>1, StaysControlled DEF After, GoTo
  <2>2. CASE at[c] # 0 /\ Backwards(c, at[c], {"cache"}) /\ pc' = pc
    <3>1. at[c] \in 1..(Last + 1) /\ pc' = [pc EXCEPT ![c] = "after"]
      BY <1>12, <2>2, OneIs DEF After
    <3>2. /\ runs[c] \in 0..(Retries + 1) /\ runs[c] <= attempt[c] + 1
          /\ runs' = [runs EXCEPT ![c] = runs[c]] /\ attempt' = attempt
      BY <1>12, OneIs DEF After, Proper
    <3> QED BY <2>2, <3>1, <3>2, BackwardsControlled
  <2> QED BY <1>12, <2>1, <2>2 DEF After
<1>13. ASSUME NEW c \in Calls, Cancel(c) PROVE Controlled'
  <2>1. "cancelled" \in Places /\ Proper("cancelled", at[c], attempt[c], runs[c])
    BY <1>13, OneIs DEF Proper, Places, Ended, Forward
  <2>2. pc' = [pc EXCEPT ![c] = "cancelled"] /\ UNCHANGED <<at, attempt, runs>>
    BY <1>13, OneIs DEF Cancel, GoTo
  <2> QED BY <2>1, <2>2, StaysControlled
<1>14. ASSUME NEW c \in Calls, NEW e \in Errors, BeforeRaises(c, e) PROVE Controlled'
  BY <1>14, FailsControlled DEF BeforeRaises
<1>15. ASSUME NEW c \in Calls, NEW e \in Errors, Raises(c, e) PROVE Controlled'
  <2>1. (Last + 1) \in 1..(Last + 1) /\ Backwards(c, (Last + 1), Handling)
    BY <1>15, OneIs, Constants DEF Raises, Last
  <2>2. (runs[c] + 1) \in 0..(Retries + 1) /\ (runs[c] + 1) <= attempt[c] + 1
    <3>1. runs[c] <= attempt[c]
      BY <1>15, OneIs DEF Raises, Proper, Forward
    <3>2. Retries \in Nat /\ runs[c] \in 0..(Retries + 1) /\ attempt[c] \in 0..Retries
      BY OneIs, Constants
    <3> QED BY <3>1, <3>2
  <2>3. /\ pc' = [pc EXCEPT ![c] = "on_error"] /\ runs' = [runs EXCEPT ![c] = (runs[c] + 1)]
        /\ attempt' = attempt
    BY <1>15, OneIs DEF Raises, GoTo, Executed
  <2> QED BY <2>1, <2>2, <2>3, BackwardsControlled
<1>16. CASE UNCHANGED vars
  BY <1>16 DEF Controlled, CallsTyped, AllProper
<1> QED BY <1>1, <1>2, <1>3, <1>4, <1>5, <1>6, <1>7, <1>8, <1>9, <1>10, <1>11, <1>12, <1>13,
           <1>14, <1>15, <1>16 DEF Next, Step


-----------------------------------------------------------------------------
(* Of two calls, a step of the one leaves the other where it is.            *)

\* A step of one call touches no other.
LEMMA OthersWait ==
    ASSUME NEW c \in Calls, Call(c) \/ Step(c) \/ Cancel(c), NEW d \in Calls \ {c},
           CallsTyped, OutcomesTyped, TimersTyped
    PROVE  /\ pc'[d] = pc[d] /\ at'[d] = at[d] /\ runs'[d] = runs[d] /\ wakeAt'[d] = wakeAt[d]
           /\ hit'[d] = hit[d] /\ result'[d] = result[d]
<1>1. CASE Call(c)
  BY <1>1 DEF Call, GoTo, ForwardsFrom, Attempt
<1>2. CASE Again(c)
  BY <1>2 DEF Again, GoTo, Wake, ForwardsFrom, Attempt
<1>3. CASE Before(c)
  BY <1>3 DEF Before, GoTo, ForwardsFrom, Forwards
<1>4. CASE Limit(c)
  BY <1>4 DEF Limit, GoTo, Sleep, ForwardsFrom, Forwards, Refill, CallsTyped, TimersTyped
<1>5. CASE GetLock(c)
  BY <1>5 DEF GetLock, GoTo, Sleep, ForwardsFrom, Forwards, Refill, CallsTyped, TimersTyped
<1>6. CASE LimitPassed(c)
  BY <1>6 DEF LimitPassed, GoTo, Wake, ForwardsFrom, Forwards
<1>7. CASE Returns(c)
  BY <1>7 DEF Returns, GoTo, Backwards, Executed
<1>8. CASE OnError(c)
  BY <1>8 DEF OnError, GoTo, Sleep, Backwards, CallsTyped, OutcomesTyped, TimersTyped
<1>9. CASE Delayed(c)
  BY <1>9 DEF Delayed, GoTo, Wake
<1>10. CASE ErrorHandled(c)
  BY <1>10 DEF ErrorHandled, GoTo, Sleep, Backwards, AttemptFails, CallsTyped, TimersTyped
<1>11. CASE After(c)
  BY <1>11 DEF After, GoTo, Backwards, CacheAfter, CallsTyped, OutcomesTyped
<1>12. CASE Cancel(c)
  BY <1>12 DEF Cancel, GoTo
<1>13. CASE \E e \in Errors : BeforeRaises(c, e)
  BY <1>13 DEF BeforeRaises, GoTo, Sleep, AttemptFails, CallsTyped, TimersTyped
<1>14. CASE \E e \in Errors : Raises(c, e)
  BY <1>14 DEF Raises, GoTo, Backwards, Executed
<1> QED BY <1>1, <1>2, <1>3, <1>4, <1>5, <1>6, <1>7, <1>8, <1>9, <1>10, <1>11, <1>12, <1>13,
           <1>14 DEF Step

\* The clock and the bucket.
LEMMA NowIs ==
    ASSUME LimiterTyped
    PROVE  now \in Nat /\ lastRefill \in 0..now /\ tokens \in Nat /\ tokens <= Full
<1>1. Full \in Nat
  BY Constants
<1> QED BY <1>1 DEF LimiterTyped

\* A sleep that begins ends within Period.
LEMMA TimerSet ==
    ASSUME TimersTyped, now \in Nat, now' = now, NEW c \in Calls, NEW ticks \in 0..Period,
           wakeAt' = [wakeAt EXCEPT ![c] = now + ticks],
                 error' \in [Calls -> Errors \cup {"none"}]
    PROVE  TimersTyped'
<1>1. now + ticks \in 0..(now + Period)
  BY Constants
<1> QED BY <1>1 DEF TimersTyped

\* The limiter sets a timer within Period.
LEMMA RefillTimers ==
    ASSUME TimersTyped, now \in Nat, tokens \in Nat, lastRefill \in 0..now, now' = now,
           error' = error,
           NEW c \in Calls, NEW rest, Refill(c, rest)
    PROVE  TimersTyped'
<1> DEFINE filled == IF tokens + now - lastRefill > Full THEN Full ELSE tokens + now - lastRefill
<1>1. filled \in Nat /\ Period \in Nat
  BY Constants
<1>2. error' \in [Calls -> Errors \cup {"none"}]
  BY DEF TimersTyped
<1>3. \/ filled < Period /\ wakeAt' = [wakeAt EXCEPT ![c] = now + (Period - filled)]
      \/ wakeAt' = wakeAt
  BY DEF Refill, Sleep
<1> HIDE DEF filled
<1>4. CASE filled < Period /\ wakeAt' = [wakeAt EXCEPT ![c] = now + (Period - filled)]
  <2>1. Period - filled \in 0..Period
    BY <1>1, <1>4
  <2> QED BY <1>2, <1>4, <2>1, TimerSet
<1>5. CASE wakeAt' = wakeAt
  BY <1>2, <1>5 DEF TimersTyped
<1> QED BY <1>3, <1>4, <1>5

\* So does an attempt that is to be retried.
LEMMA FailsTimers ==
    ASSUME TimersTyped, now \in Nat, now' = now, NEW c \in Calls,
           NEW e \in Errors \cup {"none"}, AttemptFails(c, e)
    PROVE  TimersTyped'
<1>1. error' \in [Calls -> Errors \cup {"none"}]
  BY DEF TimersTyped, AttemptFails
<1>2. 1 \in 0..Period
  BY Constants
<1>3. CASE wakeAt' = [wakeAt EXCEPT ![c] = now + 1]
  BY <1>1, <1>2, <1>3, TimerSet
<1>4. CASE wakeAt' = wakeAt
  BY <1>1, <1>4 DEF TimersTyped
<1> QED BY <1>3, <1>4 DEF AttemptFails, Sleep

\* Every sleep ends within Period from now, after every step.
LEMMA TimersStay ==
    ASSUME TimersTyped, now \in Nat, tokens \in Nat, lastRefill \in 0..now, [Next]_vars
    PROVE  TimersTyped'
<1>a. Period \in Nat \ {0} /\ Full \in Nat
  BY Constants
<1>1. CASE Tick
  BY <1>1, <1>a DEF Tick, TimersTyped
<1>2. ASSUME NEW c \in Calls, Call(c) PROVE TimersTyped'
  BY <1>2, <1>a DEF Call, TimersTyped, Attempt
<1>3. ASSUME NEW c \in Calls, Again(c) PROVE TimersTyped'
  BY <1>3, <1>a DEF Again, TimersTyped, Wake, Attempt
<1>4. ASSUME NEW c \in Calls, Before(c) PROVE TimersTyped'
  BY <1>4, <1>a DEF Before, TimersTyped
<1>5. ASSUME NEW c \in Calls, Limit(c) PROVE TimersTyped'
  <2>1. now' = now /\ error' = error
    BY <1>5 DEF Limit
  <2>2. CASE Refill(c, <<>>)
    BY <2>1, <2>2, RefillTimers
  <2>3. CASE wakeAt' = wakeAt
    BY <2>1, <2>3 DEF TimersTyped
  <2> QED BY <1>5, <2>2, <2>3 DEF Limit
<1>6. ASSUME NEW c \in Calls, GetLock(c) PROVE TimersTyped'
  BY <1>6, RefillTimers DEF GetLock
<1>7. ASSUME NEW c \in Calls, LimitPassed(c) PROVE TimersTyped'
  BY <1>7, <1>a DEF LimitPassed, TimersTyped, Wake
<1>8. ASSUME NEW c \in Calls, Returns(c) PROVE TimersTyped'
  BY <1>8, <1>a DEF Returns, TimersTyped
<1>9. ASSUME NEW c \in Calls, OnError(c) PROVE TimersTyped'
  <2>1. now' = now /\ error' \in [Calls -> Errors \cup {"none"}] /\ 1 \in 0..Period
    BY <1>9, <1>a DEF OnError, TimersTyped
  <2>2. CASE wakeAt' = [wakeAt EXCEPT ![c] = now + 1]
    BY <2>1, <2>2, TimerSet
  <2>3. CASE wakeAt' = wakeAt
    BY <2>1, <2>3 DEF TimersTyped
  <2> QED BY <1>9, <2>2, <2>3 DEF OnError, Sleep
<1>10. ASSUME NEW c \in Calls, Delayed(c) PROVE TimersTyped'
  BY <1>10, <1>a DEF Delayed, TimersTyped, Wake
<1>11. ASSUME NEW c \in Calls, ErrorHandled(c) PROVE TimersTyped'
  <2>1. now' = now /\ error[c] \in Errors \cup {"none"}
    BY <1>11 DEF ErrorHandled, TimersTyped
  <2>2. CASE AttemptFails(c, error[c])
    BY <2>1, <2>2, FailsTimers
  <2>3. CASE UNCHANGED <<error, wakeAt>>
    BY <2>1, <2>3 DEF TimersTyped
  <2> QED BY <1>11, <2>2, <2>3 DEF ErrorHandled
<1>12. ASSUME NEW c \in Calls, After(c) PROVE TimersTyped'
  BY <1>12, <1>a DEF After, TimersTyped
<1>13. ASSUME NEW c \in Calls, Cancel(c) PROVE TimersTyped'
  BY <1>13, <1>a DEF Cancel, TimersTyped
<1>14. ASSUME NEW c \in Calls, NEW e \in Errors, BeforeRaises(c, e) PROVE TimersTyped'
  BY <1>14, FailsTimers DEF BeforeRaises
<1>15. ASSUME NEW c \in Calls, NEW e \in Errors, Raises(c, e) PROVE TimersTyped'
  BY <1>15, <1>a DEF Raises, TimersTyped
<1>16. CASE UNCHANGED vars
  BY <1>16, <1>a DEF TimersTyped
<1> QED BY <1>1, <1>2, <1>3, <1>4, <1>5, <1>6, <1>7, <1>8, <1>9, <1>10, <1>11, <1>12, <1>13,
           <1>14, <1>15, <1>16 DEF Next, Step

\* Pass appends one entry to the passes.
LEMMA Passing ==
    ASSUME LimiterTyped, NEW c \in Calls, Pass(c), now' = now
    PROVE  /\ passes' \in Seq([call : Calls, time : 0..now'])
           /\ Len(passes) \in Nat /\ Len(passes') = Len(passes) + 1
           /\ \A i \in 1..Len(passes) :
                 passes'[i] = passes[i] /\ passes[i].time \in 0..now /\ passes[i].call \in Calls
           /\ passes'[Len(passes) + 1] = [call |-> c, time |-> now]
<1>1. passes \in Seq([call : Calls, time : 0..now]) /\ now \in Nat
  BY DEF LimiterTyped
<1>2. [call |-> c, time |-> now] \in [call : Calls, time : 0..now]
  BY <1>1
<1>3. passes' = Append(passes, [call |-> c, time |-> now])
  BY DEF Pass
<1>4. /\ passes' \in Seq([call : Calls, time : 0..now]) /\ Len(passes') = Len(passes) + 1
      /\ \A i \in 1..Len(passes) : passes'[i] = passes[i]
      /\ passes'[Len(passes) + 1] = [call |-> c, time |-> now]
  BY <1>1, <1>2, <1>3, AppendProperties
<1>5. Len(passes) \in Nat
  BY <1>1, LenProperties
<1>6. ASSUME NEW i \in 1..Len(passes) PROVE passes[i].time \in 0..now /\ passes[i].call \in Calls
  <2>1. passes[i] \in [call : Calls, time : 0..now]
    BY <1>1, ElementOfSeq
  <2> QED BY <2>1
<1>7. passes' \in Seq([call : Calls, time : 0..now'])
  BY <1>4
<1>8. \A i \in 1..Len(passes) :
         passes'[i] = passes[i] /\ passes[i].time \in 0..now /\ passes[i].call \in Calls
  BY <1>4, <1>6, Zenon
<1>9. Len(passes') = Len(passes) + 1 /\ passes'[Len(passes) + 1] = [call |-> c, time |-> now]
  BY <1>4
<1> QED BY <1>5, <1>7, <1>8, <1>9


-----------------------------------------------------------------------------
(* The lock: who sleeps in the limiter has it, who waits for it is in line.  *)

LineOK == \A c \in Calls :
    /\ pc[c] = "queued" => Occurs(c, line)
    /\ pc[c] = "limited" => line # <<>> /\ line[1] = c

\* c comes to p, the line stays.
LEMMA SameLine ==
    ASSUME LineOK, NEW c \in Calls, line' = line, pc'[c] \notin {"queued", "limited"},
           \A d \in Calls \ {c} : pc'[d] = pc[d]
    PROVE  LineOK'
  BY DEF LineOK

\* The first of the line leaves it.
LEMMA FirstLeaves ==
    ASSUME LineOK, line \in Seq(Calls), NEW c \in Calls, line # <<>>, line[1] = c,
           line' = Tail(line),
           pc'[c] \notin {"queued", "limited"}, \A d \in Calls \ {c} : pc'[d] = pc[d]
    PROVE  LineOK'
<1>1. Len(line) \in Nat /\ Len(line') = Len(line) - 1 /\ \A i \in 1..Len(line) - 1 : line'[i] = line[i + 1]
  BY HeadTailProperties, LenProperties
<1>2. ASSUME NEW d \in Calls \ {c}, pc'[d] = "queued" PROVE Occurs(d, line')
  <2>1. PICK i \in 1..Len(line) : line[i] = d
    BY <1>2 DEF LineOK, Occurs
  <2>2. i - 1 \in 1..Len(line) - 1 /\ (i - 1) + 1 = i
    BY <1>1, <2>1
  <2>3. line'[i - 1] = d
    BY <1>1, <2>1, <2>2
  <2> QED BY <1>1, <2>2, <2>3 DEF Occurs
<1>3. ASSUME NEW d \in Calls \ {c}, pc'[d] = "limited" PROVE FALSE
  BY <1>3 DEF LineOK
<1> QED BY <1>2, <1>3 DEF LineOK

\* A call that queues joins the end of the line.
LEMMA OneJoins ==
    ASSUME LineOK, line \in Seq(Calls), NEW c \in Calls, line # <<>>, line' = Append(line, c),
           pc'[c] = "queued", \A d \in Calls \ {c} : pc'[d] = pc[d]
    PROVE  LineOK'
<1>1. /\ Len(line) \in Nat /\ Len(line') = Len(line) + 1 /\ line'[Len(line) + 1] = c
      /\ \A i \in 1..Len(line) : line'[i] = line[i]
  BY AppendProperties, LenProperties
<1>2. Len(line) # 0
  BY EmptySeq
<1>3. line' # <<>> /\ line'[1] = line[1]
  <2>1. 1 \in 1..Len(line)
    BY <1>1, <1>2
  <2>2. line'[1] = line[1]
    BY <1>1, <2>1
  <2>3. Append(line, c) # <<>>
    BY AppendProperties
  <2> QED BY <2>2, <2>3
<1>4. ASSUME NEW d \in Calls, pc'[d] = "queued" PROVE Occurs(d, line')
  <2>1. CASE d = c
    BY <1>1, <2>1 DEF Occurs
  <2>2. CASE d # c
    <3>1. PICK i \in 1..Len(line) : line[i] = d
      BY <1>4, <2>2 DEF LineOK, Occurs
    <3>2. i \in 1..Len(line') /\ line'[i] = d
      BY <1>1, <3>1
    <3> QED BY <3>2 DEF Occurs
  <2> QED BY <2>1, <2>2
<1>5. ASSUME NEW d \in Calls, pc'[d] = "limited" PROVE line' # <<>> /\ line'[1] = d
  <2>1. d # c /\ pc[d] = "limited"
    BY <1>5
  <2> QED BY <1>3, <2>1 DEF LineOK
<1> QED BY <1>4, <1>5 DEF LineOK

\* With the lock, or before anybody has it, nobody else sleeps.
Holding(c, rest) ==
    /\ \/ line = <<>> /\ rest = <<>>
       \/ line # <<>> /\ line[1] = c /\ rest = Tail(line) /\ pc[c] = "queued"
    /\ pc[c] \in {"before", "queued"}

\* While a call gets the lock, nobody sleeps with it.
LEMMA HolderAlone == ASSUME LineOK, NEW c \in Calls, NEW rest,
      Holding(c, rest) PROVE \A d \in Calls : pc[d] # "limited"
  BY DEF LineOK, Holding

\* Passing over hooks ends before a hook or at the execution.
LEMMA AfterForwards ==
    ASSUME CallsTyped, NEW c \in Calls, NEW i \in 0..Last, ForwardsFrom(c, i)
    PROVE  pc'[c] \in {"execute", "before"}
  BY GoesForwards DEF CallsTyped

\* Refill keeps the lock for the sleep or hands it to the next in line.
LEMMA RefillLine ==
    ASSUME LineOK, line \in Seq(Calls), CallsTyped, NEW c \in Calls, NEW rest,
           Holding(c, rest), Refill(c, rest),
           at[c] \in 0..Last, \A d \in Calls \ {c} : pc'[d] = pc[d]
    PROVE  LineOK'
<1>1. CASE GoTo(c, "limited") /\ line' = <<c>> \o rest
  <2>1. pc'[c] = "limited"
    BY <1>1 DEF GoTo, CallsTyped
  <2>2. CASE line = <<>> /\ rest = <<>>
    <3>1. line' = <<c>>
      BY <1>1, <2>2
    <3>2. line' # <<>> /\ line'[1] = c
      BY <3>1
    <3>3. ASSUME NEW d \in Calls \ {c} PROVE pc'[d] \notin {"limited", "queued"}
      <4>1. ~Occurs(d, line)
        BY <2>2 DEF Occurs
      <4> QED BY <4>1, HolderAlone DEF LineOK
    <3> QED BY <2>1, <3>2, <3>3 DEF LineOK
  <2>3. CASE line # <<>> /\ line[1] = c /\ rest = Tail(line)
    <3>1. line' = line
      <4>1. line = <<Head(line)>> \o Tail(line)
        BY <2>3
      <4> QED BY <1>1, <2>3, <4>1
    <3>2. ASSUME NEW d \in Calls \ {c} PROVE pc'[d] # "limited" /\ (pc'[d] = "queued" => Occurs(d, line))
      BY HolderAlone DEF LineOK
    <3> QED BY <2>1, <2>3, <3>1, <3>2 DEF LineOK
  <2> QED BY <2>2, <2>3 DEF Holding
<1>2. CASE Forwards(c) /\ line' = rest
  <2>1. pc'[c] \notin {"queued", "limited"}
    BY <1>2, AfterForwards DEF Forwards
  <2>2. CASE line = <<>> /\ rest = <<>>
    BY <1>2, <2>1, <2>2, SameLine
  <2>3. CASE line # <<>> /\ line[1] = c /\ rest = Tail(line)
    BY <1>2, <2>1, <2>3, FirstLeaves
  <2> QED BY <2>2, <2>3 DEF Holding
<1> QED BY <1>1, <1>2 DEF Refill, Sleep

\* A cancelled call leaves the line, which keeps its order.
LEMMA QuittingLine ==
    ASSUME LineOK, line \in Seq(Calls), NEW c \in Calls, line' = LineWithout(c),
           pc'[c] = "cancelled",
           \A d \in Calls \ {c} : pc'[d] = pc[d]
    PROVE  LineOK'
<1>1. ASSUME NEW d \in Calls, pc'[d] = "queued" PROVE Occurs(d, line')
  <2>1. d # c /\ Occurs(d, line)
    BY <1>1 DEF LineOK
  <2> QED BY <2>1, WithoutIsLine
<1>2. ASSUME NEW d \in Calls, pc'[d] = "limited" PROVE line' # <<>> /\ line'[1] = d
  <2>1. d # c /\ line # <<>> /\ line[1] = d
    BY <1>2 DEF LineOK
  <2> QED BY <2>1, WithoutIsLine
<1> QED BY <1>1, <1>2 DEF LineOK

\* The steps that leave the limiter alone, of calls that neither sleep in it nor
\* wait for it, before or after.
Elsewhere(c) ==
    \/ Call(c) \/ Again(c) \/ Before(c) \/ Returns(c) \/ OnError(c) \/ Delayed(c)
    \/ ErrorHandled(c) \/ After(c)
    \/ \E e \in Errors : BeforeRaises(c, e) \/ Raises(c, e)

\* Away from the limiter nothing of the limiter changes.
LEMMA ElsewhereIs ==
    ASSUME Controlled, NEW c \in Calls, Elsewhere(c)
    PROVE  /\ UNCHANGED <<now, tokens, lastRefill, line, passes>>
           /\ pc'[c] \notin {"queued", "limited"}
<1>1. CASE Call(c)
  <2>1. ForwardsFrom(c, 0) /\ 0 \in 0..Last
    BY <1>1, OneIs, Constants DEF Call, Attempt, Proper
  <2>2. pc'[c] \in {"execute", "before"}
    BY <2>1, AfterForwards DEF Controlled
  <2> QED BY <1>1, <2>2 DEF Call
<1>2. CASE Again(c)
  <2>1. ForwardsFrom(c, 0) /\ 0 \in 0..Last
    BY <1>2, OneIs, Constants DEF Again, Attempt, Proper
  <2>2. pc'[c] \in {"execute", "before"}
    BY <2>1, AfterForwards DEF Controlled
  <2> QED BY <1>2, <2>2 DEF Again
<1>3. CASE Before(c)
  <2>1. ForwardsFrom(c, at[c]) /\ at[c] \in 0..Last
    BY <1>3, OneIs, Constants DEF Before, Forwards, Proper
  <2>2. pc'[c] \in {"execute", "before"}
    BY <2>1, AfterForwards DEF Controlled
  <2> QED BY <1>3, <2>2 DEF Before
<1>4. CASE Returns(c)
  BY <1>4 DEF Returns, GoTo
<1>5. CASE OnError(c)
  BY <1>5 DEF OnError, GoTo, Sleep, Controlled, CallsTyped
<1>6. CASE Delayed(c)
  BY <1>6 DEF Delayed, GoTo
<1>7. CASE ErrorHandled(c)
  BY <1>7 DEF ErrorHandled, GoTo, Sleep, AttemptFails, Controlled, CallsTyped
<1>8. CASE After(c)
  BY <1>8 DEF After, GoTo, Controlled, CallsTyped
<1>9. CASE \E e \in Errors : BeforeRaises(c, e)
  BY <1>9 DEF BeforeRaises, GoTo, Sleep, AttemptFails, Controlled, CallsTyped
<1>10. CASE \E e \in Errors : Raises(c, e)
  BY <1>10 DEF Raises, GoTo
<1> QED BY <1>1, <1>2, <1>3, <1>4, <1>5, <1>6, <1>7, <1>8, <1>9, <1>10 DEF Elsewhere

\* The steps of a call, by what they do to the limiter.
LEMMA StepsAre ==
    ASSUME NEW c \in Calls, Call(c) \/ Step(c) \/ Cancel(c)
    PROVE  Elsewhere(c) \/ Limit(c) \/ GetLock(c) \/ LimitPassed(c) \/ Cancel(c)
  BY DEF Step, Elsewhere

\* Who is queued is in the line and who sleeps is its head, after every step.
LEMMA LineStays ==
    ASSUME TypeOK, Controlled, LineOK, [Next]_vars
    PROVE  line' \in Seq(Calls) /\ LineOK'
<1>0. line \in Seq(Calls) /\ CallsTyped
  BY TypesAre DEF LimiterTyped
<1>1. CASE UNCHANGED <<line, pc>>
  BY <1>0, <1>1 DEF LineOK
<1>2. ASSUME NEW c \in Calls, Call(c) \/ Step(c) \/ Cancel(c) PROVE line' \in Seq(Calls) /\ LineOK'
  <2>0. \A d \in Calls \ {c} : pc'[d] = pc[d]
    BY <1>2, TypesAre, OthersWait
  <2>1. CASE Elsewhere(c)
    BY <1>0, <2>0, <2>1, ElsewhereIs, SameLine
  <2>2. CASE Cancel(c)
    <3>1. line' = LineWithout(c) /\ pc'[c] = "cancelled"
      BY <1>0, <2>2 DEF Cancel, GoTo, CallsTyped
    <3> QED BY <1>0, <2>0, <3>1, QuittingLine, WithoutIsLine
  <2>3. CASE Limit(c) /\ line = <<>> /\ Refill(c, <<>>)
    <3>1. Holding(c, <<>>) /\ at[c] \in 0..Last
      BY <2>3, OneIs DEF Holding, Limit, Proper
    <3>2. line' \in Seq(Calls)
      <4>1. line' \in {<<c>> \o <<>>, <<>>}
        BY <2>3 DEF Refill
      <4>2. <<c>> \in Seq(Calls) /\ <<>> \in Seq(Calls)
        OBVIOUS
      <4>3. <<c>> \o <<>> \in Seq(Calls)
        BY <4>2, ConcatProperties, Zenon
      <4> QED BY <4>1, <4>2, <4>3
    <3> QED BY <1>0, <2>0, <2>3, <3>1, <3>2, RefillLine
  <2>4. CASE Limit(c) /\ line # <<>> /\ line' = Append(line, c) /\ GoTo(c, "queued")
    <3>1. pc'[c] = "queued"
      BY <1>0, <2>4 DEF GoTo, CallsTyped
    <3>2. line' \in Seq(Calls)
      BY <1>0, <2>4, AppendProperties
    <3> QED BY <1>0, <2>0, <2>4, <3>1, <3>2, OneJoins
  <2>5. CASE GetLock(c)
    <3>1. line # <<>> /\ line[1] = c /\ pc[c] = "queued"
      <4>1. Occurs(c, line)
        BY <2>5 DEF GetLock, LineOK
      <4>2. line # <<>>
        BY <4>1 DEF Occurs
      <4> QED BY <1>0, <2>5, <4>2, HeadTailProperties DEF GetLock
    <3>2. Holding(c, Tail(line)) /\ at[c] \in 0..Last
      BY <3>1, OneIs DEF Holding, Proper
    <3>3. Tail(line) \in Seq(Calls)
      BY <1>0, <3>1, HeadTailProperties
    <3>4. <<c>> \o Tail(line) \in Seq(Calls)
      BY <3>3, ConcatProperties
    <3>5. line' \in Seq(Calls)
      BY <2>5, <3>3, <3>4 DEF GetLock, Refill
    <3> QED BY <1>0, <2>0, <2>5, <3>2, <3>5, RefillLine DEF GetLock
  <2>6. CASE LimitPassed(c)
    <3>1. line # <<>> /\ line[1] = c /\ at[c] \in 0..Last
      BY <2>6, OneIs DEF LimitPassed, LineOK, Proper
    <3>2. pc'[c] \notin {"queued", "limited"}
      BY <1>0, <2>6, <3>1, AfterForwards DEF LimitPassed, Forwards
    <3>3. line' \in Seq(Calls)
      BY <1>0, <2>6, <3>1, HeadTailProperties DEF LimitPassed
    <3> QED BY <1>0, <2>0, <2>6, <3>1, <3>2, <3>3, FirstLeaves DEF LimitPassed
  <2> QED BY <1>2, <2>1, <2>2, <2>3, <2>4, <2>5, <2>6, StepsAre DEF Limit
<1> QED BY <1>1, <1>2 DEF Next, Tick


-----------------------------------------------------------------------------
(* The rate.                                                                *)

Cost(n) == n * Period

\* The tokens n passes take.
LEMMA CostIs == Cost(1) = Period /\ \A n \in Nat : Cost(n) \in Nat /\ Cost(n + 1) = Cost(n) + Period
<1>1. Period \in Nat
  BY Constants
<1>2. ASSUME NEW n \in Nat PROVE n * Period \in Nat /\ (n + 1) * Period = n * Period + Period
  BY <1>1
<1> QED BY <1>1, <1>2 DEF Cost

\* What k passes from time x to time y leave of the budget at time r, with t
\* tokens in the bucket.
Spent(k, x, y, t, r) == x <= r /\ x <= y /\ Cost(k) + t <= Full + (r - x) + (y - x)

Time(s, i) == s[i].time
N == Len(passes)

Budget == \A i \in 1..N : i < N => Spent(N - i, Time(passes, i), Time(passes, N), tokens, lastRefill)

Rated(k, x, y) == Cost(k) <= Full + 2 * (y - x)
AllRated == \A i, j \in 1..N : i < j => Rated(j - i, Time(passes, i), Time(passes, j))

SleeperOK == \A c \in Calls : pc[c] = "limited" =>
    /\ tokens < Period /\ wakeAt[c] = lastRefill + Period - tokens
    /\ \A i \in 1..N : Time(passes, i) <= lastRefill

\* The passes so far have times up to now.
LEMMA TimesAre ==
    ASSUME LimiterTyped
    PROVE  N \in Nat /\ \A i \in 1..N : Time(passes, i) \in 0..now /\ passes[i].call \in Calls
<1>1. passes \in Seq([call : Calls, time : 0..now])
  BY DEF LimiterTyped
<1>2. ASSUME NEW i \in 1..Len(passes) PROVE passes[i].time \in 0..now /\ passes[i].call \in Calls
  <2>1. passes[i] \in [call : Calls, time : 0..now]
    BY <1>1, ElementOfSeq
  <2> QED BY <2>1
<1> QED BY <1>1, <1>2, LenProperties DEF N, Time

\* Pass notes the present time and keeps the others.
LEMMA TimesAfter ==
    ASSUME LimiterTyped, NEW c \in Calls, Pass(c), now' = now
    PROVE  N' = N + 1 /\ Time(passes', N + 1) = now /\ \A i \in 1..N : Time(passes', i) = Time(passes, i)
<1>1. /\ Len(passes') = Len(passes) + 1 /\ passes'[Len(passes) + 1] = [call |-> c, time |-> now]
      /\ \A i \in 1..Len(passes) : passes'[i] = passes[i]
  BY Passing
<1>2. passes'[N + 1].time = now
  BY <1>1 DEF N
<1>3. \A i \in 1..N : passes'[i].time = passes[i].time
  BY <1>1 DEF N
<1> QED BY <1>1, <1>2, <1>3 DEF N, Time

\* A refill of what time has brought since the last one.
LEMMA SpentRefill ==
    ASSUME NEW k \in Nat, NEW x \in Nat, NEW y \in Nat, NEW t \in Nat, NEW r \in Nat,
           NEW m \in Nat, NEW u \in Nat,
           Spent(k, x, y, t, r), r <= m, u <= t + m - r
    PROVE  Spent(k, x, y, u, m)
<1>1. Cost(k) \in Nat /\ Full \in Nat
  BY CostIs, Constants
<1> QED BY <1>1 DEF Spent

\* One that also passes at once.
LEMMA SpentPass ==
    ASSUME NEW k \in Nat, NEW x \in Nat, NEW y \in Nat, NEW t \in Nat, NEW m \in Nat,
           Spent(k, x, y, t, m), Period <= t, y <= m
    PROVE  Spent(k + 1, x, m, t - Period, m)
<1>1. Cost(k) \in Nat /\ Cost(k + 1) = Cost(k) + Period /\ Full \in Nat /\ Period \in Nat
  BY CostIs, Constants
<1> QED BY <1>1 DEF Spent

\* One that passes after its sleep.
LEMMA SpentSleep ==
    ASSUME NEW k \in Nat, NEW x \in Nat, NEW y \in Nat, NEW t \in Nat, NEW r \in Nat,
           NEW m \in Nat,
           Spent(k, x, y, t, r), y <= r, m >= r + Period - t, r <= m
    PROVE  Spent(k + 1, x, m, 0, r)
<1>1. Cost(k) \in Nat /\ Cost(k + 1) = Cost(k) + Period /\ Full \in Nat /\ Period \in Nat
  BY CostIs, Constants
<1> QED BY <1>1 DEF Spent

\* The first pass after time x.
LEMMA SpentFirst ==
    ASSUME NEW x \in Nat, NEW t \in Nat, NEW r \in Nat, NEW m \in Nat, x <= r, r <= m,
           t + Period <= Full
    PROVE  Spent(1, x, m, t, r)
<1>1. Cost(1) = Period /\ Full \in Nat /\ Period \in Nat
  BY CostIs, Constants
<1> QED BY <1>1 DEF Spent

\* The budget gives the rate.
LEMMA SpentRated ==
    ASSUME NEW k \in Nat, NEW x \in Nat, NEW y \in Nat, NEW t \in Nat, NEW r \in Nat,
           Spent(k, x, y, t, r), r <= y
    PROVE  Rated(k, x, y)
<1>1. Cost(k) \in Nat /\ Full \in Nat
  BY CostIs, Constants
<1> QED BY <1>1 DEF Spent, Rated

\* A pass after which the budget is kept keeps the rate.
LEMMA PassRated ==
    ASSUME LimiterTyped, AllRated, NEW c \in Calls, Pass(c), now' = now,
           Budget', tokens' \in Nat, lastRefill' \in 0..now
    PROVE  AllRated'
<1>0. /\ N \in Nat /\ N' = N + 1 /\ Time(passes', N + 1) = now
      /\ \A i \in 1..N : Time(passes', i) = Time(passes, i) /\ Time(passes, i) \in 0..now
  BY TimesAre, TimesAfter
<1>1. ASSUME NEW i \in 1..(N + 1), NEW j \in 1..(N + 1),
          i < j PROVE Rated(j - i, Time(passes', i), Time(passes', j))
  <2>1. CASE j < N + 1
    <3>1. i \in 1..N /\ j \in 1..N
      BY <1>0, <1>1, <2>1
    <3>2. Rated(j - i, Time(passes, i), Time(passes, j))
      BY <1>1, <3>1 DEF AllRated
    <3> QED BY <1>0, <3>1, <3>2
  <2>2. CASE j = N + 1
    <3>1. i \in 1..N /\ (N + 1) - i \in Nat
      BY <1>0, <1>1, <2>2
    <3>2. Spent((N + 1) - i, Time(passes, i), now, tokens', lastRefill')
      <4>1. i \in 1..N' /\ i < N'
        BY <1>0, <3>1
      <4>2. Spent(N' - i, Time(passes', i), Time(passes', N'), tokens', lastRefill')
        BY <4>1 DEF Budget
      <4>3. Time(passes', N') = now
        BY <1>0 DEF Time
      <4> QED BY <1>0, <3>1, <4>2, <4>3
    <3>3. Time(passes, i) \in Nat /\ now \in Nat /\ lastRefill' \in Nat /\ lastRefill' <= now
      BY <1>0, <3>1, NowIs
    <3>4. Rated((N + 1) - i, Time(passes, i), now)
      BY <3>1, <3>2, <3>3, SpentRated
    <3> QED BY <1>0, <2>2, <3>1, <3>4
  <2> QED BY <1>0, <1>1, <2>1, <2>2
<1> QED BY <1>0, <1>1 DEF AllRated

LimiterOK == Budget /\ AllRated /\ SleeperOK

\* The steps that leave the limiter alone.
LEMMA QuietLimiter ==
    ASSUME LimiterOK, UNCHANGED <<tokens, lastRefill, passes>>,
           \A c \in Calls : pc'[c] = "limited" => pc[c] = "limited" /\ wakeAt'[c] = wakeAt[c]
    PROVE  LimiterOK'
<1>1. N' = N /\ \A i : Time(passes', i) = Time(passes, i)
  BY DEF N, Time
<1>2. Time(passes', N') = Time(passes, N)
  BY DEF N, Time
<1>3. Budget' /\ AllRated'
  BY <1>1, <1>2 DEF LimiterOK, Budget, AllRated
<1>4. SleeperOK'
  BY <1>1 DEF LimiterOK, SleeperOK
<1> QED BY <1>3, <1>4 DEF LimiterOK

\* Refill keeps the budget: what it lets through is paid by a token.
LEMMA RefillBudget ==
    ASSUME LimiterTyped, LimiterOK, CallsTyped, TimersTyped, NEW c \in Calls, NEW rest,
           Refill(c, rest), now' = now,
           \A d \in Calls : pc[d] # "limited", at[c] \in 0..Last,
           \A d \in Calls \ {c} : pc'[d] = pc[d]
    PROVE  LimiterOK' /\ tokens' \in 0..Full /\ lastRefill' \in 0..now
           /\ passes' \in Seq([call : Calls, time : 0..now])
<1> DEFINE filled == IF tokens + now - lastRefill > Full THEN Full ELSE tokens + now - lastRefill
<1>0. /\ now \in Nat /\ lastRefill \in 0..now /\ tokens \in Nat /\ Full \in Nat /\ Period \in Nat
      /\ N \in Nat /\ \A i \in 1..N : Time(passes, i) \in 0..now
  BY NowIs, Constants, TimesAre
<1>1. filled \in 0..Full /\ filled <= tokens + now - lastRefill
  BY <1>0
<1>2. \/ filled < Period /\ Sleep(c, "limited", Period - filled) /\ tokens' = filled /\ passes' = passes
      \/ ~(filled < Period) /\ Forwards(c) /\ Pass(c) /\ tokens' = filled - Period
  BY DEF Refill
<1>3. lastRefill' = now
  BY DEF Refill
<1> HIDE DEF filled
<1>4. ASSUME NEW i \in 1..N,
          i < N PROVE Spent(N - i, Time(passes, i), Time(passes, N), filled, now)
  <2>1. /\ N - i \in Nat /\ N \in 1..N /\ Time(passes, i) \in Nat /\ Time(passes, N) \in Nat
        /\ filled \in Nat /\ lastRefill \in Nat
    BY <1>0, <1>1, <1>4
  <2>2. Spent(N - i, Time(passes, i), Time(passes, N), tokens, lastRefill)
    BY <1>4 DEF LimiterOK, Budget
  <2>3. lastRefill <= now
    BY <1>0
  <2> QED BY <1>0, <1>1, <2>1, <2>2, <2>3, SpentRefill
<1>5. CASE filled < Period /\ Sleep(c, "limited", Period - filled) /\ tokens' = filled /\ passes' = passes
  <2>1. N' = N /\ Time(passes', N') = Time(passes, N) /\ \A i : Time(passes', i) = Time(passes, i)
    BY <1>5 DEF N, Time
  <2>2. Budget'
    BY <1>3, <1>4, <1>5, <2>1 DEF Budget
  <2>3. AllRated'
    BY <2>1 DEF LimiterOK, AllRated
  <2>4. pc'[c] = "limited" /\ wakeAt'[c] = now + (Period - filled)
    BY <1>5 DEF Sleep, GoTo, CallsTyped, TimersTyped
  <2>5. ASSUME NEW d \in Calls, pc'[d] = "limited"
        PROVE  tokens' < Period /\ wakeAt'[d] = lastRefill' + Period - tokens'
               /\ \A i \in 1..N : Time(passes, i) <= lastRefill'
    <3>1. d = c
      BY <2>5
    <3>2. now + (Period - filled) = now + Period - filled
      BY <1>0, <1>1
    <3>3. \A i \in 1..N : Time(passes, i) <= now
      BY <1>0
    <3> QED BY <1>3, <1>5, <2>4, <3>1, <3>2, <3>3
  <2>6. SleeperOK'
    BY <2>1, <2>5 DEF SleeperOK
  <2>7. passes' \in Seq([call : Calls, time : 0..now])
    BY <1>5 DEF LimiterTyped
  <2>8. tokens' \in 0..Full /\ lastRefill' \in 0..now
    BY <1>0, <1>1, <1>3, <1>5
  <2> QED BY <2>2, <2>3, <2>6, <2>7, <2>8 DEF LimiterOK
<1>6. CASE ~(filled < Period) /\ Forwards(c) /\ Pass(c) /\ tokens' = filled - Period
  <2>0. filled - Period \in 0..Full /\ Period <= filled /\ filled \in Nat
    BY <1>0, <1>1, <1>6
  <2>1. N' = N + 1 /\ Time(passes', N + 1) = now /\ \A i \in 1..N : Time(passes', i) = Time(passes, i)
    BY <1>6, TimesAfter
  <2>2. ASSUME NEW i \in 1..(N + 1),
            i < N + 1 PROVE Spent((N + 1) - i, Time(passes', i), now, filled - Period, now)
    <3>1. CASE i = N
      <4>1. (N + 1) - i = 1 /\ Time(passes', i) = Time(passes, N) /\ Time(passes, N) \in 0..now
        BY <1>0, <2>1, <2>2, <3>1
      <4>f. /\ Time(passes, N) \in Nat /\ Time(passes, N) <= now /\ filled - Period \in Nat
            /\ (filled - Period) + Period <= Full
        BY <1>0, <1>1, <2>0, <4>1
      <4>2. Spent(1, Time(passes, N), now, filled - Period, now)
        BY <1>0, <4>1, <4>f, SpentFirst
      <4> QED BY <4>1, <4>2
    <3>2. CASE i < N
      <4>1. i \in 1..N /\ N - i \in Nat /\ (N - i) + 1 = (N + 1) - i /\ N \in 1..N
        BY <1>0, <2>2, <3>2
      <4>2. /\ Time(passes, i) \in Nat /\ Time(passes, N) \in Nat /\ Time(passes, N) <= now
            /\ Time(passes', i) = Time(passes, i)
        BY <1>0, <2>1, <4>1
      <4>3. Spent(N - i, Time(passes, i), Time(passes, N), filled, now)
        BY <1>4, <3>2, <4>1
      <4>4. Spent((N - i) + 1, Time(passes, i), now, filled - Period, now)
        BY <1>0, <2>0, <4>1, <4>2, <4>3, SpentPass
      <4> QED BY <4>1, <4>2, <4>4
    <3> QED BY <1>0, <2>2, <3>1, <3>2
  <2>3. Time(passes', N') = now
    BY <2>1 DEF Time
  <2>4. Budget'
    BY <1>3, <1>6, <2>1, <2>2, <2>3 DEF Budget
  <2>5. tokens' \in Nat /\ lastRefill' \in 0..now
    BY <1>0, <1>3, <1>6, <2>0
  <2>6. AllRated'
    BY <1>6, <2>4, <2>5, PassRated DEF LimiterOK
  <2>7. SleeperOK'
    <3>1. pc'[c] # "limited"
      BY <1>6, AfterForwards DEF Forwards
    <3> QED BY <3>1 DEF SleeperOK
  <2>8. passes' \in Seq([call : Calls, time : 0..now])
    BY <1>6, Passing
  <2> QED BY <1>6, <2>0, <2>4, <2>5, <2>6, <2>7, <2>8 DEF LimiterOK
<1> QED BY <1>2, <1>5, <1>6

\* So does the sleeper: the time of its sleep pays for it and for the next.
LEMMA SleepBudget ==
    ASSUME TypeOK, Controlled, LineOK, LimiterOK, NEW c \in Calls, LimitPassed(c)
    PROVE  LimiterOK' /\ tokens' \in 0..Full /\ lastRefill' \in 0..now
           /\ passes' \in Seq([call : Calls, time : 0..now])
<1>t. LimiterTyped /\ CallsTyped /\ TimersTyped /\ OutcomesTyped
  BY TypesAre
<1>a. /\ pc[c] = "limited" /\ now >= wakeAt[c] /\ tokens' = 0 /\ Pass(c) /\ Forwards(c)
      /\ now' = now /\ lastRefill' = lastRefill
  BY DEF LimitPassed, Wake
<1>0. /\ now \in Nat /\ lastRefill \in 0..now /\ tokens \in Nat /\ Full \in Nat /\ Period \in Nat
      /\ N \in Nat /\ \A i \in 1..N : Time(passes, i) \in 0..now
  BY <1>t, NowIs, Constants, TimesAre
<1>1. /\ tokens < Period /\ now >= lastRefill + Period - tokens
      /\ \A i \in 1..N : Time(passes, i) <= lastRefill
  BY <1>a DEF LimiterOK, SleeperOK
<1>2. N' = N + 1 /\ Time(passes', N + 1) = now /\ \A i \in 1..N : Time(passes', i) = Time(passes, i)
  BY <1>t, <1>a, TimesAfter
<1>3. ASSUME NEW i \in 1..(N + 1),
          i < N + 1 PROVE Spent((N + 1) - i, Time(passes', i), now, 0, lastRefill)
  <2>1. CASE i = N
    <3>1. /\ (N + 1) - i = 1 /\ Time(passes', i) = Time(passes, N)
          /\ Time(passes, N) \in 0..now /\ Time(passes, N) <= lastRefill
      BY <1>0, <1>1, <1>2, <1>3, <2>1
    <3>2. /\ 0 + Period <= Full /\ lastRefill \in Nat /\ lastRefill <= now /\ 0 \in Nat
          /\ Time(passes, N) \in Nat
      BY <1>0, <3>1, Constants
    <3>3. Spent(1, Time(passes, N), now, 0, lastRefill)
      BY <1>0, <3>1, <3>2, SpentFirst
    <3> QED BY <3>1, <3>3
  <2>2. CASE i < N
    <3>1. i \in 1..N /\ N - i \in Nat /\ (N - i) + 1 = (N + 1) - i /\ N \in 1..N
      BY <1>0, <1>3, <2>2
    <3>2. /\ Time(passes, i) \in Nat /\ Time(passes, N) \in Nat
          /\ Time(passes, N) <= lastRefill /\ Time(passes', i) = Time(passes, i)
      BY <1>0, <1>1, <1>2, <3>1
    <3>3. Spent(N - i, Time(passes, i), Time(passes, N), tokens, lastRefill)
      BY <2>2, <3>1 DEF LimiterOK, Budget
    <3>4. Spent((N - i) + 1, Time(passes, i), now, 0, lastRefill)
      <4>1. lastRefill \in Nat /\ lastRefill <= now
        BY <1>0
      <4> QED BY <1>0, <1>1, <3>1, <3>2, <3>3, <4>1, SpentSleep
    <3> QED BY <3>1, <3>2, <3>4
  <2> QED BY <1>0, <1>3, <2>1, <2>2
<1>4. Time(passes', N') = now
  BY <1>2 DEF Time
<1>5. Budget'
  BY <1>a, <1>2, <1>3, <1>4 DEF Budget
<1>6. tokens' \in Nat /\ tokens' \in 0..Full /\ lastRefill' \in 0..now
  BY <1>0, <1>a
<1>7. AllRated'
  BY <1>t, <1>a, <1>5, <1>6, PassRated DEF LimiterOK
<1>8. SleeperOK'
  <2>1. at[c] \in 0..Last
    BY <1>a, OneIs DEF Proper
  <2>2. pc'[c] # "limited"
    BY <1>t, <1>a, <2>1, AfterForwards DEF Forwards
  <2>3. ASSUME NEW d \in Calls \ {c} PROVE pc'[d] # "limited"
    <3>1. pc'[d] = pc[d]
      BY <1>t, OthersWait DEF Step
    <3> QED BY <1>a, <3>1 DEF LineOK
  <2> QED BY <2>2, <2>3 DEF SleeperOK
<1>9. passes' \in Seq([call : Calls, time : 0..now])
  BY <1>t, <1>a, Passing
<1> QED BY <1>5, <1>6, <1>7, <1>8, <1>9 DEF LimiterOK

\* The budget is kept by every step.
LEMMA LimiterStays ==
    ASSUME TypeOK, Controlled, LineOK, LimiterOK, [Next]_vars
    PROVE  LimiterOK' /\ LimiterTyped'
<1>t. LimiterTyped /\ CallsTyped /\ TimersTyped /\ OutcomesTyped
  BY TypesAre
<1>l. line' \in Seq(Calls)
  BY LineStays
<1>1. ASSUME UNCHANGED <<tokens, lastRefill, passes>>, now' = now \/ now' = now + 1 PROVE LimiterTyped'
  <2>1. /\ now \in Nat /\ lastRefill \in 0..now /\ tokens \in 0..Full
        /\ passes \in Seq([call : Calls, time : 0..now])
    BY <1>t DEF LimiterTyped
  <2>2. now' \in Nat /\ lastRefill' \in 0..now' /\ 0..now \subseteq 0..now'
    BY <1>1, <2>1
  <2>3. [call : Calls, time : 0..now] \subseteq [call : Calls, time : 0..now']
    BY <2>2
  <2>4. passes' \in Seq([call : Calls, time : 0..now'])
    BY <1>1, <2>1, <2>3, SeqIsMonotonic
  <2>5. tokens' \in 0..Full
    BY <1>1, <2>1
  <2> QED BY <1>l, <2>2, <2>4, <2>5 DEF LimiterTyped
<1>2. ASSUME now' = now, tokens' \in 0..Full, lastRefill' \in 0..now,
          passes' \in Seq([call : Calls, time : 0..now])
      PROVE  LimiterTyped'
  BY <1>t, <1>l, <1>2 DEF LimiterTyped
<1>3. CASE Tick \/ UNCHANGED vars
  <2>1. UNCHANGED <<tokens, lastRefill, passes, pc, wakeAt>> /\ (now' = now \/ now' = now + 1)
    BY <1>3 DEF Tick
  <2> QED BY <1>1, <2>1, QuietLimiter
<1>4. ASSUME NEW c \in Calls, Call(c) \/ Step(c) \/ Cancel(c) PROVE LimiterOK' /\ LimiterTyped'
  <2>o. \A d \in Calls \ {c} : pc'[d] = pc[d] /\ wakeAt'[d] = wakeAt[d]
    BY <1>4, <1>t, OthersWait
  <2>1. CASE UNCHANGED <<now, tokens, lastRefill, passes>> /\ pc'[c] # "limited"
    BY <1>1, <2>1, <2>o, QuietLimiter
  <2>2. CASE Elsewhere(c)
    BY <2>1, <2>2, ElsewhereIs
  <2>3. CASE Cancel(c)
    BY <1>t, <2>1, <2>3 DEF Cancel, GoTo, CallsTyped
  <2>4. CASE Limit(c) /\ line = <<>> /\ Refill(c, <<>>)
    <3>1. at[c] \in 0..Last /\ Holding(c, <<>>) /\ now' = now
      BY <2>4, OneIs DEF Limit, Proper, Holding
    <3>2. \A d \in Calls : pc[d] # "limited"
      BY <3>1, HolderAlone
    <3> QED BY <1>t, <1>2, <2>o, <2>4, <3>1, <3>2, RefillBudget
  <2>5. CASE Limit(c) /\ line # <<>> /\ GoTo(c, "queued") /\ UNCHANGED <<tokens, lastRefill, passes>>
    BY <1>t, <2>1, <2>5 DEF Limit, GoTo, CallsTyped
  <2>6. CASE GetLock(c)
    <3>0. line # <<>> /\ line[1] = c /\ pc[c] = "queued"
      <4>1. Occurs(c, line)
        BY <2>6 DEF GetLock, LineOK
      <4>2. line # <<>>
        BY <4>1 DEF Occurs
      <4> QED BY <1>t, <2>6, <4>2, HeadTailProperties DEF GetLock, LimiterTyped
    <3>1. at[c] \in 0..Last /\ Holding(c, Tail(line)) /\ now' = now /\ Refill(c, Tail(line))
      BY <2>6, <3>0, OneIs DEF GetLock, Proper, Holding
    <3>2. \A d \in Calls : pc[d] # "limited"
      BY <3>1, HolderAlone
    <3> QED BY <1>t, <1>2, <2>o, <3>1, <3>2, RefillBudget
  <2>7. CASE LimitPassed(c)
    <3>1. now' = now
      BY <2>7 DEF LimitPassed
    <3> QED BY <1>2, <2>7, <3>1, SleepBudget
  <2> QED BY <1>4, <2>2, <2>3, <2>4, <2>5, <2>6, <2>7, StepsAre DEF Limit
<1> QED BY <1>3, <1>4 DEF Next


-----------------------------------------------------------------------------
(* The account of the executions, at one of the limiters of the chain.       *)

PassesOf(s, c) == {i \in 1..Len(s) : s[i].call = c}
Count(s, c) == Cardinality(PassesOf(s, c))

\* The passes of a call can be counted.
LEMMA PassesFinite ==
    ASSUME NEW s, Len(s) \in Nat, NEW c
    PROVE  IsFiniteSet(PassesOf(s, c)) /\ Count(s, c) \in Nat
<1>1. IsFiniteSet(1..Len(s))
  BY FS_Interval
<1>2. PassesOf(s, c) \subseteq 1..Len(s)
  BY DEF PassesOf
<1>3. IsFiniteSet(PassesOf(s, c))
  BY <1>1, <1>2, FS_Subset
<1> QED BY <1>3, FS_CardinalityType DEF Count

\* Pass counts for its call only.
LEMMA CountAfterPass ==
    ASSUME LimiterTyped, NEW c \in Calls, Pass(c), now' = now
    PROVE  /\ Count(passes', c) = Count(passes, c) + 1
           /\ \A d : d # c => Count(passes', d) = Count(passes, d)
<1>1. /\ Len(passes) \in Nat /\ Len(passes') = Len(passes) + 1
      /\ \A i \in 1..Len(passes) : passes'[i] = passes[i]
      /\ passes'[Len(passes) + 1] = [call |-> c, time |-> now]
  BY Passing
<1> DEFINE n == Len(passes)
           at1 == n + 1
<1>2. n \in Nat /\ Len(passes') = at1 /\ passes'[at1].call = c
  BY <1>1
<1>3. \A i \in 1..n : passes'[i] = passes[i]
  BY <1>1
<1>4. 1..at1 = (1..n) \cup {at1} /\ at1 \notin 1..n
  BY <1>2
<1>5. PassesOf(passes, c) \subseteq 1..n
  BY DEF PassesOf
<1> HIDE DEF at1
<1>6. PassesOf(passes', c) = PassesOf(passes, c) \cup {at1}
  BY <1>2, <1>3, <1>4 DEF PassesOf
<1>7. \A d : d # c => PassesOf(passes', d) = PassesOf(passes, d)
  BY <1>2, <1>3, <1>4 DEF PassesOf
<1>8. IsFiniteSet(PassesOf(passes, c))
  BY <1>2, PassesFinite
<1>9. at1 \notin PassesOf(passes, c)
  BY <1>4, <1>5
<1>10. Cardinality(PassesOf(passes, c) \cup {at1}) = Cardinality(PassesOf(passes, c)) + 1
  BY <1>8, <1>9, FS_AddElement
<1> QED BY <1>6, <1>7, <1>10 DEF Count

\* In its attempt the call has been let through at r, and is not executed yet.
HasPassed(p, a, r) == p = "execute" \/ (p \in {"before", "queued", "limited"} /\ a > r)
Owed(p, a, r) == IF HasPassed(p, a, r) THEN 1 ELSE 0
PaidAt(r) == \A c \in Calls : runs[c] + Owed(pc[c], at[c], r) <= Count(passes, c)

\* An attempt that starts has not been let through yet.
LEMMA ForwardsOwes ==
    ASSUME CallsTyped, NEW c \in Calls, NEW i \in 0..Last, ForwardsFrom(c, i),
           NEW r \in 1..Last, Chain[r] = "rate", r > i
    PROVE  Owed(pc'[c], at'[c], r) = 0
<1>1. PICK n \in (i + 1)..(Last + 1) :
             /\ at' = [at EXCEPT ![c] = n]
             /\ pc' = [pc EXCEPT ![c] = IF n = Last + 1 THEN "execute" ELSE "before"]
             /\ \A q \in (i + 1)..Last : Chain[q] = "rate" => n <= q
  BY GoesForwards
<1>2. Last \in Nat /\ r \in (i + 1)..Last
  BY Constants
<1>3. n <= r /\ n # Last + 1
  BY <1>1, <1>2
<1>4. pc'[c] = "before" /\ at'[c] = n
  BY <1>1, <1>3 DEF CallsTyped
<1> QED BY <1>2, <1>3, <1>4 DEF Owed, HasPassed

\* The steps of c that the limiter has no part in.
LEMMA PaidStays ==
    ASSUME NEW r, PaidAt(r), CallsTyped, Len(passes) \in Nat, NEW c \in Calls, passes' = passes,
           \A d \in Calls \ {c} : pc'[d] = pc[d] /\ at'[d] = at[d] /\ runs'[d] = runs[d],
           runs'[c] + Owed(pc'[c], at'[c], r) <= runs[c] + Owed(pc[c], at[c], r),
           runs'[c] \in Nat
    PROVE  PaidAt(r)'
<1>1. runs'[c] + Owed(pc'[c], at'[c], r) <= Count(passes, c)
  <2>1. runs[c] + Owed(pc[c], at[c], r) <= Count(passes, c)
    BY DEF PaidAt
  <2>2. runs[c] \in Nat /\ Count(passes, c) \in Nat
    BY Constants, PassesFinite DEF CallsTyped
  <2> QED BY <2>1, <2>2 DEF Owed
<1>2. \A d \in Calls \ {c} : runs'[d] + Owed(pc'[d], at'[d], r) <= Count(passes, d)
  BY DEF PaidAt
<1> QED BY <1>1, <1>2 DEF PaidAt

\* A call let through by the limiter may execute once more.
LEMMA PaidPass ==
    ASSUME LimiterTyped, CallsTyped, NEW r, PaidAt(r), NEW c \in Calls, Pass(c), now' = now,
           runs' = runs,
           \A d \in Calls \ {c} : pc'[d] = pc[d] /\ at'[d] = at[d]
    PROVE  PaidAt(r)'
<1>1. runs[c] + Owed(pc'[c], at'[c], r) <= Count(passes', c)
  <2>1. runs[c] + Owed(pc[c], at[c], r) <= Count(passes, c)
    BY DEF PaidAt
  <2>2. runs[c] \in Nat /\ Count(passes, c) \in Nat
    <3>1. Len(passes) \in Nat
      BY Passing
    <3> QED BY <3>1, Constants, PassesFinite DEF CallsTyped
  <2> QED BY <2>1, <2>2, CountAfterPass DEF Owed
<1>2. \A d \in Calls \ {c} : runs[d] + Owed(pc'[d], at'[d], r) <= Count(passes', d)
  <2>1. \A d \in Calls \ {c} : Count(passes', d) = Count(passes, d)
    BY CountAfterPass
  <2> QED BY <2>1 DEF PaidAt
<1> QED BY <1>1, <1>2 DEF PaidAt

\* A call that has not passed, or that goes on from place i on.
LEMMA OwedForwards ==
    ASSUME Controlled, NEW c \in Calls, NEW i \in 0..Last, ForwardsFrom(c, i),
           NEW r \in 1..Last, Chain[r] = "rate",
           i = 0 \/ (i = at[c] /\ pc[c] = "before" /\ Chain[i] # "rate")
    PROVE  Owed(pc'[c], at'[c], r) <= Owed(pc[c], at[c], r)
<1>1. CASE r > i
  BY <1>1, ForwardsOwes DEF Owed, Controlled
<1>2. CASE ~(r > i)
  <2>1. i = at[c] /\ pc[c] = "before" /\ i > r
    BY <1>2, Constants
  <2>2. Owed(pc[c], at[c], r) = 1
    BY <2>1 DEF Owed, HasPassed
  <2> QED BY <2>2 DEF Owed
<1> QED BY <1>1, <1>2

\* No other step executes what was not let through.
LEMMA PaidElsewhere ==
    ASSUME Controlled, NEW c \in Calls, Elsewhere(c), NEW r \in 1..Last, Chain[r] = "rate"
    PROVE  runs'[c] + Owed(pc'[c], at'[c], r) <= runs[c] + Owed(pc[c], at[c], r)
<1>0. runs[c] \in Nat /\ Owed(pc[c], at[c], r) \in {0, 1} /\ Owed(pc'[c], at'[c], r) \in {0, 1}
  BY OneIs, Constants DEF Owed
<1>1. ASSUME runs'[c] = runs[c], Owed(pc'[c], at'[c], r) <= Owed(pc[c], at[c], r)
      PROVE  runs'[c] + Owed(pc'[c], at'[c], r) <= runs[c] + Owed(pc[c], at[c], r)
  BY <1>0, <1>1
<1>2. ASSUME runs' = runs, pc'[c] \notin {"execute", "before", "queued", "limited"}
      PROVE  runs'[c] + Owed(pc'[c], at'[c], r) <= runs[c] + Owed(pc[c], at[c], r)
  <2>1. Owed(pc'[c], at'[c], r) = 0
    BY <1>2 DEF Owed, HasPassed
  <2> QED BY <1>0, <1>2, <2>1
<1>3. ASSUME pc[c] = "execute", runs'[c] = runs[c] + 1,
          pc'[c] \notin {"execute", "before", "queued", "limited"}
      PROVE  runs'[c] + Owed(pc'[c], at'[c], r) <= runs[c] + Owed(pc[c], at[c], r)
  <2>1. Owed(pc'[c], at'[c], r) = 0 /\ Owed(pc[c], at[c], r) = 1
    BY <1>3 DEF Owed, HasPassed
  <2> QED BY <1>0, <1>3, <2>1
<1>4. CASE Call(c)
  <2>1. ForwardsFrom(c, 0) /\ 0 \in 0..Last /\ runs' = runs
    BY <1>4, OneIs, Constants DEF Call, Attempt, Proper
  <2>2. Owed(pc'[c], at'[c], r) <= Owed(pc[c], at[c], r)
    BY <1>4, <2>1, OwedForwards DEF Call
  <2> QED BY <2>1, <2>2, <1>1
<1>5. CASE Again(c)
  <2>1. ForwardsFrom(c, 0) /\ 0 \in 0..Last /\ runs' = runs
    BY <1>5, OneIs, Constants DEF Again, Attempt, Proper
  <2>2. Owed(pc'[c], at'[c], r) <= Owed(pc[c], at[c], r)
    BY <1>5, <2>1, OwedForwards DEF Again
  <2> QED BY <2>1, <2>2, <1>1
<1>6. CASE Before(c)
  <2>1. ForwardsFrom(c, at[c]) /\ at[c] \in 0..Last /\ runs' = runs
    BY <1>6, OneIs, Constants DEF Before, Forwards, Proper
  <2>2. Owed(pc'[c], at'[c], r) <= Owed(pc[c], at[c], r)
    BY <1>6, <2>1, OwedForwards DEF Before
  <2> QED BY <2>1, <2>2, <1>1
<1>7. CASE Returns(c)
  BY <1>7, <1>3 DEF Returns, GoTo, Executed, Controlled, CallsTyped
<1>8. CASE OnError(c)
  BY <1>8, <1>2 DEF OnError, GoTo, Sleep, Controlled, CallsTyped
<1>9. CASE Delayed(c)
  BY <1>9, <1>2 DEF Delayed, GoTo
<1>10. CASE ErrorHandled(c)
  BY <1>10, <1>2 DEF ErrorHandled, GoTo, Sleep, AttemptFails, Controlled, CallsTyped
<1>11. CASE After(c)
  <2>1. runs' = runs /\ pc'[c] \in {"after", "returned"}
    BY <1>11 DEF After, GoTo, Controlled, CallsTyped
  <2> QED BY <2>1, <1>2
<1>12. CASE \E e \in Errors : BeforeRaises(c, e)
  BY <1>12, <1>2 DEF BeforeRaises, GoTo, Sleep, AttemptFails, Controlled, CallsTyped
<1>13. CASE \E e \in Errors : Raises(c, e)
  BY <1>13, <1>3 DEF Raises, GoTo, Executed, Controlled, CallsTyped
<1> QED BY <1>4, <1>5, <1>6, <1>7, <1>8, <1>9, <1>10, <1>11, <1>12, <1>13 DEF Elsewhere

\* Refill keeps the account.
LEMMA PaidLimit ==
    ASSUME LimiterTyped, Controlled, NEW r \in 1..Last, PaidAt(r), NEW c \in Calls, NEW rest,
           Refill(c, rest),
           pc[c] \in {"before", "queued"}, now' = now, runs' = runs,
           \A d \in Calls \ {c} : pc'[d] = pc[d] /\ at'[d] = at[d]
    PROVE  PaidAt(r)'
<1>0. CallsTyped /\ Len(passes) \in Nat /\ runs[c] \in Nat
  BY OneIs, Constants, LenProperties DEF Controlled, LimiterTyped
<1>1. CASE Pass(c)
  BY <1>0, <1>1, PaidPass
<1>2. CASE GoTo(c, "limited") /\ UNCHANGED <<at, passes>>
  <2>1. pc'[c] = "limited" /\ at'[c] = at[c]
    BY <1>0, <1>2 DEF GoTo, CallsTyped
  <2>2. Owed(pc'[c], at'[c], r) = Owed(pc[c], at[c], r)
    BY <2>1 DEF Owed, HasPassed
  <2>3. Owed(pc[c], at[c], r) \in {0, 1}
    BY DEF Owed
  <2>4. runs'[c] + Owed(pc'[c], at'[c], r) <= runs[c] + Owed(pc[c], at[c], r) /\ runs'[c] \in Nat
    BY <1>0, <2>2, <2>3
  <2> QED BY <1>0, <1>2, <2>4, PaidStays
<1> QED BY <1>1, <1>2 DEF Refill, Sleep

\* Every execution was let through, after every step.
LEMMA AccountStays ==
    ASSUME TypeOK, Controlled, NEW r \in 1..Last, Chain[r] = "rate", PaidAt(r), [Next]_vars
    PROVE  PaidAt(r)'
<1>t. LimiterTyped /\ CallsTyped /\ TimersTyped /\ OutcomesTyped
  BY TypesAre
<1>n. Len(passes) \in Nat
  BY <1>t, LenProperties DEF LimiterTyped
<1>1. CASE Tick \/ UNCHANGED vars
  BY <1>1 DEF Tick, PaidAt
<1>2. ASSUME NEW c \in Calls, Call(c) \/ Step(c) \/ Cancel(c) PROVE PaidAt(r)'
  <2>o. \A d \in Calls \ {c} : pc'[d] = pc[d] /\ at'[d] = at[d] /\ runs'[d] = runs[d]
    BY <1>2, <1>t, OthersWait
  <2>r. runs'[c] \in Nat /\ runs[c] \in Nat
    <3>1. Controlled'
      BY <1>2, ControlStays DEF Next
    <3>2. runs' \in [Calls -> 0..(Retries + 1)]
      BY <3>1 DEF Controlled, CallsTyped
    <3> QED BY <3>2, OneIs, Constants
  <2>1. CASE Elsewhere(c)
    BY <1>t, <1>n, <2>o, <2>r, <2>1, PaidElsewhere, ElsewhereIs, PaidStays
  <2>2. CASE Cancel(c)
    <3>1. pc'[c] = "cancelled" /\ UNCHANGED <<runs, passes>>
      BY <1>t, <2>2 DEF Cancel, GoTo, CallsTyped
    <3>2. runs'[c] + Owed(pc'[c], at'[c], r) <= runs[c] + Owed(pc[c], at[c], r)
      BY <2>r, <3>1 DEF Owed, HasPassed
    <3> QED BY <1>t, <1>n, <2>o, <2>r, <3>1, <3>2, PaidStays
  <2>3. CASE Limit(c) /\ Refill(c, <<>>)
    BY <1>t, <2>o, <2>3, PaidLimit DEF Limit
  <2>4. CASE Limit(c) /\ GoTo(c, "queued") /\ UNCHANGED <<at, passes>>
    <3>1. pc'[c] = "queued" /\ pc[c] = "before" /\ UNCHANGED <<at, runs, passes>>
      BY <1>t, <2>4 DEF Limit, GoTo, CallsTyped
    <3>2. Owed(pc'[c], at'[c], r) = Owed(pc[c], at[c], r) /\ Owed(pc[c], at[c], r) \in {0, 1}
      BY <3>1 DEF Owed, HasPassed
    <3>3. runs'[c] + Owed(pc'[c], at'[c], r) <= runs[c] + Owed(pc[c], at[c], r)
      BY <2>r, <3>1, <3>2
    <3> QED BY <1>t, <1>n, <2>o, <2>r, <3>1, <3>3, PaidStays
  <2>5. CASE GetLock(c)
    BY <1>t, <2>o, <2>5, PaidLimit DEF GetLock
  <2>6. CASE LimitPassed(c)
    BY <1>t, <2>o, <2>6, PaidPass DEF LimitPassed
  <2> QED BY <1>2, <2>1, <2>2, <2>3, <2>4, <2>5, <2>6, StepsAre DEF Limit
<1> QED BY <1>1, <1>2 DEF Next


-----------------------------------------------------------------------------
(* The cache.                                                               *)

\* A value that key k may have, given how often every call has been executed.
Fit(k, v, executed) == v \in Values => v[1] \in Tools /\ KeyOf[v[1]] = k /\ v[2] <= executed[v[1]]

Distinct(s) == \A i, j \in 1..Len(s) : s[i] = s[j] => i = j

CacheOK ==
    /\ Len(cache) <= MaxEntries
    /\ Distinct(cache)
    /\ \A k \in Keys : stored[k] # None <=> Occurs(k, cache)
    /\ \A k \in Keys : Fit(k, stored[k], runs)

HasCache == \E i \in 1..Last : Chain[i] = "cache"

ResultOK(c, p, a, h, v, executed) ==
    /\ c \in Tools => Fit(KeyOf[c], h, executed) /\ Fit(KeyOf[c], v, executed)
    /\ h # None => c \in Tools /\ HasCache
    /\ p = "after" => v # None
    /\ h # None /\ (p = "returned" \/ (p = "after" /\ a = 0)) => v = h

AllResults == \A c \in Calls : ResultOK(c, pc[c], at[c], hit[c], result[c], runs)

\* None and Fallback are no outcomes of executions.
LEMMA Special == /\ None \notin Values /\ Fallback \notin Values /\ None # Fallback
                 /\ \A k, executed : Fit(k, None, executed) /\ Fit(k, Fallback, executed)
<1>1. None \notin Values /\ Fallback \notin Values /\ None # Fallback
  BY DEF Values
<1> QED BY <1>1 DEF Fit

RunsGrow == \A c \in Calls : runs'[c] >= runs[c]

\* What fits a key still fits it when calls have run more.
LEMMA FitGrows ==
    ASSUME CallsTyped, CallsTyped', RunsGrow, NEW k, NEW v, Fit(k, v, runs)
    PROVE  Fit(k, v, runs')
<1> SUFFICES ASSUME v \in Values PROVE v[1] \in Tools /\ KeyOf[v[1]] = k /\ v[2] <= runs'[v[1]]
  BY DEF Fit
<1>1. v[1] \in Tools /\ KeyOf[v[1]] = k /\ v[2] <= runs[v[1]]
  BY DEF Fit
<1>2. v[1] \in Calls /\ v[2] \in Nat
  BY DEF Values
<1> DEFINE x == v[1]
           y == v[2]
<1> HIDE DEF x, y
<1>3. runs[x] \in Nat /\ runs'[x] \in Nat /\ runs'[x] >= runs[x]
  BY <1>2, Constants DEF CallsTyped, RunsGrow, x
<1>4. y <= runs[x] /\ y \in Nat
  BY <1>1, <1>2 DEF x, y
<1>5. y <= runs'[x]
  BY <1>3, <1>4
<1> QED BY <1>1, <1>5 DEF x, y

\* The same of results.
LEMMA ResultGrows ==
    ASSUME CallsTyped, CallsTyped', RunsGrow, NEW c, NEW p, NEW a, NEW h, NEW v,
           ResultOK(c, p, a, h, v, runs)
    PROVE  ResultOK(c, p, a, h, v, runs')
<1>1. \A k, w : Fit(k, w, runs) => Fit(k, w, runs')
  BY FitGrows
<1> QED BY <1>1 DEF ResultOK

\* No step takes back an execution.
LEMMA RunsNeverShrink ==
    ASSUME CallsTyped, NEW c \in Calls, Call(c) \/ Step(c) \/ Cancel(c)
    PROVE  RunsGrow
<1>1. \A d \in Calls : runs[d] \in Nat
  BY Constants DEF CallsTyped
<1>2. CASE runs' = runs
  BY <1>1, <1>2 DEF RunsGrow
<1>3. CASE Executed(c)
  BY <1>1, <1>3 DEF RunsGrow, Executed, CallsTyped
<1> QED BY <1>2, <1>3 DEF Step, Call, Cancel, Again, Before, BeforeRaises, Limit, GetLock,
           LimitPassed, Returns, Raises, OnError, Delayed, ErrorHandled, After

\* An entry is stored: what the cache is without the oldest one, and with the key.
LEMMA StoreKeeps ==
    ASSUME CacheTyped, CacheOK, NEW k \in Keys, NEW v \in Values \cup {Fallback},
           Fit(k, v, runs), Store(k, v), runs' = runs
    PROVE  CacheTyped' /\ CacheOK'
<1> DEFINE kept == IF Len(cache) >= MaxEntries THEN Tail(cache) ELSE cache
<1>0. cache \in Seq(Keys) /\ Len(cache) \in Nat /\ MaxEntries \in Nat \ {0} /\ Len(cache) <= MaxEntries
  BY Constants, LenProperties DEF CacheTyped, CacheOK
<1>1. /\ kept \in Seq(Keys) /\ Len(kept) \in Nat /\ Len(kept) < MaxEntries /\ Distinct(kept)
      /\ \A x : Occurs(x, kept) => Occurs(x, cache)
  <2>1. CASE Len(cache) >= MaxEntries
    <3>1. cache # <<>>
      BY <1>0, <2>1, EmptySeq
    <3>2. /\ Tail(cache) \in Seq(Keys) /\ Len(Tail(cache)) = Len(cache) - 1
          /\ \A i \in 1..Len(Tail(cache)) : Tail(cache)[i] = cache[i + 1]
      BY <1>0, <3>1, HeadTailProperties
    <3> DEFINE t == Tail(cache)
    <3>3. t \in Seq(Keys) /\ Len(t) = Len(cache) - 1 /\ \A i \in 1..Len(t) : t[i] = cache[i + 1]
      BY <3>2
    <3>4. kept = t
      BY <2>1
    <3> HIDE DEF t
    <3>5. Len(t) \in Nat /\ Len(t) < MaxEntries
      BY <1>0, <2>1, <3>3
    <3>6. ASSUME NEW i \in 1..Len(t), NEW j \in 1..Len(t), t[i] = t[j] PROVE i = j
      <4>1. i + 1 \in 1..Len(cache) /\ j + 1 \in 1..Len(cache)
        BY <1>0, <3>3
      <4>2. cache[i + 1] = cache[j + 1]
        BY <3>3, <3>6
      <4>3. i + 1 = j + 1
        BY <4>1, <4>2 DEF CacheOK, Distinct
      <4> QED BY <3>5, <4>3
    <3>7. ASSUME NEW x, Occurs(x, t) PROVE Occurs(x, cache)
      <4>1. PICK i \in 1..Len(t) : t[i] = x
        BY <3>7 DEF Occurs
      <4>2. i + 1 \in 1..Len(cache) /\ cache[i + 1] = x
        BY <1>0, <3>3, <4>1
      <4> QED BY <4>2 DEF Occurs
    <3>8. Distinct(t)
      BY <3>6 DEF Distinct
    <3> QED BY <3>3, <3>4, <3>5, <3>7, <3>8
  <2>2. CASE ~(Len(cache) >= MaxEntries)
    <3>1. kept = cache /\ Len(cache) < MaxEntries
      BY <1>0, <2>2
    <3> QED BY <1>0, <3>1 DEF CacheOK
  <2> QED BY <2>1, <2>2
<1>2. /\ cache' = IF Occurs(k, kept) THEN kept ELSE Append(kept, k)
      /\ stored' = [x \in Keys |-> IF x = k THEN v ELSE IF Occurs(x, kept) THEN stored[x] ELSE None]
  BY DEF Store, Occurs
<1> HIDE DEF kept
<1>3. ASSUME ~Occurs(k, kept)
      PROVE  /\ Append(kept, k) \in Seq(Keys) /\ Len(Append(kept, k)) <= MaxEntries
             /\ Distinct(Append(kept, k))
             /\ \A x : Occurs(x, Append(kept, k)) <=> Occurs(x, kept) \/ x = k
  <2> DEFINE s == Append(kept, k)
  <2>1. /\ s \in Seq(Keys) /\ Len(s) = Len(kept) + 1 /\ s[Len(kept) + 1] = k
        /\ \A i \in 1..Len(kept) : s[i] = kept[i]
    BY <1>1, AppendProperties
  <2> HIDE DEF s
  <2>2. Len(s) <= MaxEntries
    BY <1>0, <1>1, <2>1
  <2>3. \A i \in 1..Len(kept) : s[i] # k
    BY <1>3, <2>1 DEF Occurs
  <2>4. ASSUME NEW i \in 1..Len(s), NEW j \in 1..Len(s), s[i] = s[j] PROVE i = j
    <3>1. CASE i \in 1..Len(kept) /\ j \in 1..Len(kept)
      BY <1>1, <2>1, <2>4, <3>1 DEF Distinct
    <3>2. CASE i = Len(kept) + 1 \/ j = Len(kept) + 1
      BY <1>1, <2>1, <2>3, <2>4, <3>2
    <3> QED BY <1>1, <2>1, <3>1, <3>2
  <2>5. ASSUME NEW x PROVE Occurs(x, s) <=> Occurs(x, kept) \/ x = k
    <3>1. 1..Len(s) = (1..Len(kept)) \cup {Len(kept) + 1}
      BY <1>1, <2>1
    <3> QED BY <2>1, <3>1 DEF Occurs
  <2>6. Distinct(s)
    BY <2>4 DEF Distinct
  <2> QED BY <2>1, <2>2, <2>5, <2>6 DEF s
<1>4. /\ cache' \in Seq(Keys) /\ Len(cache') <= MaxEntries /\ Distinct(cache')
      /\ \A x : Occurs(x, cache') <=> Occurs(x, kept) \/ x = k
  <2>1. CASE Occurs(k, kept)
    <3>1. Len(kept) <= MaxEntries
      BY <1>0, <1>1
    <3>2. cache' = kept
      BY <1>2, <2>1
    <3> QED BY <1>1, <2>1, <3>1, <3>2
  <2>2. CASE ~Occurs(k, kept)
    <3>1. cache' = Append(kept, k)
      BY <1>2, <2>2
    <3> QED BY <1>3, <2>2, <3>1
  <2> QED BY <2>1, <2>2
<1>5. ASSUME NEW x \in Keys
      PROVE  stored'[x] \in Values \cup {None, Fallback}
             /\ (stored'[x] # None <=> Occurs(x, cache')) /\ Fit(x, stored'[x], runs')
  <2>1. CASE x = k
    <3>1. stored'[x] = v
      BY <1>2, <2>1
    <3> QED BY <1>4, <2>1, <3>1, Special
  <2>2. CASE x # k /\ Occurs(x, kept)
    <3>1. stored'[x] = stored[x]
      BY <1>2, <2>2
    <3>2. Occurs(x, cache)
      BY <1>1, <2>2
    <3> QED BY <1>4, <2>2, <3>1, <3>2 DEF CacheOK, CacheTyped
  <2>3. CASE x # k /\ ~Occurs(x, kept)
    <3>1. stored'[x] = None
      BY <1>2, <2>3
    <3> QED BY <1>4, <2>3, <3>1, Special
  <2> QED BY <2>1, <2>2, <2>3
<1>6. CacheTyped'
  <2>1. stored' = [x \in Keys |-> stored'[x]]
    BY <1>2
  <2> QED BY <1>4, <1>5, <2>1 DEF CacheTyped
<1>7. CacheOK'
  BY <1>4, <1>5 DEF CacheOK
<1> QED BY <1>6, <1>7

\* Past the first of the caches no hit is open, and where there is none neither.
LEMMA PastTheCaches ==
    ASSUME NEW c \in Calls, Backwards(c, Last + 1, {"cache"}), CallsTyped, at'[c] = 0
    PROVE  ~HasCache
<1>1. Last + 1 \in 1..(Last + 1) /\ Last \in Nat
  BY Constants
<1>2. PICK n \in 0..((Last + 1) - 1) :
             /\ at' = [at EXCEPT ![c] = n]
             /\ n = 0 => \A j \in 1..((Last + 1) - 1) : Chain[j] \notin {"cache"}
  BY <1>1, GoesBackwards
<1>3. n = 0
  BY <1>2 DEF CallsTyped
<1>4. \A j \in 1..Last : Chain[j] # "cache"
  BY <1>1, <1>2, <1>3
<1> QED BY <1>4 DEF HasCache

AnswersOK == OutcomesTyped /\ CacheTyped /\ CacheOK /\ AllResults

\* c comes to outcomes that are in order, and the cache stays.
LEMMA OneAnswers ==
    ASSUME AnswersOK, CallsTyped, CallsTyped', RunsGrow, UNCHANGED cacheVars, NEW c \in Calls,
           NEW h \in Values \cup {None, Fallback}, NEW v \in Values \cup {None, Fallback},
           hit' = [hit EXCEPT ![c] = h], result' = [result EXCEPT ![c] = v],
           ResultOK(c, pc'[c], at'[c], h, v, runs'),
           \A d \in Calls \ {c} : pc'[d] = pc[d] /\ at'[d] = at[d]
    PROVE  AnswersOK'
<1>1. OutcomesTyped'
  BY DEF AnswersOK, OutcomesTyped
<1>2. CacheTyped'
  BY DEF AnswersOK, CacheTyped
<1>3. CacheOK'
  <2>1. \A k \in Keys : Fit(k, stored[k], runs')
    BY FitGrows DEF AnswersOK, CacheOK
  <2> QED BY <2>1 DEF AnswersOK, CacheOK
<1>4. hit'[c] = h /\ result'[c] = v /\ \A d \in Calls \ {c} : hit'[d] = hit[d] /\ result'[d] = result[d]
  BY DEF AnswersOK, OutcomesTyped
<1>5. ASSUME NEW d \in Calls \ {c} PROVE ResultOK(d, pc'[d], at'[d], hit'[d], result'[d], runs')
  <2>1. ResultOK(d, pc[d], at[d], hit[d], result[d], runs)
    BY DEF AnswersOK, AllResults
  <2>2. ResultOK(d, pc[d], at[d], hit[d], result[d], runs')
    BY <2>1, ResultGrows
  <2>3. pc'[d] = pc[d] /\ at'[d] = at[d] /\ hit'[d] = hit[d] /\ result'[d] = result[d]
    BY <1>4
  <2> QED BY <2>2, <2>3
<1>6. AllResults'
  BY <1>4, <1>5 DEF AllResults
<1> QED BY <1>1, <1>2, <1>3, <1>6 DEF AnswersOK

\* The step leaves the outcomes of c alone and does not bring it past its hooks.
LEMMA SameAnswers ==
    ASSUME AnswersOK, CallsTyped, CallsTyped', RunsGrow, UNCHANGED <<cache, stored, hit,
           result>>, NEW c \in Calls,
           pc'[c] \notin {"after", "returned"}, \A d \in Calls \ {c} : pc'[d] = pc[d] /\ at'[d] = at[d]
    PROVE  AnswersOK'
<1>1. /\ hit[c] \in Values \cup {None, Fallback} /\ result[c] \in Values \cup {None, Fallback}
      /\ hit' = [hit EXCEPT ![c] = hit[c]] /\ result' = [result EXCEPT ![c] = result[c]]
  BY DEF AnswersOK, OutcomesTyped
<1>2. ResultOK(c, pc[c], at[c], hit[c], result[c], runs')
  BY ResultGrows DEF AnswersOK, AllResults
<1>3. ResultOK(c, pc'[c], at'[c], hit[c], result[c], runs')
  BY <1>2 DEF ResultOK
<1> QED BY <1>1, <1>3, OneAnswers

\* Entries, hits and results are outcomes of calls of their keys, after every step.
LEMMA AnswersStay ==
    ASSUME TypeOK, Controlled, AnswersOK, [Next]_vars
    PROVE  AnswersOK'
<1>t. CallsTyped /\ TimersTyped /\ OutcomesTyped /\ CacheTyped
  BY TypesAre
<1>n. CallsTyped'
  BY ControlStays DEF Controlled
<1>1. CASE Tick \/ UNCHANGED vars
  <2>1. UNCHANGED <<cache, stored, hit, result, runs, pc, at>>
    BY <1>1 DEF Tick
  <2>2. OutcomesTyped' /\ CacheTyped' /\ CacheOK' /\ AllResults'
    BY <2>1 DEF AnswersOK, OutcomesTyped, CacheTyped, CacheOK, AllResults
  <2> QED BY <2>2 DEF AnswersOK
<1>2. ASSUME NEW c \in Calls, Call(c) \/ Step(c) \/ Cancel(c) PROVE AnswersOK'
  <2>o. /\ \A d \in Calls \ {c} : pc'[d] = pc[d] /\ at'[d] = at[d]
        /\ RunsGrow
    BY <1>2, <1>t, OthersWait, RunsNeverShrink
  <2>c. /\ ResultOK(c, pc[c], at[c], hit[c], result[c], runs)
        /\ hit[c] \in Values \cup {None, Fallback} /\ result[c] \in Values \cup {None, Fallback}
        /\ hit = [hit EXCEPT ![c] = hit[c]] /\ result = [result EXCEPT ![c] = result[c]]
    BY <1>t DEF AnswersOK, AllResults, OutcomesTyped
  <2>r. ResultOK(c, pc[c], at[c], hit[c], result[c], runs')
    BY <1>t, <1>n, <2>o, <2>c, ResultGrows
  <2>s. ASSUME UNCHANGED <<cache, stored, hit, result>>,
            pc'[c] \notin {"after", "returned"} PROVE AnswersOK'
    BY <1>t, <1>n, <2>o, <2>s, SameAnswers
  <2>f. ASSUME NEW i \in 0..Last, ForwardsFrom(c, i) PROVE pc'[c] \in {"execute", "before"}
    BY <1>t, <2>f, AfterForwards
  <2>1. CASE Call(c) \/ Again(c)
    <3>1. pc'[c] \in {"execute", "before"}
      BY <2>1, <2>f, Constants DEF Call, Again, Attempt
    <3>2. hit' = [hit EXCEPT ![c] = None] /\ result' = [result EXCEPT ![c] = None] /\ UNCHANGED cacheVars
      BY <2>1 DEF Call, Again, Attempt
    <3>3. ResultOK(c, pc'[c], at'[c], None, None, runs')
      BY <3>1, Special DEF ResultOK
    <3> QED BY <1>t, <1>n, <2>o, <3>2, <3>3, OneAnswers
  <2>2. CASE Before(c)
    <3>1. at[c] \in 1..Last /\ at[c] \in 0..Last
      BY <2>2, OneIs DEF Before, Proper
    <3>2. pc'[c] \in {"execute", "before"}
      BY <2>2, <2>f, <3>1 DEF Before, Forwards
    <3>3. UNCHANGED <<cache, stored, result>>
      BY <2>2 DEF Before
    <3>4. CASE Chain[at[c]] = "cache" /\ c \in Tools
      <4> DEFINE h == stored[KeyOf[c]]
      <4>1. h \in Values \cup {None, Fallback} /\ Fit(KeyOf[c], h, runs)
        <5>1. KeyOf[c] \in Keys
          BY <3>4
        <5> QED BY <1>t, <5>1 DEF CacheTyped, AnswersOK, CacheOK
      <4>2. hit' = [hit EXCEPT ![c] = h]
        BY <2>2, <3>4 DEF Before
      <4>3. HasCache
        BY <3>1, <3>4 DEF HasCache
      <4>4. Fit(KeyOf[c], h, runs')
        BY <1>t, <1>n, <2>o, <4>1, FitGrows
      <4> HIDE DEF h
      <4>5. ResultOK(c, pc'[c], at'[c], h, result[c], runs')
        BY <2>r, <3>2, <3>4, <4>3, <4>4 DEF ResultOK
      <4>6. result' = [result EXCEPT ![c] = result[c]]
        BY <2>c, <3>3
      <4> QED BY <1>t, <1>n, <2>o, <2>c, <3>3, <4>1, <4>2, <4>5, <4>6, OneAnswers
    <3>5. CASE ~(Chain[at[c]] = "cache" /\ c \in Tools)
      BY <2>2, <2>s, <3>2, <3>3, <3>5 DEF Before
    <3> QED BY <3>4, <3>5
  <2>3. CASE Limit(c) \/ GetLock(c)
    <3>1. at[c] \in 0..Last
      BY <2>3, OneIs DEF Limit, GetLock, Proper
    <3>2. GoTo(c, "queued") \/ GoTo(c, "limited") \/ Forwards(c)
      BY <2>3 DEF Limit, GetLock, Refill, Sleep
    <3>3. pc'[c] \in {"queued", "limited", "execute", "before"}
      BY <1>t, <2>f, <3>1, <3>2 DEF GoTo, Forwards, CallsTyped
    <3> QED BY <2>3, <2>s, <3>3 DEF Limit, GetLock
  <2>4. CASE LimitPassed(c)
    <3>1. at[c] \in 0..Last
      BY <2>4, OneIs DEF LimitPassed, Proper
    <3> QED BY <2>4, <2>s, <2>f, <3>1 DEF LimitPassed, Forwards
  <2>5. CASE Cancel(c)
    BY <1>t, <2>5, <2>s DEF Cancel, GoTo, CallsTyped
  <2>6. CASE Delayed(c)
    BY <1>t, <2>6, <2>s DEF Delayed, GoTo, CallsTyped
  <2>7. CASE \E e \in Errors : BeforeRaises(c, e) \/ Raises(c, e)
    BY <1>t, <2>7, <2>s DEF BeforeRaises, Raises, AttemptFails, Sleep, GoTo, CallsTyped
  <2>8. CASE Returns(c)
    <3> DEFINE v == <<c, runs[c] + 1>>
    <3>1. pc'[c] = "after" /\ Backwards(c, Last + 1, {"cache"}) /\ runs'[c] = runs[c] + 1
      BY <1>t, <2>8 DEF Returns, GoTo, Executed, CallsTyped, Last
    <3>2. runs[c] + 1 \in 1..(Retries + 1)
      <4>1. runs[c] <= attempt[c]
        BY <2>8, OneIs DEF Returns, Proper, Forward
      <4>2. runs[c] \in Nat /\ attempt[c] \in 0..Retries /\ Retries \in Nat
        BY OneIs, Constants
      <4> QED BY <4>1, <4>2
    <3>3. v \in Values /\ v # None
      BY <3>2, Special DEF Values
    <3>4. c \in Tools => Fit(KeyOf[c], v, runs')
      <4>1. v[1] = c /\ v[2] = runs[c] + 1
        OBVIOUS
      <4>2. runs'[c] \in Nat /\ runs[c] + 1 <= runs'[c]
        BY <3>1, <3>2, Constants
      <4> QED BY <4>1, <4>2, <3>1 DEF Fit
    <3> HIDE DEF v
    <3>5. at'[c] = 0 => ~HasCache
      BY <1>t, <3>1, PastTheCaches
    <3>6. ResultOK(c, pc'[c], at'[c], hit[c], v, runs')
      BY <2>r, <3>1, <3>3, <3>4, <3>5 DEF ResultOK
    <3>7. hit' = [hit EXCEPT ![c] = hit[c]] /\ result' = [result EXCEPT ![c] = v] /\ UNCHANGED cacheVars
      BY <2>8, <2>c DEF Returns, v
    <3> QED BY <1>t, <1>n, <2>o, <2>c, <3>3, <3>6, <3>7, OneAnswers
  <2>9. CASE OnError(c)
    <3>1. pc'[c] \in {"on_error", "delayed"} /\ UNCHANGED <<cache, stored, hit>>
      BY <1>t, <2>9 DEF OnError, Sleep, GoTo, CallsTyped
    <3>2. CASE result' = result
      BY <2>s, <3>1, <3>2
    <3>3. CASE result' = [result EXCEPT ![c] = Fallback]
      <4>1. ResultOK(c, pc'[c], at'[c], hit[c], Fallback, runs')
        BY <2>r, <3>1, Special DEF ResultOK
      <4>2. hit' = [hit EXCEPT ![c] = hit[c]]
        BY <2>c, <3>1
      <4> QED BY <1>t, <1>n, <2>o, <2>c, <3>1, <3>3, <4>1, <4>2, OneAnswers
    <3> QED BY <2>9, <3>2, <3>3 DEF OnError
  <2>10. CASE ErrorHandled(c)
    <3>1. UNCHANGED <<cache, stored, hit, result>>
      BY <2>10 DEF ErrorHandled
    <3>2. CASE result[c] = None
      <4>1. AttemptFails(c, error[c])
        BY <2>10, <3>2 DEF ErrorHandled
      <4>2. pc'[c] \in {"backoff", "raised"}
        BY <1>t, <4>1 DEF AttemptFails, Sleep, GoTo, CallsTyped
      <4> QED BY <2>s, <3>1, <4>2
    <3>3. CASE result[c] # None
      <4>1. Backwards(c, Last + 1, {"cache"}) /\ pc'[c] = "after"
        BY <1>t, <2>10, <3>3 DEF ErrorHandled, GoTo, CallsTyped, Last
      <4>2. at'[c] = 0 => ~HasCache
        BY <1>t, <4>1, PastTheCaches
      <4>3. ResultOK(c, pc'[c], at'[c], hit[c], result[c], runs')
        BY <2>r, <3>3, <4>1, <4>2 DEF ResultOK
      <4>4. hit' = [hit EXCEPT ![c] = hit[c]] /\ result' = [result EXCEPT ![c] = result[c]]
        BY <2>c, <3>1
      <4> QED BY <1>t, <1>n, <2>o, <2>c, <3>1, <4>3, <4>4, OneAnswers
    <3> QED BY <3>2, <3>3
  <2>11. CASE After(c)
    <3>0. pc[c] = "after" /\ hit' = hit /\ runs' = runs
      BY <2>11 DEF After
    <3>1. CASE at[c] = 0
      <4>1. pc'[c] = "returned" /\ at' = at /\ UNCHANGED <<result, cache, stored>>
        BY <1>t, <2>11, <3>1 DEF After, GoTo, CallsTyped
      <4>2. ResultOK(c, pc'[c], at'[c], hit[c], result[c], runs')
        BY <2>r, <3>0, <3>1, <4>1 DEF ResultOK
      <4>3. hit' = [hit EXCEPT ![c] = hit[c]] /\ result' = [result EXCEPT ![c] = result[c]]
        BY <2>c, <3>0, <4>1
      <4> QED BY <1>t, <1>n, <2>o, <2>c, <4>1, <4>2, <4>3, OneAnswers
    <3>2. CASE at[c] # 0 /\ c \notin Tools
      <4>1. pc'[c] = "after" /\ UNCHANGED <<result, cache, stored>>
        BY <2>11, <3>0, <3>2 DEF After
      <4>2. ResultOK(c, pc'[c], at'[c], hit[c], result[c], runs')
        BY <2>r, <3>0, <3>2, <4>1 DEF ResultOK
      <4>3. hit' = [hit EXCEPT ![c] = hit[c]] /\ result' = [result EXCEPT ![c] = result[c]]
        BY <2>c, <3>0, <4>1
      <4> QED BY <1>t, <1>n, <2>o, <2>c, <4>1, <4>2, <4>3, OneAnswers
    <3>3. CASE at[c] # 0 /\ c \in Tools /\ hit[c] # None
      <4>1. pc'[c] = "after" /\ result' = [result EXCEPT ![c] = hit[c]] /\ UNCHANGED cacheVars
        BY <2>11, <3>0, <3>3 DEF After, CacheAfter
      <4>2. ResultOK(c, pc'[c], at'[c], hit[c], hit[c], runs')
        BY <2>r, <3>0, <3>3, <4>1 DEF ResultOK
      <4>3. hit' = [hit EXCEPT ![c] = hit[c]]
        BY <2>c, <3>0
      <4> QED BY <1>t, <1>n, <2>o, <2>c, <4>1, <4>2, <4>3, OneAnswers
    <3>4. CASE at[c] # 0 /\ c \in Tools /\ hit[c] = None
      <4>1. pc' = pc /\ Store(KeyOf[c], result[c]) /\ result' = result
        BY <2>11, <3>4 DEF After, CacheAfter
      <4>2. result[c] \in Values \cup {Fallback} /\ Fit(KeyOf[c], result[c], runs) /\ KeyOf[c] \in Keys
        BY <2>c, <3>0, <3>4 DEF ResultOK
      <4>3. CacheTyped' /\ CacheOK'
        BY <1>t, <3>0, <4>1, <4>2, StoreKeeps DEF AnswersOK
      <4>4. OutcomesTyped'
        BY <1>t, <3>0, <4>1 DEF OutcomesTyped
      <4>5. ResultOK(c, pc'[c], at'[c], hit[c], result[c], runs)
        BY <2>c, <3>0, <3>4, <4>1 DEF ResultOK
      <4>6. AllResults'
        BY <2>o, <3>0, <4>1, <4>5 DEF AnswersOK, AllResults
      <4> QED BY <4>3, <4>4, <4>6 DEF AnswersOK
    <3> QED BY <3>1, <3>2, <3>3, <3>4
  <2> QED BY <1>2, <2>1, <2>2, <2>3, <2>4, <2>5, <2>6, <2>7, <2>8, <2>9, <2>10, <2>11 DEF Step
<1> QED BY <1>1, <1>2 DEF Next

-----------------------------------------------------------------------------
(* The theorems.                                                            *)

IInv == TypeOK /\ Controlled /\ LineOK /\ LimiterOK /\ AnswersOK

\* The invariant holds at the start.
LEMMA Starts == Init => IInv
<1> SUFFICES ASSUME Init PROVE IInv
  OBVIOUS
<1>0. Full \in Nat /\ Last \in Nat /\ Retries \in Nat /\ Period \in Nat /\ MaxEntries \in Nat
  BY Constants
<1>1. CallsTyped
  BY <1>0 DEF Init, CallsTyped, Places
<1>2. TimersTyped
  BY <1>0 DEF Init, TimersTyped
<1>3. OutcomesTyped
  BY DEF Init, OutcomesTyped
<1>4. LimiterTyped
  <2>1. now \in Nat /\ lastRefill \in 0..now /\ tokens \in 0..Full
    BY <1>0 DEF Init
  <2>2. line = <<>> /\ passes = <<>>
    BY DEF Init
  <2>3. line \in Seq(Calls) /\ passes \in Seq([call : Calls, time : 0..now])
    BY <2>2, EmptySeq
  <2> QED BY <2>1, <2>3 DEF LimiterTyped
<1>5. CacheTyped
  BY DEF Init, CacheTyped
<1>6. TypeOK
  BY <1>1, <1>2, <1>3, <1>4, <1>5, TypesAre
<1>7. Controlled
  <2>1. AllProper
    BY <1>0 DEF Init, AllProper, Proper
  <2> QED BY <1>1, <2>1 DEF Controlled
<1>8. LineOK
  BY DEF Init, LineOK
<1>9. LimiterOK
  <2>1. N = 0
    BY DEF Init, N
  <2>2. \A c \in Calls : pc[c] # "limited"
    BY DEF Init
  <2> QED BY <2>1, <2>2 DEF LimiterOK, Budget, AllRated, SleeperOK
<1>10. CacheOK
  <2>1. Len(cache) = 0 /\ \A k \in Keys : stored[k] = None
    BY DEF Init
  <2>2. Distinct(cache) /\ \A k \in Keys : ~Occurs(k, cache)
    BY <2>1 DEF Distinct, Occurs
  <2> QED BY <1>0, <2>1, <2>2, Special DEF CacheOK
<1>11. AllResults
  BY Special DEF Init, AllResults, ResultOK
<1> QED BY <1>3, <1>5, <1>6, <1>7, <1>8, <1>9, <1>10, <1>11 DEF IInv, AnswersOK

\* The invariant is inductive.
LEMMA GoesOn == IInv /\ [Next]_vars => IInv'
<1> SUFFICES ASSUME IInv, [Next]_vars PROVE IInv'
  OBVIOUS
<1>1. TypeOK /\ Controlled /\ LineOK /\ LimiterOK /\ AnswersOK
  BY DEF IInv
<1>2. Controlled'
  BY <1>1, ControlStays
<1>3. LineOK'
  BY <1>1, LineStays
<1>4. LimiterOK' /\ LimiterTyped'
  BY <1>1, LimiterStays
<1>5. AnswersOK'
  BY <1>1, AnswersStay
<1>6. TimersTyped'
  <2>1. LimiterTyped /\ TimersTyped
    BY <1>1, TypesAre
  <2> QED BY <2>1, NowIs, TimersStay
<1>7. (CallsTyped /\ TimersTyped /\ OutcomesTyped /\ LimiterTyped /\ CacheTyped)'
  BY <1>2, <1>4, <1>5, <1>6 DEF Controlled, AnswersOK
<1>8. TypeOK'
  BY <1>7 DEF TypeOK, CallsTyped, TimersTyped, OutcomesTyped, LimiterTyped, CacheTyped, Places,
     Last
<1> QED BY <1>2, <1>3, <1>4, <1>5, <1>8 DEF IInv

\* The state is one of its type.
THEOREM TypeCorrectness == Spec => []TypeOK
<1>1. IInv => TypeOK
  BY DEF IInv
<1> QED BY <1>1, Starts, GoesOn, PTL DEF Spec

\* The limiter keeps its rate.
LEMMA RateKept == IInv => RateIsBounded
<1> SUFFICES ASSUME IInv PROVE RateIsBounded
  OBVIOUS
<1>1. AllRated
  BY DEF IInv, LimiterOK
<1> QED BY <1>1 DEF AllRated, Rated, Cost, Time, N, RateIsBounded

\* Whatever the calls, the chain with a limiter somewhere in it, the rate and the
\* retries: every execution was let through by the limiter of the chain, and the
\* limiter lets through at most a full bucket and two tokens a Period
\* (RateLimiterMiddleware, the retry loops and the middleware runner).
THEOREM TheLimitHolds ==
    ASSUME \E r \in 1..Len(Chain) : Chain[r] = "rate"
    PROVE  Spec => []ExecutionsAreLimited
<1>0. PICK r \in 1..Last : Chain[r] = "rate"
  BY DEF Last
<1> DEFINE Inv == IInv /\ PaidAt(r)
<1>1. Init => Inv
  <2> SUFFICES ASSUME Init PROVE Inv
    OBVIOUS
  <2>1. IInv
    BY Starts
  <2>2. ASSUME NEW c \in Calls PROVE runs[c] + Owed(pc[c], at[c], r) <= Count(passes, c)
    <3>1. Owed(pc[c], at[c], r) = 0 /\ runs[c] = 0
      BY DEF Init, Owed, HasPassed
    <3>2. Len(passes) \in Nat
      BY DEF Init
    <3>3. Count(passes, c) \in Nat
      BY <3>2, PassesFinite
    <3> QED BY <3>1, <3>3
  <2> QED BY <2>1, <2>2 DEF PaidAt
<1>2. Inv /\ [Next]_vars => Inv'
  <2> SUFFICES ASSUME Inv, [Next]_vars PROVE Inv'
    OBVIOUS
  <2>1. IInv'
    BY GoesOn
  <2>2. PaidAt(r)'
    BY <1>0, AccountStays DEF IInv
  <2> QED BY <2>1, <2>2
<1>3. Inv => ExecutionsAreLimited
  <2> SUFFICES ASSUME Inv PROVE ExecutionsAreLimited
    OBVIOUS
  <2>1. TypeOK /\ RateIsBounded
    BY RateKept DEF IInv
  <2>2. ASSUME NEW c \in Calls PROVE runs[c] <= Count(passes, c)
    <3>1. runs[c] + Owed(pc[c], at[c], r) <= Count(passes, c)
      BY DEF PaidAt
    <3>2. Len(passes) \in Nat /\ runs[c] \in Nat
      BY <2>1, OneIs, Constants, LenProperties DEF IInv, TypeOK
    <3>3. Count(passes, c) \in Nat
      BY <3>2, PassesFinite
    <3> QED BY <3>1, <3>2, <3>3 DEF Owed
  <2>3. EveryExecutionIsPaid
    BY <2>2 DEF EveryExecutionIsPaid, Count, PassesOf
  <2> QED BY <2>1, <2>3 DEF ExecutionsAreLimited
<1> HIDE DEF Inv
<1> QED BY <1>1, <1>2, <1>3, PTL DEF Spec

\* Whatever the calls, their keys and the order in which overlapping misses,
\* evictions and retries come: the cache answers a key with the outcome of a call
\* of that key, and a hit is what is returned (CacheMiddleware).
THEOREM TheCacheAnswers == Spec => []CacheAnswers
<1>1. IInv => CacheAnswers
  <2> SUFFICES ASSUME IInv PROVE CacheAnswers
    OBVIOUS
  <2>0. CacheOK /\ AllResults /\ CacheTyped /\ Len(cache) \in Nat
    BY LenProperties DEF IInv, AnswersOK, CacheTyped
  <2>1. ASSUME NEW k \in Keys
        PROVE  stored[k] # None <=> Cardinality({i \in 1..Len(cache) : cache[i] = k}) = 1
    <3> DEFINE P == {i \in 1..Len(cache) : cache[i] = k}
    <3>1. \A i, j \in P : i = j
      BY <2>0 DEF CacheOK, Distinct
    <3>2. stored[k] # None <=> P # {}
      BY <2>0 DEF CacheOK, Occurs
    <3> HIDE DEF P
    <3>3. CASE P = {}
      <4>1. Cardinality(P) = 0
        BY <3>3, FS_EmptySet
      <4> QED BY <3>2, <3>3, <4>1 DEF P
    <3>4. CASE P # {}
      <4>1. PICK i \in P : P = {i}
        BY <3>1, <3>4
      <4>2. Cardinality(P) = 1
        BY <4>1, FS_Singleton
      <4> QED BY <3>2, <3>4, <4>2 DEF P
    <3> QED BY <3>3, <3>4
  <2>2. ASSUME NEW k \in Keys, stored[k] \notin {None, Fallback}
        PROVE  KeyOf[stored[k][1]] = k /\ stored[k][2] <= runs[stored[k][1]]
    <3>1. stored[k] \in Values
      BY <2>0, <2>2 DEF CacheTyped
    <3> QED BY <2>0, <3>1 DEF CacheOK, Fit
  <2>3. CacheIsCoherent
    BY <2>0, <2>1, <2>2 DEF CacheIsCoherent, CacheOK, Distinct
  <2>4. HitIsReturned
    BY <2>0 DEF AllResults, ResultOK, HitIsReturned
  <2> QED BY <2>3, <2>4 DEF CacheAnswers
<1> QED BY <1>1, Starts, GoesOn, PTL DEF Spec
=============================================================================
