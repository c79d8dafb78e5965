---------------------------- MODULE CallPipeline ----------------------------
(***************************************************************************)
(* What stands around a call of a model or of a tool: the retry loop and,   *)
(* within each attempt, the middleware chain, before() forwards, after() or *)
(* on_error() backwards.  Calls of several runs share the middleware: the   *)
(* RateLimiter's bucket and lock, the CacheMiddleware's dictionary.          *)
(*                                                                           *)
(* A hook that does something is a step; one that hands everything on does    *)
(* not suspend and is passed over, as are AuditLogger, ContentTruncator and    *)
(* SchemaValidator ("other").  "fallback" is a middleware of an application     *)
(* whose on_error may suppress the error.  Time is counted in ticks, tokens in    *)
(* parts of 1/Period, so that one tick refills one part.                       *)
(***************************************************************************)
EXTENDS Naturals, Sequences, FiniteSets

CONSTANTS
    Calls,      \* model and tool calls
    Tools,      \* those that execute a tool
    Keys,       \* tool names with arguments, hashed by _make_key
    KeyOf,      \* the key of each tool call
    Chain,      \* the middleware, in order
    MaxRate,    \* max_rate: the tokens of a full bucket
    Period,     \* ticks until one token is refilled
    MaxEntries, \* max_entries of the cache
    Retries,    \* max_retries of the retry loop
    MaxTime,    \* ticks that pass while nobody sleeps
    Failing,    \* calls that may raise in this instance
    Cancelled,  \* calls whose task may be cancelled in this instance
    None, Fallback

ASSUME PipelineAssumption ==
    /\ Tools \subseteq Calls /\ KeyOf \in [Tools -> Keys]
    /\ Chain \in Seq({"rate", "cache", "validator", "retry", "fallback", "other"})
    /\ {MaxRate, Period, MaxEntries} \subseteq Nat \ {0}
    /\ {Retries, MaxTime} \subseteq Nat
    /\ Failing \cup Cancelled \subseteq Calls
    /\ None # Fallback /\ {None, Fallback} \cap (Calls \X (1..(Retries + 1))) = {}

VARIABLES
    now,
    tokens,     \* _tokens, in parts of 1/Period
    lastRefill, \* _last_refill
    line,       \* _lock: its holder, and who waits for it
    cache,      \* _cache: its keys in the order of insertion
    stored,     \* _cache: the value of each key
    pc,         \* where a call is
    at,         \* the middleware whose hook is next
    attempt,
    error,      \* the exception an attempt carries outwards
    wakeAt,     \* end of the sleep a call is in
    hit,        \* metadata["_cache_result"] of the attempt
    result,
    runs,       \* how often the call has been executed
    passes      \* when the limiter let whom pass

limiterVars == <<tokens, lastRefill, line, passes>>
cacheVars   == <<cache, stored>>
callVars    == <<pc, at, attempt, error, wakeAt, hit, result, runs>>
vars == <<now, limiterVars, cacheVars, callVars>>

Errors   == {"retryable", "fatal"}
Sleeping == {"limited", "delayed", "backoff"}
Ended    == {"returned", "raised", "cancelled"}
Values   == Calls \X (1..(Retries + 1))
Full     == MaxRate * Period

TypeOK ==
    /\ now \in Nat /\ lastRefill \in 0..now
    /\ tokens \in 0..Full
    /\ line \in Seq(Calls)
    /\ cache \in Seq(Keys) /\ stored \in [Keys -> Values \cup {None, Fallback}]
    /\ pc \in [Calls -> {"new", "before", "queued", "execute", "on_error", "after"} \cup Sleeping \cup Ended]
    /\ at \in [Calls -> 0..(Len(Chain) + 1)]
    /\ attempt \in [Calls -> 0..Retries]
    /\ error \in [Calls -> Errors \cup {"none"}]
    /\ wakeAt \in [Calls -> 0..(now + Period)]
    /\ hit \in [Calls -> Values \cup {None, Fallback}]
    /\ result \in [Calls -> Values \cup {None, Fallback}]
    /\ runs \in [Calls -> 0..(Retries + 1)]
    /\ passes \in Seq([call : Calls, time : 0..now])

Init ==
    /\ now = 0 /\ tokens = Full /\ lastRefill = 0 /\ line = <<>>
    /\ cache = <<>> /\ stored = [k \in Keys |-> None]
    /\ pc = [c \in Calls |-> "new"]
    /\ at = [c \in Calls |-> 0]
    /\ attempt = [c \in Calls |-> 0]
    /\ error = [c \in Calls |-> "none"]
    /\ wakeAt = [c \in Calls |-> 0]
    /\ hit = [c \in Calls |-> None]
    /\ result = [c \in Calls |-> None]
    /\ runs = [c \in Calls |-> 0]
    /\ passes = <<>>

GoTo(c, where) == pc' = [pc EXCEPT ![c] = where]

Sleep(c, where, ticks) ==
    /\ GoTo(c, where)
    /\ wakeAt' = [wakeAt EXCEPT ![c] = now + ticks]

Wake(c) ==
    /\ now >= wakeAt[c]
    /\ wakeAt' = [wakeAt EXCEPT ![c] = 0]

\* On to the next middleware with a before(), or to the call itself.
ForwardsFrom(c, i) ==
    LET later == {j \in (i + 1)..Len(Chain) : Chain[j] \in {"rate", "cache", "validator"}}
        next  == CHOOSE j \in later \cup {Len(Chain) + 1} : \A k \in later : j <= k IN
    /\ at' = [at EXCEPT ![c] = next]
    /\ GoTo(c, IF later = {} THEN "execute" ELSE "before")

Forwards(c) == ForwardsFrom(c, at[c])

\* Back to the nearest of kinds before place i; 0 is past the first.
Backwards(c, i, kinds) ==
    LET earlier == {j \in 1..(i - 1) : Chain[j] \in kinds} IN
    at' = [at EXCEPT ![c] = CHOOSE j \in earlier \cup {0} : \A k \in earlier : k <= j]

Handling == {"retry", "fallback"}

(***************************************************************************)
(* The retry loop of _call_llm, _execute_tool and retry_async.  Each attempt *)
(* has a context of its own.                                                *)
(***************************************************************************)
Attempt(c) ==
    /\ ForwardsFrom(c, 0)
    /\ hit' = [hit EXCEPT ![c] = None]
    /\ result' = [result EXCEPT ![c] = None]
    /\ error' = [error EXCEPT ![c] = "none"]

Call(c) ==
    /\ pc[c] = "new"
    /\ Attempt(c)
    /\ UNCHANGED <<now, limiterVars, cacheVars, attempt, wakeAt, runs>>

\* regression: the call alone is repeated, without the chain around it.
Again_CallOnly(c) ==
    /\ pc[c] = "backoff" /\ Wake(c)
    /\ attempt' = [attempt EXCEPT ![c] = @ + 1]
    /\ error' = [error EXCEPT ![c] = "none"]
    /\ at' = [at EXCEPT ![c] = Len(Chain) + 1]
    /\ GoTo(c, "execute")
    /\ UNCHANGED <<now, limiterVars, cacheVars, hit, result, runs>>

Again(c) ==
    /\ pc[c] = "backoff" /\ Wake(c)
    /\ attempt' = [attempt EXCEPT ![c] = @ + 1]
    /\ Attempt(c)
    /\ UNCHANGED <<now, limiterVars, cacheVars, runs>>

\* The exception e leaves the chain.
AttemptFails(c, e) ==
    /\ error' = [error EXCEPT ![c] = e]
    /\ IF e = "retryable" /\ attempt[c] < Retries
         THEN Sleep(c, "backoff", 1)
         ELSE GoTo(c, "raised") /\ UNCHANGED wakeAt

(***************************************************************************)
(* before()                                                                 *)
(***************************************************************************)
Before(c) ==
    /\ pc[c] = "before" /\ Chain[at[c]] # "rate"
    /\ Forwards(c)
    /\ hit' = IF Chain[at[c]] = "cache" /\ c \in Tools
                THEN [hit EXCEPT ![c] = stored[KeyOf[c]]] ELSE hit
    /\ UNCHANGED <<now, limiterVars, cacheVars, attempt, error, wakeAt, result, runs>>

\* FileNotFoundError is an OSError, which the policies retry; ValueError is not.
\* The hooks of the middleware before this one are not called.
BeforeRaises(c, e) ==
    /\ pc[c] = "before" /\ Chain[at[c]] = "validator" /\ c \in Tools \cap Failing
    /\ AttemptFails(c, e)
    /\ UNCHANGED <<now, limiterVars, cacheVars, at, attempt, hit, result, runs>>

Pass(c) == passes' = Append(passes, [call |-> c, time |-> now])

\* RateLimiterMiddleware.before with the lock held; rest are the others who wait
\* for the lock.  The time of the sleep is refilled once more by the next caller.
Refill(c, rest) ==
    LET filled == IF tokens + now - lastRefill > Full THEN Full ELSE tokens + now - lastRefill IN
    /\ lastRefill' = now
    /\ IF filled < Period
         THEN /\ Sleep(c, "limited", Period - filled)
              /\ tokens' = filled /\ line' = <<c>> \o rest
              /\ UNCHANGED <<at, passes>>
         ELSE /\ Forwards(c) /\ Pass(c)
              /\ tokens' = filled - Period /\ line' = rest
              /\ UNCHANGED wakeAt

\* A free lock is taken at once; a held one is waited for in line.
Limit(c) ==
    /\ pc[c] = "before" /\ Chain[at[c]] = "rate"
    /\ \/ line = <<>> /\ Refill(c, <<>>)
       \/ /\ line # <<>>
          /\ line' = Append(line, c)
          /\ GoTo(c, "queued")
          /\ UNCHANGED <<tokens, lastRefill, passes, at, wakeAt>>
    /\ UNCHANGED <<now, cacheVars, attempt, error, hit, result, runs>>

GetLock(c) ==
    /\ pc[c] = "queued" /\ Head(line) = c
    /\ Refill(c, Tail(line))
    /\ UNCHANGED <<now, cacheVars, attempt, error, hit, result, runs>>

LimitPassed(c) ==
    /\ pc[c] = "limited" /\ Wake(c)
    /\ tokens' = 0
    /\ line' = Tail(line)
    /\ Pass(c) /\ Forwards(c)
    /\ UNCHANGED <<now, lastRefill, cacheVars, attempt, error, hit, result, runs>>

(***************************************************************************)
(* The call itself, and the hooks on the way back.                          *)
(***************************************************************************)
Executed(c) == runs' = [runs EXCEPT ![c] = @ + 1]

Returns(c) ==
    /\ pc[c] = "execute"
    /\ Executed(c)
    /\ result' = [result EXCEPT ![c] = <<c, runs[c] + 1>>]
    /\ Backwards(c, Len(Chain) + 1, {"cache"})
    /\ GoTo(c, "after")
    /\ UNCHANGED <<now, limiterVars, cacheVars, attempt, error, wakeAt, hit>>

Raises(c, e) ==
    /\ pc[c] = "execute" /\ c \in Failing
    /\ Executed(c)
    /\ error' = [error EXCEPT ![c] = e]
    /\ Backwards(c, Len(Chain) + 1, Handling)
    /\ GoTo(c, "on_error")
    /\ UNCHANGED <<now, limiterVars, cacheVars, attempt, wakeAt, hit, result>>

\* RetryMiddleware only sleeps: the count it leaves in the metadata has no reader.
OnError(c) ==
    /\ pc[c] = "on_error" /\ at[c] > 0
    /\ Backwards(c, at[c], Handling)
    /\ IF Chain[at[c]] = "retry" THEN Sleep(c, "delayed", 1) ELSE UNCHANGED <<pc, wakeAt>>
    /\ result' \in IF Chain[at[c]] = "fallback" /\ result[c] = None
                     THEN {result, [result EXCEPT ![c] = Fallback]} ELSE {result}
    /\ UNCHANGED <<now, limiterVars, cacheVars, attempt, error, hit, runs>>

Delayed(c) ==
    /\ pc[c] = "delayed" /\ Wake(c)
    /\ GoTo(c, "on_error")
    /\ UNCHANGED <<now, limiterVars, cacheVars, at, attempt, error, hit, result, runs>>

\* A fallback goes through every after() like a result.
ErrorHandled(c) ==
    /\ pc[c] = "on_error" /\ at[c] = 0
    /\ IF result[c] = None
         THEN AttemptFails(c, error[c]) /\ UNCHANGED at
         ELSE /\ Backwards(c, Len(Chain) + 1, {"cache"})
              /\ GoTo(c, "after")
              /\ UNCHANGED <<error, wakeAt>>
    /\ UNCHANGED <<now, limiterVars, cacheVars, attempt, hit, result, runs>>

\* The oldest entry goes when the cache is full, although k may have an entry, and
\* may even be the oldest; an entry that is still there keeps its place.
Store(k, v) ==
    LET kept == IF Len(cache) >= MaxEntries THEN Tail(cache) ELSE cache IN
    /\ cache' = IF \E i \in 1..Len(kept) : kept[i] = k THEN kept ELSE Append(kept, k)
    /\ stored' = [x \in Keys |->
                    IF x = k THEN v
                    ELSE IF \E i \in 1..Len(kept) : kept[i] = x THEN stored[x] ELSE None]

\* regression: a hit is looked up again instead of kept in the metadata.
CacheAfter_ReadAgain(c) ==
    IF hit[c] # None
      THEN result' = [result EXCEPT ![c] = stored[KeyOf[c]]] /\ UNCHANGED cacheVars
      ELSE Store(KeyOf[c], result[c]) /\ UNCHANGED result

CacheAfter(c) ==
    IF hit[c] # None
      THEN result' = [result EXCEPT ![c] = hit[c]] /\ UNCHANGED cacheVars
      ELSE Store(KeyOf[c], result[c]) /\ UNCHANGED result

After(c) ==
    /\ pc[c] = "after"
    /\ IF at[c] = 0
         THEN GoTo(c, "returned") /\ UNCHANGED <<at, result, cacheVars>>
         ELSE /\ Backwards(c, at[c], {"cache"})
              /\ IF c \in Tools
                   THEN CacheAfter(c) ELSE UNCHANGED <<result, cacheVars>>
              /\ UNCHANGED pc
    /\ UNCHANGED <<now, limiterVars, attempt, error, wakeAt, hit, runs>>

\* The lock, and its line, without c.
LineWithout(c) ==
    IF \A i \in 1..Len(line) : line[i] # c THEN line
    ELSE LET i == CHOOSE j \in 1..Len(line) : line[j] = c
         IN  [j \in 1..(Len(line) - 1) |-> IF j < i THEN line[j] ELSE line[j + 1]]

\* regression: a cancelled sleeper keeps the lock.
Cancel_KeepsLock(c) ==
    /\ c \in Cancelled /\ pc[c] \in {"queued", "execute"} \cup Sleeping
    /\ GoTo(c, "cancelled")
    /\ line' = IF pc[c] = "queued" THEN LineWithout(c) ELSE line
    /\ wakeAt' = [wakeAt EXCEPT ![c] = 0]
    /\ UNCHANGED <<now, tokens, lastRefill, passes, cacheVars, at, attempt, error, hit,
                   result, runs>>

\* CancelledError is no Exception: no hook sees it, the lock is released.
Cancel(c) ==
    /\ c \in Cancelled /\ pc[c] \in {"queued", "execute"} \cup Sleeping
    /\ GoTo(c, "cancelled")
    /\ line' = LineWithout(c)
    /\ wakeAt' = [wakeAt EXCEPT ![c] = 0]
    /\ UNCHANGED <<now, tokens, lastRefill, passes, cacheVars, at, attempt, error, hit,
                   result, runs>>

\* A sleep may last longer than it was asked to.
Tick ==
    /\ now < MaxTime \/ \E c \in Calls : pc[c] \in Sleeping /\ now < wakeAt[c]
    /\ now' = now + 1
    /\ UNCHANGED <<limiterVars, cacheVars, callVars>>

Step(c) ==
    \/ Again(c) \/ Before(c) \/ Limit(c) \/ GetLock(c) \/ LimitPassed(c)
    \/ Returns(c)
    \/ \E e \in Errors : BeforeRaises(c, e) \/ Raises(c, e)
    \/ OnError(c) \/ Delayed(c) \/ ErrorHandled(c) \/ After(c)

Next == Tick \/ \E c \in Calls : Call(c) \/ Step(c) \/ Cancel(c)

Spec == Init /\ [][Next]_vars

\* Time passes and every coroutine that can go on does; a model or a tool answers
\* (tool_timeout).
FairSpec == Spec /\ WF_vars(Tick) /\ \A c \in Calls : WF_vars(Step(c))

-----------------------------------------------------------------------------
(* Properties                                                              *)

\* However calls, sleeps that last too long, retries and cancellations mix: a
\* stretch of time sees at most a full bucket and two tokens a Period.  (Nominally
\* it would be one: the limiter empties the bucket after a sleep without moving
\* _last_refill.)
RateIsBounded ==
    \A i, j \in 1..Len(passes) : i < j =>
        (j - i) * Period <= Full + 2 * (passes[j].time - passes[i].time)

\* Every execution, those of retries included, was let through by the limiter.
EveryExecutionIsPaid ==
    \A c \in Calls : runs[c] <= Cardinality({i \in 1..Len(passes) : passes[i].call = c})

\* The dictionary has at most max_entries entries, a value for each of its keys and
\* for no other, each of them the outcome of a call with that key: overlapping misses
\* of a key and evictions in between leave no foreign or forgotten value.
CacheIsCoherent ==
    /\ Len(cache) <= MaxEntries
    /\ \A k \in Keys : stored[k] # None <=> Cardinality({i \in 1..Len(cache) : cache[i] = k}) = 1
    /\ \A i, j \in 1..Len(cache) : cache[i] = cache[j] => i = j
    /\ \A k \in Keys : stored[k] \notin {None, Fallback} =>
            KeyOf[stored[k][1]] = k /\ stored[k][2] <= runs[stored[k][1]]

\* A call that found its key in the cache returns the value it found, although the
\* tool is executed again and the entry may be replaced or evicted meanwhile.
HitIsReturned ==
    \A c \in Calls : pc[c] = "returned" /\ hit[c] # None => result[c] = hit[c]

\* Every call ends, also behind a sleeper that is cancelled while it holds the lock.
CallsEnd == \A c \in Calls : pc[c] # "new" ~> pc[c] \in Ended

\* The limiter bounds what is executed, and not only what is asked for.
ExecutionsAreLimited == TypeOK /\ RateIsBounded /\ EveryExecutionIsPaid

\* The cache holds outcomes of its keys, and a hit stands.
CacheAnswers == CacheIsCoherent /\ HitIsReturned
=============================================================================
