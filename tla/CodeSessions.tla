---------------------------- MODULE CodeSessions -----------------------------
(***************************************************************************)
(* The code interpreter: SessionManager maps sessions to micro VMs taken    *)
(* from the warm VMPool.  Clients execute requests and delete sessions, the *)
(* cleanup task evicts the idle ones, replenish tasks boot new VMs, VMs die,*)
(* and the service stops.                                                   *)
(*                                                                          *)
(* Time is abstract: a session is in "idle" once its idle_seconds exceed    *)
(* session_timeout, which is longer than any execution may take.  Identities*)
(* of VMs are interchangeable, and used again once nobody refers to them.   *)
(***************************************************************************)
EXTENDS Naturals, Sequences, FiniteSets

CONSTANTS
    Sessions,       \* session ids
    VMs,            \* identities of VMs
    Clients,        \* requests that may be in progress at once
    NoVM, Nobody,
    PoolSize,       \* config.pool_size
    MaxSessions,    \* config.max_sessions
    MaxRequests,    \* bound: requests
    MaxDeaths,      \* bound: VMs that die by themselves
    Env             \* what the environment does in this instance

ASSUME CodeAssumption ==
    /\ NoVM \notin VMs /\ Nobody \notin Clients
    /\ Sessions # {} /\ IsFiniteSet(VMs) /\ {"cleanup", "stop"} \cap Clients = {}
    /\ {PoolSize, MaxSessions} \subseteq Nat \ {0}
    /\ PoolSize <= Cardinality(VMs)
    /\ {MaxRequests, MaxDeaths} \subseteq Nat
    /\ Env \subseteq {"boot_fails", "stop"}

VARIABLES
    vm,        \* the state of each VM; "crashed": its process has exited
    served,    \* history: the sessions each VM has worked for
    pool,      \* VMPool._pool
    boots,     \* VMPool._replenish_tasks still to deliver a VM
    lost,      \* history: VMs nobody replaces
    sessions,  \* _sessions: the VM of each session
    idle,      \* the sessions whose last_used is too long ago
    lock,      \* SessionManager._lock, while held across an await
    pc,        \* of each client
    on,        \* the session a client works on
    at,        \* the VM a client uses
    doomed,    \* the VMs a client or the cleanup task is about to destroy
    asked,     \* requests so far
    phase,     \* of the service
    deaths

client == <<pc, on, at, asked>>
vars == <<vm, served, pool, boots, lost, sessions, idle, lock, client, doomed, phase, deaths>>

Destroyers == Clients \cup {"cleanup", "stop"}

Alive(s) == sessions[s] # NoVM /\ vm[sessions[s]] = "ready"
Open == {s \in Sessions : sessions[s] # NoVM}
InSequence(seq) == {seq[i] : i \in 1..Len(seq)}

TypeOK ==
    /\ vm \in [VMs -> {"none", "ready", "crashed", "stopping"}]
    /\ served \in [VMs -> SUBSET Sessions]
    /\ pool \in Seq(VMs)
    /\ boots \in Nat /\ lost \in Nat
    /\ sessions \in [Sessions -> VMs \cup {NoVM}]
    /\ Cardinality(Open) <= MaxSessions
    /\ idle \subseteq Open
    /\ lock \in Clients \cup {Nobody}
    /\ pc \in [Clients -> {"none", "asking", "deleting", "acquiring", "running", "destroying"}]
    /\ on \in [Clients -> Sessions]
    /\ at \in [Clients -> VMs \cup {NoVM}]
    /\ doomed \in [Destroyers -> Seq(VMs)]
    /\ asked \in 0..MaxRequests
    /\ phase \in {"up", "stopping", "down"}
    /\ deaths \in 0..MaxDeaths

\* VMPool.start has booted what it could.
Init ==
    \E n \in IF "boot_fails" \in Env THEN 0..PoolSize ELSE {PoolSize} :
      /\ pool = CHOOSE q \in [1..n -> VMs] : \A i, j \in 1..n : q[i] = q[j] => i = j
      /\ vm = [v \in VMs |-> IF v \in InSequence(pool) THEN "ready" ELSE "none"]
      /\ lost = PoolSize - n
      /\ served = [v \in VMs |-> {}]
      /\ boots = 0
      /\ sessions = [s \in Sessions |-> NoVM] /\ idle = {}
      /\ lock = Nobody
      /\ pc = [c \in Clients |-> "none"]
      /\ on = [c \in Clients |-> CHOOSE s \in Sessions : TRUE]
      /\ at = [c \in Clients |-> NoVM]
      /\ doomed = [d \in Destroyers |-> <<>>]
      /\ asked = 0
      /\ phase = "up"
      /\ deaths = 0

-----------------------------------------------------------------------------
(* Requests.                                                               *)

Ask(c) ==
    /\ pc[c] = "none" /\ asked < MaxRequests /\ phase = "up"
    /\ asked' = asked + 1
    /\ \E s \in Sessions, kind \in {"asking", "deleting"} :
         /\ on' = [on EXCEPT ![c] = s]
         /\ pc' = [pc EXCEPT ![c] = kind]
    /\ UNCHANGED <<vm, served, pool, boots, lost, sessions, idle, lock, at, doomed, phase,
                   deaths>>

\* execute_request sends the request to the VM.
Run(c, v) ==
    /\ pc' = [pc EXCEPT ![c] = "running"]
    /\ at' = [at EXCEPT ![c] = v]
    /\ served' = [served EXCEPT ![v] = @ \cup {on[c]}]
    /\ lock' = Nobody

\* get_or_create finds the session with its VM alive.
Reuse(c) ==
    /\ pc[c] = "asking" /\ lock = Nobody
    /\ Alive(on[c])
    /\ idle' = idle \ {on[c]}
    /\ Run(c, sessions[on[c]])
    /\ UNCHANGED <<vm, pool, boots, lost, sessions, on, asked, doomed, phase, deaths>>

\* get_or_create needs a VM.  A session whose VM is dead is forgotten, and so is
\* the VM: nothing takes its place in the pool.  At the limit the request fails;
\* otherwise the lock stays held until acquire returns.
Create(c) ==
    /\ pc[c] = "asking" /\ lock = Nobody /\ ~Alive(on[c])
    /\ LET v == sessions[on[c]] IN
         /\ sessions' = [sessions EXCEPT ![on[c]] = NoVM]
         /\ idle' = idle \ {on[c]}
         /\ IF v = NoVM THEN UNCHANGED <<vm, lost>>
            ELSE vm' = [vm EXCEPT ![v] = "none"] /\ lost' = lost + 1
         /\ IF Cardinality(Open \ {on[c]}) < MaxSessions
            THEN pc' = [pc EXCEPT ![c] = "acquiring"] /\ lock' = c
            ELSE pc' = [pc EXCEPT ![c] = "none"] /\ lock' = lock
    /\ UNCHANGED <<served, pool, boots, on, at, asked, doomed, phase, deaths>>

\* VMPool.acquire: the first VM of the queue; a dead one is destroyed, replaced,
\* and acquire starts again.
Acquire(c) ==
    /\ pc[c] = "acquiring" /\ pool # <<>>
    /\ pool' = Tail(pool)
    /\ LET v == Head(pool) IN
         IF vm[v] = "ready"
         THEN /\ sessions' = [sessions EXCEPT ![on[c]] = v]
              /\ Run(c, v)
              /\ UNCHANGED <<vm, boots>>
         ELSE /\ vm' = [vm EXCEPT ![v] = "none"]
              /\ boots' = boots + 1
              /\ UNCHANGED <<sessions, served, pc, at, lock>>
    /\ UNCHANGED <<lost, idle, on, asked, doomed, phase, deaths>>

\* RuntimeError("No VM available in pool").
AcquireTimeout_KeepLock(c) ==      \* regression: the lock is not given back
    /\ pc[c] = "acquiring" /\ pool = <<>>
    /\ pc' = [pc EXCEPT ![c] = "none"]
    /\ UNCHANGED <<vm, served, pool, boots, lost, sessions, idle, lock, on, at, asked,
                   doomed, phase, deaths>>

AcquireTimeout(c) ==
    /\ pc[c] = "acquiring" /\ pool = <<>>
    /\ pc' = [pc EXCEPT ![c] = "none"]
    /\ lock' = Nobody
    /\ UNCHANGED <<vm, served, pool, boots, lost, sessions, idle, on, at, asked, doomed,
                   phase, deaths>>

\* The execution has answered, has timed out, or has lost its VM: touch the
\* session, which may no longer be the one of this name.
Return(c) ==
    /\ pc[c] = "running"
    /\ pc' = [pc EXCEPT ![c] = "none"]
    /\ at' = [at EXCEPT ![c] = NoVM]
    /\ idle' = IF sessions[on[c]] = at[c] THEN idle \ {on[c]} ELSE idle
    /\ UNCHANGED <<vm, served, pool, boots, lost, sessions, lock, on, asked, doomed,
                   phase, deaths>>

\* destroy_session.
Delete(c) ==
    /\ pc[c] = "deleting" /\ lock = Nobody
    /\ sessions' = [sessions EXCEPT ![on[c]] = NoVM]
    /\ idle' = idle \ {on[c]}
    /\ IF sessions[on[c]] = NoVM
       THEN /\ pc' = [pc EXCEPT ![c] = "none"]
            /\ UNCHANGED doomed
       ELSE /\ pc' = [pc EXCEPT ![c] = "destroying"]
            /\ doomed' = [doomed EXCEPT ![c] = <<sessions[on[c]]>>]
    /\ UNCHANGED <<vm, served, pool, boots, lost, lock, on, at, asked, phase, deaths>>

-----------------------------------------------------------------------------
(* _destroy_vm, for a client, the cleanup task or stop.                    *)

\* After the shutdown request, answered or not.
StopVM(d) ==
    /\ doomed[d] # <<>> /\ vm[Head(doomed[d])] \in {"ready", "crashed"}
    /\ vm' = [vm EXCEPT ![Head(doomed[d])] = "stopping"]
    /\ UNCHANGED <<served, pool, boots, lost, sessions, idle, lock, client, doomed, phase,
                   deaths>>

\* The next VM of the list; a client with an empty list is done.
Pop(d) ==
    /\ doomed' = [doomed EXCEPT ![d] = Tail(@)]
    /\ pc' = IF d \in Clients THEN [pc EXCEPT ![d] = "none"] ELSE pc

DestroyVM_Recycle ==      \* regression: the VM goes back to the pool
    \E d \in Destroyers :
      /\ doomed[d] # <<>> /\ vm[Head(doomed[d])] = "stopping"
      /\ Pop(d)
      /\ vm' = [vm EXCEPT ![Head(doomed[d])] = "ready"]
      /\ pool' = Append(pool, Head(doomed[d]))
      /\ UNCHANGED <<served, boots, lost, sessions, idle, lock, on, at, asked, phase,
                     deaths>>

\* destroy_vm returns at once if the VM is DEAD; either way a new one is booted.
DestroyVM ==
    \E d \in Destroyers :
      /\ doomed[d] # <<>> /\ vm[Head(doomed[d])] \in {"stopping", "none"}
      /\ Pop(d)
      /\ vm' = [vm EXCEPT ![Head(doomed[d])] = "none"]
      /\ boots' = boots + 1
      /\ UNCHANGED <<served, pool, lost, sessions, idle, lock, on, at, asked, phase,
                     deaths>>

-----------------------------------------------------------------------------
(* The pool's replenish tasks, the cleanup task, time, and failures.       *)

Unused == {v \in VMs : /\ vm[v] = "none"
                       /\ \A c \in Clients : at[c] # v
                       /\ \A d \in Destroyers : v \notin InSequence(doomed[d])}

\* _create_and_enqueue.
Boot ==
    /\ boots > 0
    /\ boots' = boots - 1
    /\ Unused # {}
    /\ LET v == CHOOSE u \in Unused : TRUE IN
         /\ vm' = [vm EXCEPT ![v] = "ready"]
         /\ served' = [served EXCEPT ![v] = {}]
         /\ pool' = Append(pool, v)
    /\ UNCHANGED <<lost, sessions, idle, lock, client, doomed, phase, deaths>>

\* The task ends with the exception; nobody tries again.
BootFails ==
    /\ "boot_fails" \in Env /\ boots > 0
    /\ boots' = boots - 1
    /\ lost' = lost + 1
    /\ UNCHANGED <<vm, served, pool, sessions, idle, lock, client, doomed, phase, deaths>>

VMDies(v) ==
    /\ deaths < MaxDeaths /\ vm[v] = "ready"
    /\ vm' = [vm EXCEPT ![v] = "crashed"]
    /\ deaths' = deaths + 1
    /\ UNCHANGED <<served, pool, boots, lost, sessions, idle, lock, client, doomed, phase>>

GoesIdle(s) ==
    /\ s \in Open \ idle
    /\ \A c \in Clients : at[c] # sessions[s]
    /\ idle' = idle \cup {s}
    /\ UNCHANGED <<vm, served, pool, boots, lost, sessions, lock, client, doomed, phase,
                   deaths>>

Orders(S) == {q \in [1..Cardinality(S) -> S] : InSequence(q) = S}

\* _evict_expired.
EvictOf(expired) ==
    /\ phase = "up" /\ lock = Nobody /\ doomed["cleanup"] = <<>> /\ expired # {}
    /\ sessions' = [s \in Sessions |-> IF s \in expired THEN NoVM ELSE sessions[s]]
    /\ idle' = idle \ expired
    /\ \E q \in Orders({sessions[s] : s \in expired}) :
         doomed' = [doomed EXCEPT !["cleanup"] = q]
    /\ UNCHANGED <<vm, served, pool, boots, lost, lock, client, phase, deaths>>

Evict_All == EvictOf(Open)      \* regression: the threshold is not applied

Evict == EvictOf(idle)

\* stop, when no request is in progress: the cleanup task is cancelled, with
\* whatever it was destroying.
Stop ==
    /\ "stop" \in Env /\ phase = "up" /\ \A c \in Clients : pc[c] = "none"
    /\ phase' = "stopping"
    /\ sessions' = [s \in Sessions |-> NoVM] /\ idle' = {}
    /\ \E q \in Orders({sessions[s] : s \in Open}) :
         doomed' = [doomed EXCEPT !["cleanup"] = <<>>, !["stop"] = q]
    /\ UNCHANGED <<vm, served, pool, boots, lost, lock, client, deaths>>

\* VMPool.stop: the replenish tasks are cancelled, and a VM that was just being
\* booted is left behind; the queue is drained.
StopPool ==
    /\ phase = "stopping" /\ doomed["stop"] = <<>>
    /\ phase' = "down"
    /\ \E left \in SUBSET Unused :
         /\ Cardinality(left) <= boots
         /\ vm' = [v \in VMs |-> IF v \in left THEN "ready"
                                ELSE IF v \in InSequence(pool) THEN "none" ELSE vm[v]]
    /\ pool' = <<>> /\ boots' = 0
    /\ UNCHANGED <<served, lost, sessions, idle, lock, client, doomed, deaths>>

Handle(c) == Reuse(c) \/ Create(c) \/ Acquire(c) \/ AcquireTimeout(c) \/ Return(c) \/ Delete(c)

Next ==
    \/ \E c \in Clients : Ask(c) \/ Handle(c)
    \/ \E d \in Destroyers : StopVM(d)
    \/ DestroyVM \/ Boot \/ BootFails \/ Evict \/ Stop \/ StopPool
    \/ \E v \in VMs : VMDies(v)
    \/ \E s \in Sessions : GoesIdle(s)

Spec == Init /\ [][Next]_vars

\* The lock is first come first served, every wait has a timeout, and tasks that
\* can run do.
FairSpec ==
    /\ Spec
    /\ \A c \in Clients : WF_vars(Handle(c))
    /\ \A d \in Destroyers : WF_vars(StopVM(d))
    /\ WF_vars(DestroyVM) /\ WF_vars(Boot) /\ WF_vars(StopPool)

-----------------------------------------------------------------------------
\* No VM ever works for two sessions (module docstring: "Each session gets its
\* own isolated microVM"), whatever becomes of sessions, VMs and the pool.
SessionsAreIsolated == \A v \in VMs : Cardinality(served[v]) <= 1

\* The VMs that are being destroyed, by their places in the lists.
InDoom == Cardinality(UNION {{d} \X (1..Len(doomed[d])) : d \in Destroyers})

\* Every VM the service has is waiting in the pool, serves one session, is being
\* destroyed or booted, or was lost for good: no step forks or forgets another.
\* So there are never more than pool_size of them, sessions included.
CapacityIsConserved ==
    phase = "up" =>
        Len(pool) + Cardinality(Open) + boots + InDoom + lost = PoolSize

\* Each of these VMs is in one place only.
EveryVMHasOneOwner ==
    phase = "up" =>
        \A v \in VMs :
            vm[v] # "none" =>
                Cardinality({i \in 1..Len(pool) : pool[i] = v})
                  + Cardinality({s \in Sessions : sessions[s] = v})
                  + Cardinality({d \in Destroyers : v \in InSequence(doomed[d])}) = 1

\* The cleanup never destroys a VM that is executing a request.
NoEvictionUnderExecution ==
    \A c \in Clients : pc[c] = "running" => at[c] \notin InSequence(doomed["cleanup"])

\* A session keeps its VM, with all its state, until it is deleted or has been
\* idle too long, or the VM dies ("Same session_id -> same VM, state persists").
StateSurvives ==
    [][\A s \in Open : sessions'[s] # sessions[s] =>
          \/ vm[sessions[s]] = "crashed"
          \/ s \in idle
          \/ \E c \in Clients : pc[c] = "deleting" /\ on[c] = s
          \/ phase' # "up"]_vars

\* Every request returns, also when no VM is left.
RequestsReturn == \A c \in Clients : pc[c] # "none" ~> pc[c] = "none"

\* Every VM is in one place, works for one session, and is not taken from under it.
VMsAreAccounted ==
    /\ TypeOK /\ SessionsAreIsolated
    /\ CapacityIsConserved /\ EveryVMHasOneOwner /\ NoEvictionUnderExecution
=============================================================================
