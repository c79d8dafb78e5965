---------------------------- MODULE SessionMemory ----------------------------
(***************************************************************************)
(* One session of SessionManager with its two stores: the Redis list, which *)
(* expires, and the rows in PostgreSQL.  A client calls the manager, one    *)
(* operation after the other; the agent of the session writes through the   *)
(* RedisMemory bound to it, whose add_message leaves a task behind that     *)
(* stores the message and, every so often, checkpoints.                     *)
(*                                                                          *)
(* A step is one call of Redis (a MULTI/EXEC pipeline is atomic) or one     *)
(* committed transaction; between two steps of a coroutine any other may    *)
(* run.  The metadata hash is left out: only reports read it.  The lock of  *)
(* a session is held by whoever is inside checkpoint's "async with".        *)
(***************************************************************************)
EXTENDS Naturals, Sequences

CONSTANTS
    Client,        \* the user of the SessionManager
    Tasks,         \* _persist_one tasks that may exist at a time
    Cap,           \* RedisMemory max_messages; 0: no cap
    Threshold,     \* auto_checkpoint_threshold; 0: off
    Every,         \* auto_checkpoint_every; 0: off
    MaxMsgs,       \* bound: messages of the session
    MaxBatch,      \* bound: messages of one add_messages
    MaxDeletes,    \* bound: how often the session is deleted
    MaxCrashes,    \* bound: restarts of the process
    Env            \* what the environment does in this instance

ASSUME SessionAssumption ==
    /\ Client \notin Tasks
    /\ {Cap, Threshold, Every, MaxMsgs, MaxBatch, MaxDeletes, MaxCrashes} \subseteq Nat
    /\ Env \subseteq {"expire", "expire_torn", "expire_in_use", "late_task", "error"}

Procs == {Client} \cup Tasks
Msgs == 1..MaxMsgs

VARIABLES
    redis,     \* the list under the session's message key; <<>>: no key
    pg,        \* the rows of memory_messages, by sequence
    status,    \* the row of memory_sessions; "none": no row
    dirty,     \* _dirty_counts[session]
    writes,    \* RedisMemory._write_count
    epoch,     \* how often delete_session has dropped the session's lock
    pc,        \* where each coroutine is
    op,        \* the operation it runs
    held,      \* the messages it has in its hands
    mine,      \* the lock it has taken from _locks, by epoch
    use,       \* what the client takes the session for: "open" once created or
               \* resumed, "doomed" once it wants it deleted
    sent,      \* messages made so far
    saved,     \* history: the list of the last complete checkpoint
    crashes

store == <<redis, pg, status, saved>>
manager == <<dirty, writes, epoch>>
routine == <<pc, op, held, mine>>
user == <<use, sent, crashes>>
vars == <<store, manager, routine, user>>

Critical == {"fetch", "clear", "save"}
Points == Critical \cup {"idle", "store", "count", "lock", "status", "drop",
                         "exists", "load", "push", "activate", "unlist", "erase"}
Ops == {"none", "add", "persist", "checkpoint", "close", "resume", "delete"}

TypeOK ==
    /\ redis \in Seq(Msgs) /\ pg \in Seq(Msgs) /\ saved \in Seq(Msgs)
    /\ status \in {"none", "active", "closed"}
    /\ dirty \in Nat /\ writes \in Nat
    /\ epoch \in 0..MaxDeletes
    /\ pc \in [Procs -> Points]
    /\ op \in [Procs -> Ops]
    /\ held \in [Procs -> Seq(Msgs)]
    /\ mine \in [Procs -> 0..MaxDeletes]
    /\ use \in {"cold", "open", "doomed"}
    /\ sent \in 0..MaxMsgs
    /\ crashes \in 0..MaxCrashes

Init ==
    /\ redis = <<>> /\ pg = <<>> /\ saved = <<>>
    /\ status = "none"
    /\ dirty = 0 /\ writes = 0 /\ epoch = 0
    /\ pc = [p \in Procs |-> "idle"]
    /\ op = [p \in Procs |-> "none"]
    /\ held = [p \in Procs |-> <<>>]
    /\ mine = [p \in Procs |-> 0]
    /\ use = "cold"
    /\ sent = 0
    /\ crashes = 0

Go(p, at) == pc' = [pc EXCEPT ![p] = at] /\ UNCHANGED <<op, held, mine>>

\* The operation returns, or an exception ends it; "async with" releases the
\* lock in both cases.
Return(p) ==
    /\ pc' = [pc EXCEPT ![p] = "idle"]
    /\ op' = [op EXCEPT ![p] = "none"]
    /\ held' = [held EXCEPT ![p] = <<>>]
    /\ mine' = [mine EXCEPT ![p] = 0]

\* checkpoint is called: the lock of the session is looked up.
EnterCheckpoint(p) ==
    /\ pc' = [pc EXCEPT ![p] = "lock"]
    /\ mine' = [mine EXCEPT ![p] = epoch]
    /\ held' = [held EXCEPT ![p] = <<>>]

\* While the session changes hands no write of the agent is on its way.
Quiet == "late_task" \in Env \/ \A t \in Tasks : pc[t] = "idle"
InHands == "late_task" \in Env \/ op[Client] \notin {"close", "resume", "delete"}

-----------------------------------------------------------------------------
(* The client starts an operation.                                         *)

Create ==
    /\ pc[Client] = "idle" /\ status = "none" /\ Quiet
    /\ status' = "active"
    /\ dirty' = 0
    /\ use' = "open"
    /\ UNCHANGED <<redis, pg, saved, writes, epoch, routine, sent, crashes>>

Start(o, at) ==
    /\ pc[Client] = "idle"
    /\ pc' = [pc EXCEPT ![Client] = at]
    /\ op' = [op EXCEPT ![Client] = o]
    /\ UNCHANGED <<mine, store, manager, crashes>>

\* add_message and add_messages.
Add ==
    /\ use = "open"
    /\ \E n \in 1..MaxBatch :
          /\ sent + n <= MaxMsgs
          /\ sent' = sent + n
          /\ held' = [held EXCEPT ![Client] = [i \in 1..n |-> sent + i]]
    /\ Start("add", "store") /\ UNCHANGED use

Checkpoint ==
    /\ use = "open" /\ pc[Client] = "idle"
    /\ EnterCheckpoint(Client)
    /\ op' = [op EXCEPT ![Client] = "checkpoint"]
    /\ UNCHANGED <<store, manager, user>>

Close ==
    /\ use = "open" /\ Quiet /\ pc[Client] = "idle"
    /\ EnterCheckpoint(Client)
    /\ op' = [op EXCEPT ![Client] = "close"]
    /\ UNCHANGED <<store, manager, user>>

Resume == /\ use = "cold" /\ status # "none" /\ Quiet
          /\ Start("resume", "exists") /\ UNCHANGED <<held, use, sent>>

Delete == /\ status # "none" /\ Quiet /\ epoch < MaxDeletes
          /\ Start("delete", "unlist") /\ use' = "doomed" /\ UNCHANGED <<held, sent>>

\* The client goes away without closing.
Leave == /\ use = "open" /\ pc[Client] = "idle" /\ use' = "cold"
         /\ UNCHANGED <<store, manager, routine, sent, crashes>>

\* RedisMemory.add_message of the agent: the write is a task of its own.
AgentAdd(t) ==
    /\ use = "open" /\ InHands /\ pc[t] = "idle" /\ sent < MaxMsgs
    /\ sent' = sent + 1
    /\ pc' = [pc EXCEPT ![t] = "store"]
    /\ op' = [op EXCEPT ![t] = "persist"]
    /\ held' = [held EXCEPT ![t] = <<sent + 1>>]
    /\ UNCHANGED <<mine, store, manager, use, crashes>>

-----------------------------------------------------------------------------
(* RedisMemory.store and store_many; the counters.                         *)

\* LTRIM key -Cap -1.
Trim(s) == IF Cap = 0 \/ Len(s) <= Cap THEN s ELSE SubSeq(s, Len(s) - Cap + 1, Len(s))

Store(p) ==
    /\ pc[p] = "store"
    /\ redis' = Trim(redis \o held[p])
    /\ Go(p, "count")
    /\ UNCHANGED <<pg, status, saved, manager, user>>

Count ==
    /\ pc[Client] = "count"
    /\ dirty' = dirty + Len(held[Client])
    /\ IF Threshold > 0 /\ dirty' >= Threshold
       THEN EnterCheckpoint(Client) /\ UNCHANGED op
       ELSE Return(Client)
    /\ UNCHANGED <<store, writes, epoch, user>>

\* _persist_one after its store.
CountWrite(t) ==
    /\ pc[t] = "count"
    /\ writes' = writes + 1
    /\ IF Every > 0 /\ writes' % Every = 0
       THEN EnterCheckpoint(t) /\ UNCHANGED op
       ELSE Return(t)
    /\ UNCHANGED <<store, dirty, epoch, user>>

-----------------------------------------------------------------------------
(* checkpoint                                                              *)

Acquire_NoLock(p) ==      \* regression: checkpoint takes no lock
    /\ pc[p] = "lock"
    /\ Go(p, "fetch")
    /\ UNCHANGED <<store, manager, user>>

Acquire_AfterWaiters(p) ==      \* regression: a waiter waits for the others in line
    /\ pc[p] = "lock"
    /\ \A q \in Procs \ {p} : pc[q] \in Critical \cup {"lock"} => mine[q] # mine[p]
    /\ Go(p, "fetch")
    /\ UNCHANGED <<store, manager, user>>

Acquire(p) ==
    /\ pc[p] = "lock"
    /\ \A q \in Procs : pc[q] \in Critical => mine[q] # mine[p]
    /\ Go(p, "fetch")
    /\ UNCHANGED <<store, manager, user>>

\* checkpoint has returned to close_session, or to its caller.
Finish(p) == IF op[p] = "close" THEN Go(p, "status") ELSE Return(p)

Fetch(p) ==
    /\ pc[p] = "fetch"
    /\ IF redis = <<>>
       THEN dirty' = 0 /\ Finish(p)
       ELSE /\ held' = [held EXCEPT ![p] = redis]
            /\ pc' = [pc EXCEPT ![p] = "clear"]
            /\ UNCHANGED <<dirty, op, mine>>
    /\ UNCHANGED <<store, writes, epoch, user>>

Clear(p) ==
    /\ pc[p] = "clear"
    /\ pg' = <<>>
    /\ Go(p, "save")
    /\ UNCHANGED <<redis, status, saved, manager, user>>

\* save_messages raises if the session's row is gone.
Save(p) ==
    /\ pc[p] = "save"
    /\ IF status = "none"
       THEN Return(p) /\ UNCHANGED <<pg, saved, dirty>>
       ELSE /\ pg' = pg \o held[p]
            /\ saved' = held[p]
            /\ dirty' = 0
            /\ Finish(p)
    /\ UNCHANGED <<redis, status, writes, epoch, user>>

-----------------------------------------------------------------------------
(* close_session, resume_session and delete_session                        *)

CloseStatus(p) ==
    /\ pc[p] = "status"
    /\ IF status = "none"
       THEN Return(p) /\ UNCHANGED status
       ELSE status' = "closed" /\ Go(p, "drop")
    /\ UNCHANGED <<redis, pg, saved, manager, user>>

Drop(p) ==
    /\ pc[p] = "drop"
    /\ redis' = <<>>
    /\ dirty' = 0
    /\ use' = "cold"
    /\ Return(p)
    /\ UNCHANGED <<pg, status, saved, writes, epoch, sent, crashes>>

Exists_AlwaysLoad(p) ==      \* regression: a hot session is loaded again
    /\ pc[p] = "exists"
    /\ Go(p, "load")
    /\ UNCHANGED <<store, manager, user>>

\* A hot session is used as it is.
Exists(p) ==
    /\ pc[p] = "exists"
    /\ IF redis = <<>>
       THEN Go(p, "load") /\ UNCHANGED use
       ELSE Return(p) /\ use' = "open"
    /\ UNCHANGED <<store, manager, sent, crashes>>

Load(p) ==
    /\ pc[p] = "load"
    /\ IF status = "none"
       THEN Return(p)
       ELSE /\ held' = [held EXCEPT ![p] = pg]
            /\ pc' = [pc EXCEPT ![p] = "push"]
            /\ UNCHANGED <<op, mine>>
    /\ UNCHANGED <<store, manager, user>>

Push(p) ==
    /\ pc[p] = "push"
    /\ redis' = Trim(redis \o held[p])
    /\ Go(p, "activate")
    /\ UNCHANGED <<pg, status, saved, manager, user>>

Activate(p) ==
    /\ pc[p] = "activate"
    /\ IF status = "none" THEN UNCHANGED <<status, dirty, use>>
       ELSE status' = "active" /\ dirty' = 0 /\ use' = "open"
    /\ Return(p)
    /\ UNCHANGED <<redis, pg, saved, writes, epoch, sent, crashes>>

Unlist(p) ==
    /\ pc[p] = "unlist"
    /\ redis' = <<>>
    /\ Go(p, "erase")
    /\ UNCHANGED <<pg, status, saved, manager, user>>

\* The messages go with the session's row (ON DELETE CASCADE).
Erase(p) ==
    /\ pc[p] = "erase"
    /\ status' = "none" /\ pg' = <<>> /\ saved' = <<>>
    /\ dirty' = 0
    /\ epoch' = epoch + 1
    /\ use' = "cold"
    /\ Return(p)
    /\ UNCHANGED <<redis, writes, sent, crashes>>

-----------------------------------------------------------------------------
(* Faults                                                                  *)

\* A call of Redis or PostgreSQL raises.  _persist_one logs it.
Raise(p) ==
    /\ "error" \in Env
    /\ pc[p] \notin {"idle", "lock"}
    /\ Return(p)
    /\ UNCHANGED <<store, manager, user>>

\* The TTL of the list passes: nobody has written to it for that long.
Expire ==
    /\ "expire" \in Env
    /\ use = "open" => "expire_in_use" \in Env
    /\ pg # saved => "expire_torn" \in Env
    /\ redis # <<>>
    /\ \A p \in Procs : pc[p] = "idle"
    /\ redis' = <<>>
    /\ UNCHANGED <<pg, status, saved, manager, routine, user>>

\* The process restarts; both stores live on.
Crash ==
    /\ crashes < MaxCrashes
    /\ crashes' = crashes + 1
    /\ dirty' = 0 /\ writes' = 0
    /\ use' = IF use = "open" THEN "cold" ELSE use
    /\ pc' = [p \in Procs |-> "idle"]
    /\ op' = [p \in Procs |-> "none"]
    /\ held' = [p \in Procs |-> <<>>]
    /\ mine' = [p \in Procs |-> 0]
    /\ UNCHANGED <<store, epoch, sent>>

-----------------------------------------------------------------------------
Run(p) ==
    \/ Store(p) \/ Acquire(p) \/ Fetch(p) \/ Clear(p) \/ Save(p)
    \/ CloseStatus(p) \/ Drop(p) \/ Exists(p) \/ Load(p) \/ Push(p)
    \/ Activate(p) \/ Unlist(p) \/ Erase(p)

Next ==
    \/ Create \/ Add \/ Checkpoint \/ Close \/ Resume \/ Delete \/ Leave \/ Count
    \/ \E t \in Tasks : AgentAdd(t) \/ CountWrite(t)
    \/ \E p \in Procs : Run(p) \/ Raise(p)
    \/ Expire \/ Crash

Spec == Init /\ [][Next]_vars

\* The event loop runs every coroutine, and the stores answer; asyncio.Lock
\* serves its waiters in order, so that nobody waits for a lock for ever that
\* is released again and again.
FairSpec == /\ Spec
            /\ WF_vars(Count)
            /\ \A t \in Tasks : WF_vars(CountWrite(t))
            /\ \A p \in Procs : WF_vars(Run(p)) /\ SF_vars(Acquire(p))

-----------------------------------------------------------------------------
\* What get_messages returns.
View == IF status = "none" \/ use = "doomed" THEN <<>>
        ELSE IF redis # <<>> THEN redis ELSE pg

\* What the checkpoint in progress has read.
Reading == LET at == {p \in Procs : pc[p] \in {"clear", "save"}}
           IN  IF at = {} THEN <<>> ELSE held[CHOOSE p \in at : TRUE]

History == INSTANCE SessionHistory WITH
    Messages <- Msgs, Batches <- 1..MaxMsgs,
    Cap <- IF Cap = 0 THEN MaxMsgs ELSE Cap,
    view <- View, reading <- Reading,
    saved <- IF use = "doomed" THEN <<>> ELSE saved

\* get_messages never loses or repeats a message of the session, whatever
\* checkpoints, crashes and failing calls of the stores overlap, except that an
\* idle session whose TTL has passed goes back to its last complete checkpoint
\* (docstring of session_manager.py: "read from Redis; fall back to Postgres if
\* expired").
KeepsHistory == History!Spec

\* Checkpoints never mix: what PostgreSQL holds is exactly what one checkpoint
\* read, or nothing while one is between its two transactions or was torn there
\* (docstring of checkpoint: "avoids duplicates").
PostgresIsOneSnapshot == pg \in {<<>>, saved}

\* A deleted session leaves no message in either store.
DeletedIsGone == status = "none" => redis = <<>> /\ pg = <<>>

\* Every operation returns, those that wait for the lock of a checkpoint that
\* fails included.
OperationsEnd == \A p \in Procs : pc[p] # "idle" ~> pc[p] = "idle"

\* Neither store holds what no checkpoint wrote or what has been deleted.
StoresAreClean == TypeOK /\ PostgresIsOneSnapshot /\ DeletedIsGone
=============================================================================
