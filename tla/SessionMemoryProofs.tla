------------------------- MODULE SessionMemoryProofs -------------------------
(***************************************************************************)
(* What holds of SessionMemory for any number of writing tasks, any cap,    *)
(* checkpoint interval and bounds: that the two stores stay clean, and that  *)
(* together they implement SessionHistory.                                   *)
(***************************************************************************)
EXTENDS SessionMemory, SequenceTheorems, FiniteSetTheorems, TLAPS

Checkpointing == Critical \cup {"lock"}
Restoring == {"exists", "load", "push", "activate"}

\* The tasks of the agent only store and checkpoint.
TasksPlaced ==
    \A t \in Tasks : /\ op[t] \in {"none", "persist"}
                     /\ pc[t] \in {"idle", "store", "count"} \cup Checkpointing

\* Where the client is tells what it does.
ClientPlaced ==
    /\ use = "doomed" => pc[Client] \in {"idle", "unlist", "erase"}
    /\ pc[Client] \in {"unlist", "erase"} => use = "doomed" /\ epoch < MaxDeletes
    /\ pc[Client] \in {"status", "drop"} => op[Client] = "close"
    /\ pc[Client] \in Restoring => use = "cold" /\ op[Client] = "resume"

\* While the session changes hands the client is alone.
ClientIsAlone ==
    \/ use = "doomed" \/ op[Client] = "close" \/ pc[Client] \in Restoring
    => \A t \in Tasks : pc[t] = "idle"

\* Everybody takes the lock of today, and one at a time.
OneCheckpoint ==
    /\ \A p \in Procs : pc[p] \in Checkpointing => mine[p] = epoch
    /\ \A p, q \in Procs : pc[p] \in Critical /\ pc[q] \in Critical => p = q

\* Before a session is created and once it is erased there is nothing of it.
NothingBefore ==
    /\ pc[Client] = "erase" => redis = <<>>
    /\ status = "none" => /\ use = "cold" /\ redis = <<>> /\ pg = <<>> /\ saved = <<>>
                          /\ \A p \in Procs : pc[p] = "idle"

\* A checkpoint writes into an empty table.
SavesIntoNothing ==
    /\ pg \in {<<>>, saved}
    /\ \A p \in Procs : pc[p] = "save" => pg = <<>>

\* Holds when no write of the agent is late.
Orderly == /\ TypeOK /\ TasksPlaced /\ ClientPlaced /\ ClientIsAlone
           /\ OneCheckpoint /\ NothingBefore /\ SavesIntoNothing

\* No write of the agent is late.
Punctual == "late_task" \notin Env

USE SessionAssumption
USE DEF Procs, store, manager, routine, user, vars

\* Trimming keeps the type.
LEMMA TrimType ==
    ASSUME NEW S, NEW s \in Seq(S)
    PROVE  Trim(s) \in Seq(S)
<1>1. CASE Cap = 0 \/ Len(s) <= Cap
  BY <1>1 DEF Trim
<1>2. CASE ~(Cap = 0 \/ Len(s) <= Cap)
  <2>1. Len(s) \in Nat /\ Cap \in Nat
    BY LenProperties
  <2>2. \A i \in (Len(s) - Cap + 1)..Len(s) : s[i] \in S
    BY <1>2, <2>1, ElementOfSeq
  <2>3. SubSeq(s, Len(s) - Cap + 1, Len(s)) \in Seq(S)
    BY <1>2, <2>1, <2>2, SubSeqProperties
  <2> QED BY <1>2, <2>3 DEF Trim
<1> QED BY <1>1, <1>2


RoutineTyped == /\ pc \in [Procs -> Points]
                /\ op \in [Procs -> Ops]
                /\ held \in [Procs -> Seq(Msgs)]
                /\ mine \in [Procs -> 0..MaxDeletes]

\* An operation that returns leaves its coroutine as it was before it started.
LEMMA Returns ==
    ASSUME TypeOK, NEW p \in Procs, Return(p)
    PROVE  /\ RoutineTyped'
           /\ pc'[p] = "idle" /\ op'[p] = "none"
           /\ \A q \in Procs \ {p} : pc'[q] = pc[q] /\ op'[q] = op[q]
                                     /\ held'[q] = held[q] /\ mine'[q] = mine[q]
<1>1. pc' \in [Procs -> Points] /\ op' \in [Procs -> Ops]
  BY DEF Return, TypeOK, Points, Ops
<1>2. held' \in [Procs -> Seq(Msgs)]
  <2>1. <<>> \in Seq(Msgs)
    OBVIOUS
  <2> QED BY <2>1 DEF Return, TypeOK
<1>3. mine' \in [Procs -> 0..MaxDeletes]
  BY DEF Return, TypeOK
<1> QED BY <1>1, <1>2, <1>3 DEF Return, TypeOK, RoutineTyped

\* A coroutine goes to a point.
LEMMA Goes ==
    ASSUME TypeOK, NEW p \in Procs, NEW at \in Points, Go(p, at)
    PROVE  /\ RoutineTyped'
           /\ pc'[p] = at
           /\ \A q \in Procs \ {p} : pc'[q] = pc[q]
           /\ op' = op /\ held' = held /\ mine' = mine
BY DEF Go, TypeOK, RoutineTyped

\* A coroutine enters checkpoint and waits for the lock.
LEMMA Enters ==
    ASSUME TypeOK, NEW p \in Procs, EnterCheckpoint(p), UNCHANGED op
    PROVE  /\ RoutineTyped'
           /\ pc'[p] = "lock" /\ mine'[p] = epoch
           /\ \A q \in Procs \ {p} : pc'[q] = pc[q] /\ held'[q] = held[q] /\ mine'[q] = mine[q]
<1>1. pc' \in [Procs -> Points] /\ op' \in [Procs -> Ops]
  BY DEF EnterCheckpoint, TypeOK, Points
<1>2. held' \in [Procs -> Seq(Msgs)]
  <2>1. <<>> \in Seq(Msgs)
    OBVIOUS
  <2> QED BY <2>1 DEF EnterCheckpoint, TypeOK
<1>3. mine' \in [Procs -> 0..MaxDeletes]
  BY DEF EnterCheckpoint, TypeOK
<1> QED BY <1>1, <1>2, <1>3 DEF EnterCheckpoint, TypeOK, RoutineTyped

\* checkpoint has returned: to close_session or to its caller.
LEMMA Finishes ==
    ASSUME TypeOK, NEW p \in Procs, Finish(p)
    PROVE  /\ RoutineTyped'
           /\ \/ op[p] = "close" /\ pc'[p] = "status" /\ held' = held /\ mine' = mine /\ op' = op
              \/ op[p] # "close" /\ pc'[p] = "idle" /\ op'[p] = "none"
           /\ \A q \in Procs \ {p} : pc'[q] = pc[q] /\ op'[q] = op[q]
                                     /\ held'[q] = held[q] /\ mine'[q] = mine[q]
<1>1. CASE op[p] = "close"
  <2>1. Go(p, "status") /\ "status" \in Points
    BY <1>1 DEF Finish, Points
  <2> QED BY <1>1, <2>1, Goes
<1>2. CASE op[p] # "close"
  BY <1>2, Returns DEF Finish
<1> QED BY <1>1, <1>2

\* Every step keeps the types.
LEMMA TypeStep == TypeOK /\ TasksPlaced /\ ClientPlaced /\ [Next]_vars => TypeOK'
<1> SUFFICES ASSUME TypeOK, TasksPlaced, ClientPlaced, [Next]_vars PROVE TypeOK'
  OBVIOUS
<1> DEFINE Goal == TypeOK'
<1>1. CASE Create
  BY <1>1 DEF Create, TypeOK
<1>2. CASE Add
  <2>1. PICK n \in 1..MaxBatch :
            /\ sent + n <= MaxMsgs /\ sent' = sent + n
            /\ held' = [held EXCEPT ![Client] = [i \in 1..n |-> sent + i]]
    BY <1>2 DEF Add
  <2>2. n \in Nat /\ sent \in Nat /\ sent' \in 0..MaxMsgs
    BY <2>1 DEF TypeOK
  <2>3. [i \in 1..n |-> sent + i] \in [1..n -> Msgs]
    BY <2>1, <2>2 DEF Msgs
  <2>4. [i \in 1..n |-> sent + i] \in Seq(Msgs)
    BY <2>2, <2>3, IsASeq
  <2>5. held' \in [Procs -> Seq(Msgs)]
    BY <2>1, <2>4 DEF TypeOK
  <2> QED BY <1>2, <2>2, <2>5 DEF Add, Start, TypeOK, Points, Ops
<1>3. CASE Checkpoint
  BY <1>3 DEF Checkpoint, EnterCheckpoint, TypeOK, Points, Ops
<1>4. CASE Close
  BY <1>4 DEF Close, EnterCheckpoint, TypeOK, Points, Ops
<1>5. CASE Resume
  BY <1>5 DEF Resume, Start, TypeOK, Points, Ops
<1>6. CASE Delete
  BY <1>6 DEF Delete, Start, TypeOK, Points, Ops
<1>7. CASE Leave
  BY <1>7 DEF Leave, TypeOK
<1>8. CASE Count
  <2>1. RoutineTyped'
    <3>1. CASE EnterCheckpoint(Client) /\ UNCHANGED op
      BY <3>1, Enters
    <3>2. CASE Return(Client)
      BY <3>2, Returns
    <3> QED BY <1>8, <3>1, <3>2 DEF Count
  <2>2. dirty' \in Nat
    <3>1. dirty' = dirty + Len(held[Client]) /\ held[Client] \in Seq(Msgs) /\ dirty \in Nat
      BY <1>8 DEF Count, TypeOK
    <3> QED BY <3>1, LenProperties
  <2>3. UNCHANGED <<store, writes, epoch, user>>
    BY <1>8 DEF Count
  <2> QED BY <2>1, <2>2, <2>3 DEF TypeOK, RoutineTyped
<1>9. ASSUME NEW t \in Tasks, AgentAdd(t) PROVE  Goal
  <2>1. <<sent + 1>> \in Seq(Msgs) /\ sent' \in 0..MaxMsgs
    BY <1>9 DEF AgentAdd, TypeOK, Msgs
  <2>2. held' \in [Procs -> Seq(Msgs)]
    BY <1>9, <2>1 DEF AgentAdd, TypeOK
  <2>3. pc' \in [Procs -> Points] /\ op' \in [Procs -> Ops]
    BY <1>9 DEF AgentAdd, TypeOK, Points, Ops
  <2> QED BY <1>9, <2>1, <2>2, <2>3 DEF AgentAdd, TypeOK
<1>10. ASSUME NEW t \in Tasks, CountWrite(t) PROVE  Goal
  <2>1. RoutineTyped'
    <3>1. CASE EnterCheckpoint(t) /\ UNCHANGED op
      BY <3>1, Enters
    <3>2. CASE Return(t)
      BY <3>2, Returns
    <3> QED BY <1>10, <3>1, <3>2 DEF CountWrite
  <2>2. writes' \in Nat
    BY <1>10 DEF CountWrite, TypeOK
  <2>3. UNCHANGED <<store, dirty, epoch, user>>
    BY <1>10 DEF CountWrite
  <2> QED BY <2>1, <2>2, <2>3 DEF TypeOK, RoutineTyped
<1>11. ASSUME NEW p \in Procs, Store(p) PROVE  Goal
  <2>1. redis' \in Seq(Msgs)
    BY <1>11, TrimType, ConcatProperties DEF Store, TypeOK
  <2> QED BY <1>11, <2>1 DEF Store, Go, TypeOK, Points
<1>12. ASSUME NEW p \in Procs, Acquire(p) PROVE  Goal
  BY <1>12 DEF Acquire, Go, TypeOK, Points, Critical
<1>13. ASSUME NEW p \in Procs, Fetch(p) PROVE  Goal
  <2>1. RoutineTyped'
    <3>1. CASE Finish(p)
      BY <3>1, Finishes
    <3>2. CASE redis # <<>>
      BY <1>13, <3>2 DEF Fetch, TypeOK, RoutineTyped, Points, Critical
    <3> QED BY <1>13, <3>1, <3>2 DEF Fetch
  <2>2. dirty' \in Nat /\ UNCHANGED <<store, writes, epoch, user>>
    BY <1>13 DEF Fetch, TypeOK
  <2> QED BY <2>1, <2>2 DEF TypeOK, RoutineTyped
<1>14. ASSUME NEW p \in Procs, Clear(p) PROVE  Goal
  BY <1>14 DEF Clear, Go, TypeOK, Points, Critical
<1>15. ASSUME NEW p \in Procs, Save(p) PROVE  Goal
  <2>1. RoutineTyped'
    <3>1. CASE Finish(p)
      BY <3>1, Finishes
    <3>2. CASE Return(p)
      BY <3>2, Returns
    <3> QED BY <1>15, <3>1, <3>2 DEF Save
  <2>2. held[p] \in Seq(Msgs) /\ pg \in Seq(Msgs) /\ saved \in Seq(Msgs) /\ dirty \in Nat
    BY DEF TypeOK
  <2>3. pg \o held[p] \in Seq(Msgs)
    BY <2>2, ConcatProperties
  <2>4. pg' \in Seq(Msgs) /\ saved' \in Seq(Msgs) /\ dirty' \in Nat
    <3>1. CASE UNCHANGED <<pg, saved, dirty>>
      BY <2>2, <3>1
    <3>2. CASE pg' = pg \o held[p] /\ saved' = held[p] /\ dirty' = 0
      BY <2>2, <2>3, <3>2
    <3> QED BY <1>15, <3>1, <3>2 DEF Save
  <2>5. UNCHANGED <<redis, status, writes, epoch, user>>
    BY <1>15 DEF Save
  <2> QED BY <2>1, <2>4, <2>5 DEF TypeOK, RoutineTyped
<1>16. ASSUME NEW p \in Procs, CloseStatus(p) PROVE  Goal
  <2>1. RoutineTyped'
    <3>1. CASE Go(p, "drop")
      <4>1. "drop" \in Points
        BY DEF Points
      <4> QED BY <3>1, <4>1, Goes
    <3>2. CASE Return(p)
      BY <3>2, Returns
    <3> QED BY <1>16, <3>1, <3>2 DEF CloseStatus
  <2> QED BY <1>16, <2>1 DEF CloseStatus, TypeOK, RoutineTyped
<1>17. ASSUME NEW p \in Procs, Drop(p) PROVE  Goal
  BY <1>17 DEF Drop, Return, TypeOK, Points, Ops
<1>18. ASSUME NEW p \in Procs, Exists(p) PROVE  Goal
  <2>1. RoutineTyped'
    <3>1. CASE Go(p, "load")
      <4>1. "load" \in Points
        BY DEF Points
      <4> QED BY <3>1, <4>1, Goes
    <3>2. CASE Return(p)
      BY <3>2, Returns
    <3> QED BY <1>18, <3>1, <3>2 DEF Exists
  <2> QED BY <1>18, <2>1 DEF Exists, TypeOK, RoutineTyped
<1>19. ASSUME NEW p \in Procs, Load(p) PROVE  Goal
  <2>1. RoutineTyped'
    <3>1. CASE Return(p)
      BY <3>1, Returns
    <3>2. CASE status # "none"
      BY <1>19, <3>2 DEF Load, TypeOK, RoutineTyped, Points
    <3> QED BY <1>19, <3>1, <3>2 DEF Load
  <2> QED BY <1>19, <2>1 DEF Load, TypeOK, RoutineTyped
<1>20. ASSUME NEW p \in Procs, Push(p) PROVE  Goal
  <2>1. redis' \in Seq(Msgs)
    BY <1>20, TrimType, ConcatProperties DEF Push, TypeOK
  <2> QED BY <1>20, <2>1 DEF Push, Go, TypeOK, Points
<1>21. ASSUME NEW p \in Procs, Activate(p) PROVE  Goal
  <2>1. RoutineTyped'
    BY <1>21, Returns DEF Activate
  <2>2. /\ status' \in {"none", "active", "closed"} /\ dirty' \in Nat
        /\ use' \in {"cold", "open", "doomed"}
        /\ UNCHANGED <<redis, pg, saved, writes, epoch, sent, crashes>>
    BY <1>21 DEF Activate, TypeOK
  <2> QED BY <2>1, <2>2 DEF TypeOK, RoutineTyped
<1>22. ASSUME NEW p \in Procs, Unlist(p) PROVE  Goal
  BY <1>22 DEF Unlist, Go, TypeOK, Points
<1>23. ASSUME NEW p \in Procs, Erase(p) PROVE  Goal
  <2>1. epoch < MaxDeletes
    BY <1>23 DEF Erase, TasksPlaced, ClientPlaced, Checkpointing, Critical
  <2>2. epoch' \in 0..MaxDeletes
    BY <1>23, <2>1 DEF Erase, TypeOK
  <2>3. RoutineTyped'
    BY <1>23, Returns DEF Erase
  <2>4. /\ <<>> \in Seq(Msgs) /\ status' = "none" /\ pg' = <<>> /\ saved' = <<>> /\ dirty' = 0
        /\ use' = "cold" /\ UNCHANGED <<redis, writes, sent, crashes>>
    BY <1>23 DEF Erase
  <2> QED BY <2>2, <2>3, <2>4 DEF TypeOK, RoutineTyped
<1>24. ASSUME NEW p \in Procs, Raise(p) PROVE  Goal
  BY <1>24 DEF Raise, Return, TypeOK, Points, Ops
<1>25. CASE Expire
  BY <1>25 DEF Expire, TypeOK
<1>26. CASE Crash
  BY <1>26 DEF Crash, TypeOK, Points, Ops
<1>27. CASE UNCHANGED vars
  BY <1>27 DEF TypeOK
<1> QED BY <1>1, <1>2, <1>3, <1>4, <1>5, <1>6, <1>7, <1>8, <1>9, <1>10, <1>11, <1>12, <1>13,
           <1>14, <1>15, <1>16, <1>17, <1>18, <1>19, <1>20, <1>21, <1>22, <1>23, <1>24, <1>25,
           <1>26, <1>27 DEF Next, Run

\* A write task stays in its own lines.
LEMMA PlacedStep == TypeOK /\ TasksPlaced /\ [Next]_vars => TasksPlaced'
<1> SUFFICES ASSUME TypeOK, TasksPlaced, [Next]_vars PROVE TasksPlaced'
  OBVIOUS
<1> DEFINE Goal == TasksPlaced'
<1>1. CASE Create
  BY <1>1 DEF Create, TasksPlaced
<1>2. CASE Add
  BY <1>2 DEF Add, Start, TasksPlaced
<1>3. CASE Checkpoint
  BY <1>3 DEF Checkpoint, EnterCheckpoint, TasksPlaced
<1>4. CASE Close
  BY <1>4 DEF Close, EnterCheckpoint, TasksPlaced
<1>5. CASE Resume
  BY <1>5 DEF Resume, Start, TasksPlaced
<1>6. CASE Delete
  BY <1>6 DEF Delete, Start, TasksPlaced
<1>7. CASE Leave
  BY <1>7 DEF Leave, TasksPlaced
<1>8. CASE Count
  BY <1>8 DEF Count, EnterCheckpoint, Return, TypeOK, TasksPlaced
<1>9. ASSUME NEW t \in Tasks, AgentAdd(t) PROVE  Goal
  BY <1>9 DEF AgentAdd, TasksPlaced
<1>10. ASSUME NEW t \in Tasks, CountWrite(t) PROVE  Goal
  BY <1>10 DEF CountWrite, EnterCheckpoint, Return, TypeOK, TasksPlaced, Checkpointing
<1>11. ASSUME NEW p \in Procs, Store(p) PROVE  Goal
  BY <1>11 DEF Store, Go, TasksPlaced
<1>12. ASSUME NEW p \in Procs, Acquire(p) PROVE  Goal
  BY <1>12 DEF Acquire, Go, TasksPlaced, Checkpointing, Critical
<1>13. ASSUME NEW p \in Procs, Fetch(p) PROVE  Goal
  BY <1>13 DEF Fetch, Finish, Go, Return, TypeOK, TasksPlaced, Checkpointing, Critical
<1>14. ASSUME NEW p \in Procs, Clear(p) PROVE  Goal
  BY <1>14 DEF Clear, Go, TasksPlaced, Checkpointing, Critical
<1>15. ASSUME NEW p \in Procs, Save(p) PROVE  Goal
  BY <1>15 DEF Save, Finish, Go, Return, TypeOK, TasksPlaced
<1>16. ASSUME NEW p \in Procs, CloseStatus(p) PROVE  Goal
  BY <1>16 DEF CloseStatus, Go, Return, TypeOK, TasksPlaced, Checkpointing, Critical
<1>17. ASSUME NEW p \in Procs, Drop(p) PROVE  Goal
  BY <1>17 DEF Drop, Return, TasksPlaced
<1>18. ASSUME NEW p \in Procs, Exists(p) PROVE  Goal
  BY <1>18 DEF Exists, Go, Return, TypeOK, TasksPlaced, Checkpointing, Critical
<1>19. ASSUME NEW p \in Procs, Load(p) PROVE  Goal
  BY <1>19 DEF Load, Return, TypeOK, TasksPlaced, Checkpointing, Critical
<1>20. ASSUME NEW p \in Procs, Push(p) PROVE  Goal
  BY <1>20 DEF Push, Go, TasksPlaced, Checkpointing, Critical
<1>21. ASSUME NEW p \in Procs, Activate(p) PROVE  Goal
  BY <1>21 DEF Activate, Return, TasksPlaced
<1>22. ASSUME NEW p \in Procs, Unlist(p) PROVE  Goal
  BY <1>22 DEF Unlist, Go, TasksPlaced, Checkpointing, Critical
<1>23. ASSUME NEW p \in Procs, Erase(p) PROVE  Goal
  BY <1>23 DEF Erase, Return, TasksPlaced
<1>24. ASSUME NEW p \in Procs, Raise(p) PROVE  Goal
  BY <1>24 DEF Raise, Return, TasksPlaced
<1>25. CASE Expire
  BY <1>25 DEF Expire, TasksPlaced
<1>26. CASE Crash
  BY <1>26 DEF Crash, TasksPlaced
<1>27. CASE UNCHANGED vars
  BY <1>27 DEF TasksPlaced
<1> QED BY <1>1, <1>2, <1>3, <1>4, <1>5, <1>6, <1>7, <1>8, <1>9, <1>10, <1>11, <1>12, <1>13,
           <1>14, <1>15, <1>16, <1>17, <1>18, <1>19, <1>20, <1>21, <1>22, <1>23, <1>24, <1>25,
           <1>26, <1>27 DEF Next, Run

\* The client stays in the lines of its operation.
LEMMA ClientStep ==
    TypeOK /\ TasksPlaced /\ ClientPlaced /\ NothingBefore /\ [Next]_vars => ClientPlaced'
<1> SUFFICES ASSUME TypeOK, TasksPlaced, ClientPlaced, NothingBefore, [Next]_vars
             PROVE  ClientPlaced'
  OBVIOUS
<1> DEFINE Goal == ClientPlaced'
<1>1. CASE Create
  BY <1>1 DEF Create, ClientPlaced, Restoring
<1>2. CASE Add
  BY <1>2 DEF Add, Start, ClientPlaced, Restoring
<1>3. CASE Checkpoint
  BY <1>3 DEF Checkpoint, EnterCheckpoint, ClientPlaced, Restoring
<1>4. CASE Close
  BY <1>4 DEF Close, EnterCheckpoint, ClientPlaced, Restoring
<1>5. CASE Resume
  BY <1>5 DEF Resume, Start, TypeOK, ClientPlaced
<1>6. CASE Delete
  BY <1>6 DEF Delete, Start, ClientPlaced, Restoring
<1>7. CASE Leave
  BY <1>7 DEF Leave, ClientPlaced
<1>8. CASE Count
  BY <1>8 DEF Count, EnterCheckpoint, Return, TypeOK, ClientPlaced, Restoring
<1>9. ASSUME NEW t \in Tasks, AgentAdd(t) PROVE  Goal
  BY <1>9 DEF AgentAdd, ClientPlaced
<1>10. ASSUME NEW t \in Tasks, CountWrite(t) PROVE  Goal
  BY <1>10 DEF CountWrite, EnterCheckpoint, Return, TypeOK, ClientPlaced
<1>11. ASSUME NEW p \in Procs, Store(p) PROVE  Goal
  BY <1>11 DEF Store, Go, ClientPlaced, Restoring
<1>12. ASSUME NEW p \in Procs, Acquire(p) PROVE  Goal
  BY <1>12 DEF Acquire, Go, ClientPlaced, Restoring
<1>13. ASSUME NEW p \in Procs, Fetch(p) PROVE  Goal
  BY <1>13 DEF Fetch, Finish, Go, Return, TypeOK, ClientPlaced, Restoring
<1>14. ASSUME NEW p \in Procs, Clear(p) PROVE  Goal
  BY <1>14 DEF Clear, Go, ClientPlaced, Restoring
<1>15. ASSUME NEW p \in Procs, Save(p) PROVE  Goal
  BY <1>15 DEF Save, Finish, Go, Return, TypeOK, ClientPlaced, Restoring
<1>16. ASSUME NEW p \in Procs, CloseStatus(p) PROVE  Goal
  BY <1>16 DEF CloseStatus, Go, Return, TypeOK, ClientPlaced, Restoring
<1>17. ASSUME NEW p \in Procs, Drop(p) PROVE  Goal
  BY <1>17 DEF Drop, Return, TypeOK, TasksPlaced, ClientPlaced, Restoring, Checkpointing,
     Critical
<1>18. ASSUME NEW p \in Procs, Exists(p) PROVE  Goal
  BY <1>18 DEF Exists, Go, Return, TypeOK, TasksPlaced, ClientPlaced, Restoring, Checkpointing,
     Critical
<1>19. ASSUME NEW p \in Procs, Load(p) PROVE  Goal
  BY <1>19 DEF Load, Return, TypeOK, ClientPlaced, Restoring
<1>20. ASSUME NEW p \in Procs, Push(p) PROVE  Goal
  BY <1>20 DEF Push, Go, ClientPlaced, Restoring
<1>21. ASSUME NEW p \in Procs, Activate(p) PROVE  Goal
  BY <1>21 DEF Activate, Return, TypeOK, TasksPlaced, ClientPlaced, Restoring, Checkpointing,
     Critical
<1>22. ASSUME NEW p \in Procs, Unlist(p) PROVE  Goal
  BY <1>22 DEF Unlist, Go, ClientPlaced, Restoring
<1>23. ASSUME NEW p \in Procs, Erase(p) PROVE  Goal
  BY <1>23 DEF Erase, Return, TypeOK, TasksPlaced, ClientPlaced, Restoring, Checkpointing,
     Critical
<1>24. ASSUME NEW p \in Procs, Raise(p) PROVE  Goal
  BY <1>24 DEF Raise, Return, TypeOK, ClientPlaced, Restoring
<1>25. CASE Expire
  BY <1>25 DEF Expire, ClientPlaced
<1>26. CASE Crash
  BY <1>26 DEF Crash, ClientPlaced, Restoring
<1>27. CASE UNCHANGED vars
  BY <1>27 DEF ClientPlaced
<1> QED BY <1>1, <1>2, <1>3, <1>4, <1>5, <1>6, <1>7, <1>8, <1>9, <1>10, <1>11, <1>12, <1>13,
           <1>14, <1>15, <1>16, <1>17, <1>18, <1>19, <1>20, <1>21, <1>22, <1>23, <1>24, <1>25,
           <1>26, <1>27 DEF Next, Run


\* While the client closes, resumes or deletes, no write task is on its way.
LEMMA AloneStep ==
    Punctual /\ TypeOK /\ TasksPlaced /\ ClientPlaced /\ ClientIsAlone /\ [Next]_vars
    => ClientIsAlone'
<1> SUFFICES ASSUME Punctual, TypeOK, TasksPlaced, ClientPlaced, ClientIsAlone, [Next]_vars
             PROVE  ClientIsAlone'
  OBVIOUS
<1> DEFINE Goal == ClientIsAlone'
<1>1. CASE Create
  BY <1>1 DEF Create, ClientIsAlone
<1>2. CASE Add
  BY <1>2 DEF Add, Start, ClientIsAlone, Restoring
<1>3. CASE Checkpoint
  BY <1>3 DEF Checkpoint, EnterCheckpoint, ClientIsAlone, Restoring
<1>4. CASE Close
  BY <1>4 DEF Close, Quiet, EnterCheckpoint, Punctual, ClientIsAlone
<1>5. CASE Resume
  BY <1>5 DEF Resume, Start, Quiet, Punctual, ClientIsAlone
<1>6. CASE Delete
  BY <1>6 DEF Delete, Start, Quiet, Punctual, ClientIsAlone
<1>7. CASE Leave
  BY <1>7 DEF Leave, ClientIsAlone
<1>8. CASE Count
  BY <1>8 DEF Count, EnterCheckpoint, Return, TypeOK, ClientIsAlone, Restoring
<1>9. ASSUME NEW t \in Tasks, AgentAdd(t) PROVE  Goal
  BY <1>9 DEF AgentAdd, InHands, Punctual, ClientPlaced, ClientIsAlone
<1>10. ASSUME NEW t \in Tasks, CountWrite(t) PROVE  Goal
  BY <1>10 DEF CountWrite, EnterCheckpoint, Return, TypeOK, ClientIsAlone
<1>11. ASSUME NEW p \in Procs, Store(p) PROVE  Goal
  BY <1>11 DEF Store, Go, ClientIsAlone, Restoring
<1>12. ASSUME NEW p \in Procs, Acquire(p) PROVE  Goal
  BY <1>12 DEF Acquire, Go, ClientIsAlone, Restoring
<1>13. ASSUME NEW p \in Procs, Fetch(p) PROVE  Goal
  BY <1>13 DEF Fetch, Finish, Go, Return, TypeOK, ClientIsAlone, Restoring
<1>14. ASSUME NEW p \in Procs, Clear(p) PROVE  Goal
  BY <1>14 DEF Clear, Go, ClientIsAlone, Restoring
<1>15. ASSUME NEW p \in Procs, Save(p) PROVE  Goal
  BY <1>15 DEF Save, Finish, Go, Return, TypeOK, ClientIsAlone, Restoring
<1>16. ASSUME NEW p \in Procs, CloseStatus(p) PROVE  Goal
  BY <1>16 DEF CloseStatus, Go, Return, TypeOK, ClientPlaced, ClientIsAlone
<1>17. ASSUME NEW p \in Procs, Drop(p) PROVE  Goal
  BY <1>17 DEF Drop, Return, ClientPlaced, ClientIsAlone
<1>18. ASSUME NEW p \in Procs, Exists(p) PROVE  Goal
  BY <1>18 DEF Exists, Go, Return, TypeOK, ClientIsAlone, Restoring
<1>19. ASSUME NEW p \in Procs, Load(p) PROVE  Goal
  BY <1>19 DEF Load, Return, TypeOK, ClientIsAlone, Restoring
<1>20. ASSUME NEW p \in Procs, Push(p) PROVE  Goal
  BY <1>20 DEF Push, Go, ClientIsAlone, Restoring
<1>21. ASSUME NEW p \in Procs, Activate(p) PROVE  Goal
  BY <1>21 DEF Activate, Return, ClientIsAlone, Restoring
<1>22. ASSUME NEW p \in Procs, Unlist(p) PROVE  Goal
  BY <1>22 DEF Unlist, Go, ClientPlaced, ClientIsAlone
<1>23. ASSUME NEW p \in Procs, Erase(p) PROVE  Goal
  BY <1>23 DEF Erase, Return, ClientPlaced, ClientIsAlone
<1>24. ASSUME NEW p \in Procs, Raise(p) PROVE  Goal
  BY <1>24 DEF Raise, Return, ClientIsAlone, Restoring
<1>25. CASE Expire
  BY <1>25 DEF Expire, ClientIsAlone
<1>26. CASE Crash
  BY <1>26 DEF Crash, ClientIsAlone
<1>27. CASE UNCHANGED vars
  BY <1>27 DEF ClientIsAlone
<1> QED BY <1>1, <1>2, <1>3, <1>4, <1>5, <1>6, <1>7, <1>8, <1>9, <1>10, <1>11, <1>12, <1>13,
           <1>14, <1>15, <1>16, <1>17, <1>18, <1>19, <1>20, <1>21, <1>22, <1>23, <1>24, <1>25,
           <1>26, <1>27 DEF Next, Run

\* One checkpoint at a time is past the lock.
LEMMA LockStep ==
    TypeOK /\ TasksPlaced /\ ClientPlaced /\ ClientIsAlone /\ OneCheckpoint /\ [Next]_vars
    => OneCheckpoint'
<1> SUFFICES ASSUME TypeOK, TasksPlaced, ClientPlaced, ClientIsAlone, OneCheckpoint, [Next]_vars
             PROVE  OneCheckpoint'
  OBVIOUS
<1> DEFINE Goal == OneCheckpoint'
<1>1. CASE Create
  BY <1>1 DEF Create, OneCheckpoint
<1>2. CASE Add
  BY <1>2 DEF Add, Start, OneCheckpoint, Checkpointing, Critical
<1>3. CASE Checkpoint
  BY <1>3 DEF Checkpoint, EnterCheckpoint, TypeOK, OneCheckpoint, Critical
<1>4. CASE Close
  BY <1>4 DEF Close, EnterCheckpoint, TypeOK, OneCheckpoint, Critical
<1>5. CASE Resume
  BY <1>5 DEF Resume, Start, OneCheckpoint, Checkpointing, Critical
<1>6. CASE Delete
  BY <1>6 DEF Delete, Start, OneCheckpoint, Checkpointing, Critical
<1>7. CASE Leave
  BY <1>7 DEF Leave, OneCheckpoint
<1>8. CASE Count
  <2>1. CASE EnterCheckpoint(Client) /\ UNCHANGED op
    <3>2. /\ pc'[Client] = "lock" /\ mine'[Client] = epoch
          /\ \A q \in Procs \ {Client} : pc'[q] = pc[q] /\ mine'[q] = mine[q]
      BY <2>1, Enters
    <3> QED BY <1>8, <3>2 DEF Count, OneCheckpoint, Critical
  <2>2. CASE Return(Client)
    <3>2. pc'[Client] = "idle" /\ \A q \in Procs \ {Client} : pc'[q] = pc[q] /\ mine'[q] = mine[q]
      BY <2>2, Returns
    <3> QED BY <1>8, <3>2 DEF Count, OneCheckpoint, Checkpointing, Critical
  <2> QED BY <1>8, <2>1, <2>2 DEF Count
<1>9. ASSUME NEW t \in Tasks, AgentAdd(t) PROVE  Goal
  BY <1>9 DEF AgentAdd, OneCheckpoint, Checkpointing, Critical
<1>10. ASSUME NEW t \in Tasks, CountWrite(t) PROVE  Goal
  <2>1. CASE EnterCheckpoint(t) /\ UNCHANGED op
    <3>2. pc'[t] = "lock" /\ mine'[t] = epoch /\ \A q \in Procs \ {t} : pc'[q] = pc[q] /\ mine'[q] = mine[q]
      BY <2>1, Enters
    <3> QED BY <1>10, <3>2 DEF CountWrite, OneCheckpoint, Critical
  <2>2. CASE Return(t)
    <3>2. pc'[t] = "idle" /\ \A q \in Procs \ {t} : pc'[q] = pc[q] /\ mine'[q] = mine[q]
      BY <2>2, Returns
    <3> QED BY <1>10, <3>2 DEF CountWrite, OneCheckpoint, Checkpointing, Critical
  <2> QED BY <1>10, <2>1, <2>2 DEF CountWrite
<1>11. ASSUME NEW p \in Procs, Store(p) PROVE  Goal
  BY <1>11 DEF Store, Go, OneCheckpoint, Checkpointing, Critical
<1>12. ASSUME NEW p \in Procs, Acquire(p) PROVE  Goal
  <2>1. CASE Go(p, "fetch")
    <3>1. "fetch" \in Points
      BY DEF Points, Critical
    <3>2. pc'[p] = "fetch" /\ mine' = mine /\ \A q \in Procs \ {p} : pc'[q] = pc[q]
      BY <2>1, <3>1, Goes
    <3> QED BY <1>12, <3>2 DEF Acquire, OneCheckpoint, Checkpointing
  <2> QED BY <1>12, <2>1 DEF Acquire
<1>13. ASSUME NEW p \in Procs, Fetch(p) PROVE  Goal
  <2>1. CASE Finish(p)
    <3>2. pc'[p] \in {"idle", "status"} /\ \A q \in Procs \ {p} : pc'[q] = pc[q] /\ mine'[q] = mine[q]
      BY <2>1, Finishes
    <3> QED BY <1>13, <3>2 DEF Fetch, OneCheckpoint, Checkpointing, Critical
  <2>2. CASE redis # <<>>
    <3>2. pc'[p] = "clear" /\ mine' = mine /\ \A q \in Procs \ {p} : pc'[q] = pc[q]
      BY <1>13, <2>2 DEF Fetch, TypeOK
    <3> QED BY <1>13, <3>2 DEF Fetch, OneCheckpoint, Checkpointing, Critical
  <2> QED BY <1>13, <2>1, <2>2 DEF Fetch
<1>14. ASSUME NEW p \in Procs, Clear(p) PROVE  Goal
  BY <1>14 DEF Clear, Go, OneCheckpoint, Checkpointing, Critical
<1>15. ASSUME NEW p \in Procs, Save(p) PROVE  Goal
  <2>1. CASE Finish(p)
    <3>2. pc'[p] \in {"idle", "status"} /\ \A q \in Procs \ {p} : pc'[q] = pc[q] /\ mine'[q] = mine[q]
      BY <2>1, Finishes
    <3> QED BY <1>15, <3>2 DEF Save, OneCheckpoint, Checkpointing, Critical
  <2>2. CASE Return(p)
    <3>2. pc'[p] = "idle" /\ \A q \in Procs \ {p} : pc'[q] = pc[q] /\ mine'[q] = mine[q]
      BY <2>2, Returns
    <3> QED BY <1>15, <3>2 DEF Save, OneCheckpoint, Checkpointing, Critical
  <2> QED BY <1>15, <2>1, <2>2 DEF Save
<1>16. ASSUME NEW p \in Procs, CloseStatus(p) PROVE  Goal
  <2>1. CASE Go(p, "drop")
    <3>1. "drop" \in Points
      BY DEF Points, Critical
    <3>2. pc'[p] = "drop" /\ mine' = mine /\ \A q \in Procs \ {p} : pc'[q] = pc[q]
      BY <2>1, <3>1, Goes
    <3> QED BY <1>16, <3>2 DEF CloseStatus, OneCheckpoint, Checkpointing, Critical
  <2>2. CASE Return(p)
    <3>2. pc'[p] = "idle" /\ \A q \in Procs \ {p} : pc'[q] = pc[q] /\ mine'[q] = mine[q]
      BY <2>2, Returns
    <3> QED BY <1>16, <3>2 DEF CloseStatus, OneCheckpoint, Checkpointing, Critical
  <2> QED BY <1>16, <2>1, <2>2 DEF CloseStatus
<1>17. ASSUME NEW p \in Procs, Drop(p) PROVE  Goal
  BY <1>17 DEF Drop, Return, OneCheckpoint, Checkpointing, Critical
<1>18. ASSUME NEW p \in Procs, Exists(p) PROVE  Goal
  <2>1. CASE Go(p, "load")
    <3>1. "load" \in Points
      BY DEF Points, Critical
    <3>2. pc'[p] = "load" /\ mine' = mine /\ \A q \in Procs \ {p} : pc'[q] = pc[q]
      BY <2>1, <3>1, Goes
    <3> QED BY <1>18, <3>2 DEF Exists, OneCheckpoint, Checkpointing, Critical
  <2>2. CASE Return(p)
    <3>2. pc'[p] = "idle" /\ \A q \in Procs \ {p} : pc'[q] = pc[q] /\ mine'[q] = mine[q]
      BY <2>2, Returns
    <3> QED BY <1>18, <3>2 DEF Exists, OneCheckpoint, Checkpointing, Critical
  <2> QED BY <1>18, <2>1, <2>2 DEF Exists
<1>19. ASSUME NEW p \in Procs, Load(p) PROVE  Goal
  <2>1. CASE Return(p)
    <3>2. pc'[p] = "idle" /\ \A q \in Procs \ {p} : pc'[q] = pc[q] /\ mine'[q] = mine[q]
      BY <2>1, Returns
    <3> QED BY <1>19, <3>2 DEF Load, OneCheckpoint, Checkpointing, Critical
  <2>2. CASE status # "none"
    <3>2. pc'[p] = "push" /\ mine' = mine /\ \A q \in Procs \ {p} : pc'[q] = pc[q]
      BY <1>19, <2>2 DEF Load, TypeOK
    <3> QED BY <1>19, <3>2 DEF Load, OneCheckpoint, Checkpointing, Critical
  <2> QED BY <1>19, <2>1, <2>2 DEF Load
<1>20. ASSUME NEW p \in Procs, Push(p) PROVE  Goal
  BY <1>20 DEF Push, Go, OneCheckpoint, Checkpointing, Critical
<1>21. ASSUME NEW p \in Procs, Activate(p) PROVE  Goal
  BY <1>21 DEF Activate, Return, OneCheckpoint, Checkpointing, Critical
<1>22. ASSUME NEW p \in Procs, Unlist(p) PROVE  Goal
  BY <1>22 DEF Unlist, Go, OneCheckpoint, Checkpointing, Critical
<1>23. ASSUME NEW p \in Procs, Erase(p) PROVE  Goal
  BY <1>23 DEF Erase, Return, TasksPlaced, ClientPlaced, ClientIsAlone, OneCheckpoint,
     Checkpointing, Critical
<1>24. ASSUME NEW p \in Procs, Raise(p) PROVE  Goal
  BY <1>24 DEF Raise, Return, TypeOK, OneCheckpoint, Checkpointing, Critical
<1>25. CASE Expire
  BY <1>25 DEF Expire, OneCheckpoint
<1>26. CASE Crash
  BY <1>26 DEF Crash, OneCheckpoint, Checkpointing, Critical
<1>27. CASE UNCHANGED vars
  BY <1>27 DEF OneCheckpoint
<1> QED BY <1>1, <1>2, <1>3, <1>4, <1>5, <1>6, <1>7, <1>8, <1>9, <1>10, <1>11, <1>12, <1>13,
           <1>14, <1>15, <1>16, <1>17, <1>18, <1>19, <1>20, <1>21, <1>22, <1>23, <1>24, <1>25,
           <1>26, <1>27 DEF Next, Run

\* A session that was deleted, or never made, has nothing in either store.
LEMMA NothingStep ==
    TypeOK /\ TasksPlaced /\ ClientPlaced /\ ClientIsAlone /\ NothingBefore /\ [Next]_vars
    => NothingBefore'
<1> SUFFICES ASSUME TypeOK, TasksPlaced, ClientPlaced, ClientIsAlone, NothingBefore, [Next]_vars
             PROVE  NothingBefore'
  OBVIOUS
<1> DEFINE Goal == NothingBefore'
<1>1. CASE Create
  BY <1>1 DEF Create, NothingBefore
<1>2. CASE Add
  BY <1>2 DEF Add, Start, NothingBefore
<1>3. CASE Checkpoint
  BY <1>3 DEF Checkpoint, EnterCheckpoint, NothingBefore
<1>4. CASE Close
  BY <1>4 DEF Close, EnterCheckpoint, NothingBefore
<1>5. CASE Resume
  BY <1>5 DEF Resume, Start, NothingBefore
<1>6. CASE Delete
  BY <1>6 DEF Delete, Start, NothingBefore
<1>7. CASE Leave
  BY <1>7 DEF Leave, NothingBefore
<1>8. CASE Count
  BY <1>8 DEF Count, EnterCheckpoint, Return, TypeOK, NothingBefore
<1>9. ASSUME NEW t \in Tasks, AgentAdd(t) PROVE  Goal
  BY <1>9 DEF AgentAdd, NothingBefore
<1>10. ASSUME NEW t \in Tasks, CountWrite(t) PROVE  Goal
  BY <1>10 DEF CountWrite, EnterCheckpoint, Return, TypeOK, NothingBefore
<1>11. ASSUME NEW p \in Procs, Store(p) PROVE  Goal
  BY <1>11 DEF Store, Go, ClientPlaced, ClientIsAlone, NothingBefore
<1>12. ASSUME NEW p \in Procs, Acquire(p) PROVE  Goal
  BY <1>12 DEF Acquire, Go, NothingBefore
<1>13. ASSUME NEW p \in Procs, Fetch(p) PROVE  Goal
  BY <1>13 DEF Fetch, TypeOK, NothingBefore
<1>14. ASSUME NEW p \in Procs, Clear(p) PROVE  Goal
  BY <1>14 DEF Clear, Go, NothingBefore
<1>15. ASSUME NEW p \in Procs, Save(p) PROVE  Goal
  BY <1>15 DEF Save, Finish, Go, Return, TypeOK, NothingBefore
<1>16. ASSUME NEW p \in Procs, CloseStatus(p) PROVE  Goal
  BY <1>16 DEF CloseStatus, Go, TypeOK, NothingBefore
<1>17. ASSUME NEW p \in Procs, Drop(p) PROVE  Goal
  BY <1>17 DEF Drop, NothingBefore
<1>18. ASSUME NEW p \in Procs, Exists(p) PROVE  Goal
  BY <1>18 DEF Exists, Return, TypeOK, NothingBefore
<1>19. ASSUME NEW p \in Procs, Load(p) PROVE  Goal
  BY <1>19 DEF Load, TypeOK, NothingBefore
<1>20. ASSUME NEW p \in Procs, Push(p) PROVE  Goal
  BY <1>20 DEF Push, Go, ClientPlaced, ClientIsAlone, NothingBefore
<1>21. ASSUME NEW p \in Procs, Activate(p) PROVE  Goal
  BY <1>21 DEF Activate, Return, NothingBefore
<1>22. ASSUME NEW p \in Procs, Unlist(p) PROVE  Goal
  BY <1>22 DEF Unlist, NothingBefore
<1>23. ASSUME NEW p \in Procs, Erase(p) PROVE  Goal
  BY <1>23 DEF Erase, Return, TypeOK, TasksPlaced, ClientPlaced, ClientIsAlone, NothingBefore,
     Checkpointing, Critical
<1>24. ASSUME NEW p \in Procs, Raise(p) PROVE  Goal
  BY <1>24 DEF Raise, Return, NothingBefore
<1>25. CASE Expire
  BY <1>25 DEF Expire, NothingBefore
<1>26. CASE Crash
  BY <1>26 DEF Crash, NothingBefore
<1>27. CASE UNCHANGED vars
  BY <1>27 DEF NothingBefore
<1> QED BY <1>1, <1>2, <1>3, <1>4, <1>5, <1>6, <1>7, <1>8, <1>9, <1>10, <1>11, <1>12, <1>13,
           <1>14, <1>15, <1>16, <1>17, <1>18, <1>19, <1>20, <1>21, <1>22, <1>23, <1>24, <1>25,
           <1>26, <1>27 DEF Next, Run

\* A checkpoint writes into an empty table, after every step.
LEMMA SavesStep ==
    TypeOK /\ TasksPlaced /\ OneCheckpoint /\ NothingBefore /\ SavesIntoNothing /\
    [Next]_vars
    => SavesIntoNothing'
<1> SUFFICES ASSUME TypeOK, TasksPlaced, OneCheckpoint, NothingBefore, SavesIntoNothing,
                    [Next]_vars
             PROVE  SavesIntoNothing'
  OBVIOUS
<1> DEFINE Goal == SavesIntoNothing'
<1>1. CASE Create
  BY <1>1 DEF Create, SavesIntoNothing
<1>2. CASE Add
  BY <1>2 DEF Add, Start, SavesIntoNothing
<1>3. CASE Checkpoint
  BY <1>3 DEF Checkpoint, EnterCheckpoint, SavesIntoNothing
<1>4. CASE Close
  BY <1>4 DEF Close, EnterCheckpoint, SavesIntoNothing
<1>5. CASE Resume
  BY <1>5 DEF Resume, Start, SavesIntoNothing
<1>6. CASE Delete
  BY <1>6 DEF Delete, Start, SavesIntoNothing
<1>7. CASE Leave
  BY <1>7 DEF Leave, SavesIntoNothing
<1>8. CASE Count
  BY <1>8 DEF Count, EnterCheckpoint, Return, TypeOK, SavesIntoNothing
<1>9. ASSUME NEW t \in Tasks, AgentAdd(t) PROVE  Goal
  BY <1>9 DEF AgentAdd, SavesIntoNothing
<1>10. ASSUME NEW t \in Tasks, CountWrite(t) PROVE  Goal
  BY <1>10 DEF CountWrite, EnterCheckpoint, Return, TypeOK, SavesIntoNothing
<1>11. ASSUME NEW p \in Procs, Store(p) PROVE  Goal
  BY <1>11 DEF Store, Go, SavesIntoNothing
<1>12. ASSUME NEW p \in Procs, Acquire(p) PROVE  Goal
  BY <1>12 DEF Acquire, Go, SavesIntoNothing
<1>13. ASSUME NEW p \in Procs, Fetch(p) PROVE  Goal
  BY <1>13 DEF Fetch, Finish, Go, Return, TypeOK, SavesIntoNothing
<1>14. ASSUME NEW p \in Procs, Clear(p) PROVE  Goal
  BY <1>14 DEF Clear, SavesIntoNothing
<1>15. ASSUME NEW p \in Procs, Save(p) PROVE  Goal
  <2>1. pg = <<>>
    BY <1>15 DEF Save, SavesIntoNothing
  <2>2. CASE Finish(p) /\ pg' = pg \o held[p] /\ saved' = held[p]
    <3>1. held[p] \in Seq(Msgs)
      BY DEF TypeOK
    <3>2. pg' = saved'
      BY <2>1, <2>2, <3>1, ConcatEmptySeq
    <3>3. pc'[p] # "save" /\ \A q \in Procs \ {p} : pc'[q] = pc[q]
      BY <2>2, Finishes
    <3>4. \A q \in Procs \ {p} : pc[q] # "save"
      BY <1>15 DEF Save, OneCheckpoint, Critical
    <3> QED BY <3>2, <3>3, <3>4 DEF SavesIntoNothing
  <2>3. CASE Return(p) /\ UNCHANGED <<pg, saved>>
    <3>1. pc'[p] # "save" /\ \A q \in Procs \ {p} : pc'[q] = pc[q]
      BY <2>3, Returns
    <3> QED BY <2>3, <3>1 DEF SavesIntoNothing
  <2> QED BY <1>15, <2>2, <2>3 DEF Save
<1>16. ASSUME NEW p \in Procs, CloseStatus(p) PROVE  Goal
  BY <1>16 DEF CloseStatus, Go, Return, TypeOK, SavesIntoNothing
<1>17. ASSUME NEW p \in Procs, Drop(p) PROVE  Goal
  BY <1>17 DEF Drop, Return, SavesIntoNothing
<1>18. ASSUME NEW p \in Procs, Exists(p) PROVE  Goal
  BY <1>18 DEF Exists, Go, Return, TypeOK, SavesIntoNothing
<1>19. ASSUME NEW p \in Procs, Load(p) PROVE  Goal
  BY <1>19 DEF Load, Return, TypeOK, SavesIntoNothing
<1>20. ASSUME NEW p \in Procs, Push(p) PROVE  Goal
  BY <1>20 DEF Push, Go, SavesIntoNothing
<1>21. ASSUME NEW p \in Procs, Activate(p) PROVE  Goal
  BY <1>21 DEF Activate, Return, SavesIntoNothing
<1>22. ASSUME NEW p \in Procs, Unlist(p) PROVE  Goal
  BY <1>22 DEF Unlist, Go, SavesIntoNothing
<1>23. ASSUME NEW p \in Procs, Erase(p) PROVE  Goal
  BY <1>23 DEF Erase, SavesIntoNothing
<1>24. ASSUME NEW p \in Procs, Raise(p) PROVE  Goal
  BY <1>24 DEF Raise, Return, SavesIntoNothing
<1>25. CASE Expire
  BY <1>25 DEF Expire, SavesIntoNothing
<1>26. CASE Crash
  BY <1>26 DEF Crash, SavesIntoNothing
<1>27. CASE UNCHANGED vars
  BY <1>27 DEF SavesIntoNothing
<1> QED BY <1>1, <1>2, <1>3, <1>4, <1>5, <1>6, <1>7, <1>8, <1>9, <1>10, <1>11, <1>12, <1>13,
           <1>14, <1>15, <1>16, <1>17, <1>18, <1>19, <1>20, <1>21, <1>22, <1>23, <1>24, <1>25,
           <1>26, <1>27 DEF Next, Run

\* The invariant of the stores' order holds at the start.
LEMMA InitOrderly == Init => Orderly
<1> SUFFICES ASSUME Init PROVE Orderly
  OBVIOUS
<1>1. TypeOK
  <2>1. <<>> \in Seq(Msgs)
    OBVIOUS
  <2> QED BY <2>1 DEF Init, TypeOK, Points, Ops
<1> QED BY <1>1 DEF Init, Orderly, TasksPlaced, ClientPlaced, ClientIsAlone, OneCheckpoint,
           NothingBefore, SavesIntoNothing, Restoring, Critical

\* It is inductive when no write is late.
LEMMA StepOrderly == Punctual /\ Orderly /\ [Next]_vars => Orderly'
BY TypeStep, PlacedStep, ClientStep, AloneStep, LockStep, NothingStep, SavesStep DEF Orderly

\* It holds always.
LEMMA OrderIsKept == ASSUME Punctual PROVE Spec => []Orderly
<1>1. Init => Orderly
  BY InitOrderly
<1>2. Orderly /\ [Next]_vars => Orderly'
  BY StepOrderly
<1> QED BY <1>1, <1>2, PTL DEF Spec

\* Neither store ever holds what no complete checkpoint wrote, and of a deleted
\* session neither holds anything, whatever checkpoints, failing calls, crashes
\* and expiries overlap, if no write of the agent is late.
THEOREM StoresStayClean == ASSUME Punctual PROVE Spec => []StoresAreClean
<1>1. Orderly => StoresAreClean
  BY DEF Orderly, StoresAreClean, NothingBefore, SavesIntoNothing, PostgresIsOneSnapshot,
     DeletedIsGone
<1> QED BY <1>1, OrderIsKept, PTL


-----------------------------------------------------------------------------
(* The two stores implement SessionHistory, if besides nobody's session      *)
(* expires while it is used or while a checkpoint of it is torn.             *)

InTime == Env \subseteq {"expire", "error"}

Among(s) == {s[i] : i \in 1..Len(s)}
Once(s) == \A i, j \in 1..Len(s) : s[i] = s[j] => i = j
Fits(s) == Cap > 0 => Len(s) <= Cap

\* A list of messages of the session, none of them twice.
Proper(s) == s \in Seq(1..sent) /\ Once(s)

ListsProper ==
    /\ Proper(redis) /\ Fits(redis) /\ Proper(pg) /\ Fits(pg)
    /\ \A p \in Procs :
          /\ pc[p] \in {"store", "clear", "save"} => Proper(held[p]) /\ held[p] # <<>>
          /\ pc[p] \in {"clear", "save"} => Fits(held[p])

\* What is about to be stored is new.
NewOnes ==
    \A p \in Procs : pc[p] = "store" =>
        /\ Among(held[p]) \cap Among(redis) = {}
        /\ \A q \in Procs \ {p} : pc[q] = "store" => Among(held[p]) \cap Among(held[q]) = {}

\* Of a session that is used Redis has everything.
RedisLeads ==
    /\ \/ use = "open" \/ pc[Client] = "activate" \/ \E p \in Procs : pc[p] = "store"
       => (redis = <<>> => pg = <<>>)
    /\ \A p \in Procs : pc[p] \in {"clear", "save"} => redis # <<>>

\* A session is resumed from PostgreSQL alone.
ResumesAll ==
    /\ pc[Client] \in {"load", "push"} => redis = <<>>
    /\ pc[Client] = "push" => held[Client] = pg

\* A session that is closed is in PostgreSQL before its list goes.
ClosesAll ==
    /\ op[Client] = "close" /\ pc[Client] \in {"clear", "save"} => held[Client] = redis
    /\ pc[Client] \in {"status", "drop"} => redis \in {<<>>, pg}

Faithful == /\ Orderly /\ ListsProper /\ NewOnes /\ RedisLeads /\ ResumesAll /\ ClosesAll

\* Two lists without repetitions and common messages, one after the other.
LEMMA ConcatOnce ==
    ASSUME NEW S, NEW s \in Seq(S), NEW t \in Seq(S), Once(s), Once(t),
           Among(s) \cap Among(t) = {}
    PROVE  /\ s \o t \in Seq(S) /\ Once(s \o t) /\ Among(s \o t) = Among(s) \cup Among(t)
           /\ t # <<>> => s \o t # <<>>
<1>1. /\ s \o t \in Seq(S) /\ Len(s) \in Nat /\ Len(t) \in Nat /\ Len(s \o t) = Len(s) + Len(t)
      /\ \A i \in 1..Len(s) + Len(t) : (s \o t)[i] = IF i <= Len(s) THEN s[i] ELSE t[i - Len(s)]
  BY ConcatProperties, LenProperties
<1> DEFINE st == s \o t
<1> HIDE DEF st
<1>2. ASSUME NEW i \in 1..Len(s) + Len(t)
      PROVE  \/ i \in 1..Len(s) /\ st[i] = s[i] /\ st[i] \in Among(s)
             \/ i - Len(s) \in 1..Len(t) /\ st[i] = t[i - Len(s)] /\ st[i] \in Among(t) /\ i > Len(s)
  BY <1>1 DEF st, Among
<1>3. Once(st)
  <2> SUFFICES ASSUME NEW i \in 1..Len(s) + Len(t), NEW j \in 1..Len(s) + Len(t), st[i] = st[j]
               PROVE  i = j
    BY <1>1 DEF Once, st
  <2>1. CASE i <= Len(s) /\ j <= Len(s)
    BY <1>1, <1>2, <2>1 DEF Once
  <2>2. CASE i > Len(s) /\ j > Len(s)
    <3>1. /\ i - Len(s) \in 1..Len(t) /\ st[i] = t[i - Len(s)]
          /\ j - Len(s) \in 1..Len(t) /\ st[j] = t[j - Len(s)]
      BY <1>1, <1>2, <2>2
    <3>2. i - Len(s) = j - Len(s)
      BY <3>1 DEF Once
    <3> QED BY <1>1, <3>2
  <2>3. CASE (i <= Len(s)) # (j <= Len(s))
    <3>1. /\ st[i] \in Among(s) \/ st[j] \in Among(s)
          /\ st[i] \in Among(t) \/ st[j] \in Among(t)
      BY <1>1, <1>2, <2>3
    <3> QED BY <3>1
  <2> QED BY <1>1, <2>1, <2>2, <2>3
<1>4. Among(st) = Among(s) \cup Among(t)
  <2>1. Among(st) \subseteq Among(s) \cup Among(t)
    <3> SUFFICES ASSUME NEW i \in 1..Len(s) + Len(t) PROVE st[i] \in Among(s) \cup Among(t)
      BY <1>1 DEF Among, st
    <3> QED BY <1>2
  <2>2. ASSUME NEW i \in 1..Len(s) PROVE s[i] \in Among(st)
    <3>1. i \in 1..Len(s) + Len(t) /\ st[i] = s[i] /\ Len(st) = Len(s) + Len(t)
      BY <1>1 DEF st
    <3> QED BY <3>1 DEF Among
  <2>3. ASSUME NEW i \in 1..Len(t) PROVE t[i] \in Among(st)
    <3>1. /\ i + Len(s) \in 1..Len(s) + Len(t) /\ (i + Len(s)) - Len(s) = i
          /\ ~(i + Len(s) <= Len(s)) /\ Len(st) = Len(s) + Len(t)
      BY <1>1 DEF st
    <3>2. st[i + Len(s)] = t[i]
      BY <1>1, <3>1 DEF st
    <3> QED BY <3>1, <3>2 DEF Among
  <2> QED BY <2>1, <2>2, <2>3 DEF Among
<1>5. t # <<>> => st # <<>>
  BY <1>1, EmptySeq DEF st
<1> QED BY <1>1, <1>3, <1>4, <1>5 DEF st

\* A trimmed list repeats nothing.
LEMMA TrimOnce ==
    ASSUME NEW S, NEW s \in Seq(S), Once(s)
    PROVE  /\ Trim(s) \in Seq(S) /\ Once(Trim(s)) /\ Fits(Trim(s))
           /\ Among(Trim(s)) \subseteq Among(s)
           /\ s # <<>> => Trim(s) # <<>>
           /\ Fits(s) => Trim(s) = s
<1>0. Len(s) \in Nat /\ Cap \in Nat
  BY LenProperties
<1>1. CASE Cap = 0 \/ Len(s) <= Cap
  BY <1>0, <1>1 DEF Trim, Fits
<1>2. CASE ~(Cap = 0 \/ Len(s) <= Cap)
  <2> DEFINE m == Len(s) - Cap + 1
             u == SubSeq(s, m, Len(s))
  <2>1. m \in 1..Len(s) /\ Len(s) - m + 1 = Cap /\ Cap > 0
    BY <1>0, <1>2
  <2>2. \A i \in m..Len(s) : s[i] \in S
    BY <1>0, <2>1, ElementOfSeq
  <2> HIDE DEF m
  <2>3. /\ u \in Seq(S) /\ Len(u) = IF m <= Len(s) THEN Len(s) - m + 1 ELSE 0
        /\ \A i \in 1..Len(s) - m + 1 : u[i] = s[m + i - 1]
    BY <1>0, <2>1, <2>2, SubSeqProperties
  <2> HIDE DEF u
  <2>4. Len(u) = Cap /\ \A i \in 1..Cap : u[i] = s[m + i - 1] /\ m + i - 1 \in 1..Len(s)
    BY <1>0, <2>1, <2>3 DEF m
  <2>5. Once(u)
    <3> SUFFICES ASSUME NEW i \in 1..Cap, NEW j \in 1..Cap, u[i] = u[j] PROVE i = j
      BY <2>4 DEF Once
    <3>1. m + i - 1 = m + j - 1
      BY <2>4 DEF Once
    <3> QED BY <1>0, <2>1, <3>1
  <2>6. Among(u) \subseteq Among(s)
    BY <2>4 DEF Among
  <2>7. u # <<>>
    BY <2>1, <2>4, EmptySeq
  <2> QED BY <1>0, <1>2, <2>3, <2>4, <2>5, <2>6, <2>7 DEF Trim, Fits, u, m
<1> QED BY <1>1, <1>2

\* The empty list.
LEMMA EmptyProper == Proper(<<>>) /\ Fits(<<>>) /\ Among(<<>>) = {}
<1>1. <<>> \in Seq(1..sent) /\ Len(<<>>) = 0
  OBVIOUS
<1> QED BY <1>1 DEF Proper, Once, Fits, Among

\* A list of messages stays one when more are made.
LEMMA StillProper ==
    ASSUME NEW s, NEW m \in Nat, NEW n \in Nat, m <= n, s \in Seq(1..m)
    PROVE  s \in Seq(1..n)
<1>1. 1..m \subseteq 1..n
  OBVIOUS
<1> QED BY <1>1, SeqMonotonic

\* What the list is once new messages have been stored.
LEMMA Stores ==
    ASSUME Faithful, NEW p \in Procs, Store(p)
    PROVE  LET all == redis \o held[p]
           IN  /\ all \in Seq(1..sent) /\ Once(all) /\ redis' = Trim(all) /\ redis' # <<>>
               /\ redis' \in Seq(1..sent) /\ Once(redis') /\ Fits(redis')
               /\ Among(redis') \subseteq Among(redis) \cup Among(held[p])
<1> DEFINE all == redis \o held[p]
<1>1. /\ redis \in Seq(1..sent) /\ Once(redis) /\ held[p] \in Seq(1..sent) /\ Once(held[p])
      /\ Among(held[p]) \cap Among(redis) = {} /\ held[p] # <<>>
  BY DEF Store, Faithful, ListsProper, NewOnes, Proper
<1>2. /\ all \in Seq(1..sent) /\ Once(all) /\ all # <<>>
      /\ Among(all) = Among(redis) \cup Among(held[p])
  <2>1. Among(redis) \cap Among(held[p]) = {}
    BY <1>1
  <2> QED BY <1>1, <2>1, ConcatOnce
<1>3. redis' = Trim(all)
  BY DEF Store
<1> HIDE DEF all
<1>4. /\ Trim(all) \in Seq(1..sent) /\ Once(Trim(all)) /\ Fits(Trim(all)) /\ Trim(all) # <<>>
      /\ Among(Trim(all)) \subseteq Among(all)
  BY <1>2, TrimOnce
<1>5. Among(redis') = Among(Trim(all)) /\ Once(redis') = Once(Trim(all)) /\ Fits(redis') = Fits(Trim(all))
  BY <1>3
<1> QED BY <1>2, <1>3, <1>4, <1>5 DEF all

\* A resumed session is what PostgreSQL had.
LEMMA Pushes ==
    ASSUME Faithful, NEW p \in Procs, Push(p)
    PROVE  p = Client /\ redis = <<>> /\ redis' = pg
<1>1. p = Client
  BY DEF Push, Faithful, Orderly, TasksPlaced, Checkpointing, Critical
<1>2. redis = <<>> /\ held[p] = pg /\ redis' = Trim(redis \o held[p])
  BY <1>1 DEF Push, Faithful, ResumesAll
<1>3. pg \in Seq(1..sent) /\ Once(pg) /\ Fits(pg)
  BY DEF Faithful, ListsProper, Proper
<1>4. <<>> \o pg = pg
  BY <1>3, ConcatEmptySeq
<1>5. Trim(pg) = pg
  BY <1>3, TrimOnce
<1>6. redis' = Trim(<<>> \o pg)
  BY <1>2
<1> QED BY <1>1, <1>2, <1>4, <1>5, <1>6

\* A checkpoint that writes replaces what PostgreSQL held.
LEMMA Saves ==
    ASSUME Orderly, NEW p \in Procs, Save(p)
    PROVE  /\ status # "none" /\ pg' = held[p] /\ saved' = held[p] /\ Finish(p)
           /\ UNCHANGED <<redis, status, writes, epoch, user>>
<1>1. pg = <<>> /\ status # "none" /\ held[p] \in Seq(Msgs)
  BY DEF Save, Orderly, SavesIntoNothing, NothingBefore, TypeOK
<1>2. <<>> \o held[p] = held[p]
  BY <1>1, ConcatEmptySeq
<1> QED BY <1>1, <1>2 DEF Save

\* A coroutine has n new messages to store.
MakesNew(p, n) ==
    /\ sent' = sent + n
    /\ held'[p] \in Seq(1..sent') /\ held'[p] # <<>> /\ Once(held'[p])
    /\ Among(held'[p]) \subseteq (sent + 1)..(sent + n)
    /\ pc'[p] = "store"
    /\ \A q \in Procs \ {p} : pc'[q] = pc[q] /\ held'[q] = held[q]
    /\ redis' = redis /\ pg' = pg

\* add_message makes new messages.
LEMMA AddMakesNew ==
    ASSUME TypeOK, Add
    PROVE  \E n \in Nat : MakesNew(Client, n)
<1>1. PICK n \in 1..MaxBatch :
          /\ sent + n <= MaxMsgs /\ sent' = sent + n
          /\ held' = [held EXCEPT ![Client] = [i \in 1..n |-> sent + i]]
  BY DEF Add
<1> DEFINE batch == [i \in 1..n |-> sent + i]
<1>2. n \in Nat /\ n >= 1 /\ sent \in Nat /\ sent' \in Nat
  BY <1>1 DEF TypeOK
<1>3. batch \in [1..n -> 1..sent']
  BY <1>1, <1>2
<1>4. batch \in Seq(1..sent') /\ Len(batch) = n
  BY <1>2, <1>3, IsASeq, LenProperties
<1>5. batch # <<>>
  BY <1>2, <1>4, EmptySeq
<1>6. Once(batch)
  BY <1>2, <1>4 DEF Once
<1>7. Among(batch) \subseteq (sent + 1)..(sent + n)
  BY <1>2, <1>4 DEF Among
<1> HIDE DEF batch
<1>8. held'[Client] = batch /\ \A q \in Procs \ {Client} : held'[q] = held[q]
  BY <1>1 DEF TypeOK, batch
<1>9. /\ pc'[Client] = "store" /\ redis' = redis /\ pg' = pg
      /\ \A q \in Procs \ {Client} : pc'[q] = pc[q]
  BY DEF Add, Start, TypeOK
<1>10. Once(held'[Client]) /\ Among(held'[Client]) \subseteq (sent + 1)..(sent + n)
  BY <1>6, <1>7, <1>8
<1>11. held'[Client] \in Seq(1..sent') /\ held'[Client] # <<>>
  BY <1>4, <1>5, <1>8
<1>12. MakesNew(Client, n)
  BY <1>1, <1>8, <1>9, <1>10, <1>11 DEF MakesNew
<1> QED BY <1>2, <1>12

\* The agent makes a new message.
LEMMA AgentMakesNew ==
    ASSUME TypeOK, NEW t \in Tasks, AgentAdd(t)
    PROVE  MakesNew(t, 1)
<1> DEFINE one == <<sent + 1>>
<1>1. sent \in Nat /\ sent' = sent + 1 /\ sent + 1 \in 1..sent'
  BY DEF AgentAdd, TypeOK
<1>2. one \in Seq(1..sent') /\ one # <<>> /\ Len(one) = 1 /\ one[1] = sent + 1
  BY <1>1
<1>3. Once(one) /\ Among(one) \subseteq (sent + 1)..(sent + 1)
  BY <1>1, <1>2 DEF Once, Among
<1>4. held'[t] = one /\ \A q \in Procs \ {t} : held'[q] = held[q]
  BY DEF AgentAdd, TypeOK
<1>5. /\ pc'[t] = "store" /\ redis' = redis /\ pg' = pg
      /\ \A q \in Procs \ {t} : pc'[q] = pc[q]
  BY DEF AgentAdd, TypeOK
<1> HIDE DEF one
<1>6. Once(held'[t]) /\ Among(held'[t]) \subseteq (sent + 1)..(sent + 1)
  BY <1>3, <1>4
<1> QED BY <1>1, <1>2, <1>4, <1>5, <1>6 DEF MakesNew

\* What a list holds was made before.
LEMMA ProperIsOld ==
    ASSUME NEW s, Proper(s), sent \in Nat, NEW n \in Nat
    PROVE  Among(s) \cap (sent + 1)..(sent + n) = {}
<1>1. s \in Seq(1..sent)
  BY DEF Proper
<1>2. ASSUME NEW i \in 1..Len(s) PROVE s[i] \notin (sent + 1)..(sent + n)
  <2>1. s[i] \in 1..sent
    BY <1>1, ElementOfSeq
  <2> QED BY <2>1
<1> QED BY <1>2 DEF Among

\* New messages are in no store yet.
LEMMA NewStaysNew ==
    ASSUME Faithful, NEW p \in Procs, NEW n \in Nat, MakesNew(p, n)
    PROVE  NewOnes'
<1>1. sent \in Nat
  BY DEF Faithful, Orderly, TypeOK
<1>2. Among(held'[p]) \cap Among(redis) = {}
  <2>1. Proper(redis)
    BY DEF Faithful, ListsProper
  <2>2. Among(redis) \cap (sent + 1)..(sent + n) = {}
    BY <1>1, <2>1, ProperIsOld
  <2> QED BY <2>2 DEF MakesNew
<1>3. ASSUME NEW q \in Procs, pc[q] = "store"
      PROVE  Among(held'[p]) \cap Among(held[q]) = {}
  <2>1. Proper(held[q])
    BY <1>3 DEF Faithful, ListsProper
  <2>2. Among(held[q]) \cap (sent + 1)..(sent + n) = {}
    BY <1>1, <2>1, ProperIsOld
  <2> QED BY <2>2 DEF MakesNew
<1>4. /\ redis' = redis
      /\ \A q \in Procs \ {p} : pc'[q] = pc[q] /\ held'[q] = held[q]
  BY DEF MakesNew
<1> QED BY <1>2, <1>3, <1>4 DEF Faithful, NewOnes

\* Making messages keeps every list proper.
LEMMA NewIsProper ==
    ASSUME Faithful, NEW p \in Procs, NEW n \in Nat, MakesNew(p, n)
    PROVE  ListsProper'
<1>1. /\ sent \in Nat /\ sent' \in Nat /\ sent <= sent' /\ redis' = redis /\ pg' = pg
      /\ pc'[p] = "store" /\ held'[p] \in Seq(1..sent') /\ held'[p] # <<>> /\ Once(held'[p])
      /\ \A q \in Procs \ {p} : pc'[q] = pc[q] /\ held'[q] = held[q]
  BY DEF MakesNew, Faithful, Orderly, TypeOK
<1>2. \A s \in Seq(1..sent) : s \in Seq(1..sent')
  BY <1>1, StillProper
<1>3. Proper(redis)' /\ Proper(pg)' /\ Fits(redis)' /\ Fits(pg)'
  BY <1>1, <1>2 DEF Faithful, ListsProper, Proper
<1>4. ASSUME NEW q \in Procs, pc'[q] \in {"store", "clear", "save"}
      PROVE  Proper(held[q])' /\ held'[q] # <<>> /\ (pc'[q] # "store" => Fits(held[q])')
  BY <1>1, <1>2, <1>4 DEF Faithful, ListsProper, Proper
<1> QED BY <1>3, <1>4 DEF ListsProper


\* A session that is closed is in PostgreSQL before its list goes, after every step.
LEMMA ClosesStep == InTime /\ Faithful /\ [Next]_vars => ClosesAll'
<1> SUFFICES ASSUME InTime, Faithful, [Next]_vars PROVE ClosesAll'
  OBVIOUS
<1> DEFINE Goal == ClosesAll'
<1> USE DEF Faithful, Orderly
<1>1. CASE Create
  BY <1>1 DEF Create, ClosesAll
<1>2. CASE Add
  BY <1>2 DEF Add, Start, ClosesAll
<1>3. CASE Checkpoint
  BY <1>3 DEF Checkpoint, EnterCheckpoint, ClosesAll
<1>4. CASE Close
  BY <1>4 DEF Close, EnterCheckpoint, ClosesAll
<1>5. CASE Resume
  BY <1>5 DEF Resume, Start, ClosesAll
<1>6. CASE Delete
  BY <1>6 DEF Delete, Start, ClosesAll
<1>7. CASE Leave
  BY <1>7 DEF Leave, ClosesAll
<1>8. CASE Count
  BY <1>8 DEF Count, EnterCheckpoint, Return, TypeOK, ClosesAll
<1>9. ASSUME NEW t \in Tasks, AgentAdd(t) PROVE  Goal
  BY <1>9 DEF AgentAdd, ClosesAll
<1>10. ASSUME NEW t \in Tasks, CountWrite(t) PROVE  Goal
  BY <1>10 DEF CountWrite, EnterCheckpoint, Return, TypeOK, ClosesAll
<1>11. ASSUME NEW p \in Procs, Store(p) PROVE  Goal
  BY <1>11 DEF Store, Go, ClientPlaced, ClientIsAlone, ClosesAll
<1>12. ASSUME NEW p \in Procs, Acquire(p) PROVE  Goal
  BY <1>12 DEF Acquire, Go, ClosesAll
<1>13. ASSUME NEW p \in Procs, Fetch(p) PROVE  Goal
  BY <1>13 DEF Fetch, Finish, Go, Return, TypeOK, ClosesAll
<1>14. ASSUME NEW p \in Procs, Clear(p) PROVE  Goal
  BY <1>14 DEF Clear, Go, ClientPlaced, ClientIsAlone, ClosesAll
<1>15. ASSUME NEW p \in Procs, Save(p) PROVE  Goal
  <2>1. pg' = held[p] /\ Finish(p) /\ redis' = redis /\ pc[p] = "save"
    BY <1>15, Saves DEF Save
  <2>2. \A q \in Procs \ {p} : pc'[q] = pc[q] /\ op'[q] = op[q]
    BY <2>1, Finishes
  <2>3. CASE p = Client
    <3>1. pc'[p] \in {"idle", "status"} /\ (pc'[p] = "status" => op[p] = "close")
      BY <2>1, Finishes
    <3> QED BY <2>1, <2>3, <3>1 DEF ClosesAll
  <2>4. CASE p # Client
    BY <2>1, <2>2, <2>4 DEF ClosesAll, ClientPlaced, ClientIsAlone
  <2> QED BY <2>3, <2>4
<1>16. ASSUME NEW p \in Procs, CloseStatus(p) PROVE  Goal
  BY <1>16 DEF CloseStatus, Go, Return, TypeOK, ClosesAll
<1>17. ASSUME NEW p \in Procs, Drop(p) PROVE  Goal
  BY <1>17 DEF Drop, Return, ClientIsAlone, ClosesAll
<1>18. ASSUME NEW p \in Procs, Exists(p) PROVE  Goal
  BY <1>18 DEF Exists, Go, Return, TypeOK, ClosesAll
<1>19. ASSUME NEW p \in Procs, Load(p) PROVE  Goal
  BY <1>19 DEF Load, Return, TypeOK, ClosesAll
<1>20. ASSUME NEW p \in Procs, Push(p) PROVE  Goal
  BY <1>20 DEF Push, Go, ClientPlaced, ClientIsAlone, ClosesAll
<1>21. ASSUME NEW p \in Procs, Activate(p) PROVE  Goal
  BY <1>21 DEF Activate, Return, ClosesAll
<1>22. ASSUME NEW p \in Procs, Unlist(p) PROVE  Goal
  BY <1>22 DEF Unlist, Go, ClientIsAlone, ClosesAll
<1>23. ASSUME NEW p \in Procs, Erase(p) PROVE  Goal
  BY <1>23 DEF Erase, Return, ClientPlaced, ClientIsAlone, ClosesAll
<1>24. ASSUME NEW p \in Procs, Raise(p) PROVE  Goal
  BY <1>24 DEF Raise, Return, TypeOK, ClosesAll
<1>25. CASE Expire
  BY <1>25 DEF Expire, ClosesAll
<1>26. CASE Crash
  BY <1>26 DEF Crash, ClosesAll
<1>27. CASE UNCHANGED vars
  BY <1>27 DEF ClosesAll
<1> QED BY <1>1, <1>2, <1>3, <1>4, <1>5, <1>6, <1>7, <1>8, <1>9, <1>10, <1>11, <1>12, <1>13,
           <1>14, <1>15, <1>16, <1>17, <1>18, <1>19, <1>20, <1>21, <1>22, <1>23, <1>24, <1>25,
           <1>26, <1>27 DEF Next, Run

\* A session is resumed from PostgreSQL alone, after every step.
LEMMA ResumesStep == InTime /\ Faithful /\ [Next]_vars => ResumesAll'
<1> SUFFICES ASSUME InTime, Faithful, [Next]_vars PROVE ResumesAll'
  OBVIOUS
<1> DEFINE Goal == ResumesAll'
<1> USE DEF Faithful, Orderly
<1>1. CASE Create
  BY <1>1 DEF Create, ResumesAll
<1>2. CASE Add
  BY <1>2 DEF Add, Start, ResumesAll
<1>3. CASE Checkpoint
  BY <1>3 DEF Checkpoint, EnterCheckpoint, ResumesAll
<1>4. CASE Close
  BY <1>4 DEF Close, EnterCheckpoint, ResumesAll
<1>5. CASE Resume
  BY <1>5 DEF Resume, Start, ResumesAll
<1>6. CASE Delete
  BY <1>6 DEF Delete, Start, ResumesAll
<1>7. CASE Leave
  BY <1>7 DEF Leave, ResumesAll
<1>8. CASE Count
  BY <1>8 DEF Count, EnterCheckpoint, Return, TypeOK, ResumesAll
<1>9. ASSUME NEW t \in Tasks, AgentAdd(t) PROVE  Goal
  BY <1>9 DEF AgentAdd, ResumesAll
<1>10. ASSUME NEW t \in Tasks, CountWrite(t) PROVE  Goal
  BY <1>10 DEF CountWrite, EnterCheckpoint, Return, TypeOK, ResumesAll
<1>11. ASSUME NEW p \in Procs, Store(p) PROVE  Goal
  BY <1>11 DEF Store, Go, ClientIsAlone, ResumesAll, Restoring
<1>12. ASSUME NEW p \in Procs, Acquire(p) PROVE  Goal
  BY <1>12 DEF Acquire, Go, ResumesAll
<1>13. ASSUME NEW p \in Procs, Fetch(p) PROVE  Goal
  BY <1>13 DEF Fetch, Finish, Go, Return, TypeOK, ResumesAll
<1>14. ASSUME NEW p \in Procs, Clear(p) PROVE  Goal
  BY <1>14 DEF Clear, Go, ClientIsAlone, ResumesAll, Restoring
<1>15. ASSUME NEW p \in Procs, Save(p) PROVE  Goal
  BY <1>15 DEF Save, Finish, Go, Return, TypeOK, ClientIsAlone, ResumesAll, Restoring
<1>16. ASSUME NEW p \in Procs, CloseStatus(p) PROVE  Goal
  BY <1>16 DEF CloseStatus, Go, Return, TypeOK, ResumesAll
<1>17. ASSUME NEW p \in Procs, Drop(p) PROVE  Goal
  BY <1>17 DEF Drop, Return, ResumesAll
<1>18. ASSUME NEW p \in Procs, Exists(p) PROVE  Goal
  BY <1>18 DEF Exists, Go, Return, TypeOK, ResumesAll
<1>19. ASSUME NEW p \in Procs, Load(p) PROVE  Goal
  BY <1>19 DEF Load, Return, TypeOK, ResumesAll
<1>20. ASSUME NEW p \in Procs, Push(p) PROVE  Goal
  BY <1>20 DEF Push, Go, TypeOK, ClientIsAlone, ResumesAll, Restoring
<1>21. ASSUME NEW p \in Procs, Activate(p) PROVE  Goal
  BY <1>21 DEF Activate, Return, ResumesAll
<1>22. ASSUME NEW p \in Procs, Unlist(p) PROVE  Goal
  BY <1>22 DEF Unlist, Go, ResumesAll
<1>23. ASSUME NEW p \in Procs, Erase(p) PROVE  Goal
  BY <1>23 DEF Erase, Return, ClientIsAlone, ResumesAll, Restoring
<1>24. ASSUME NEW p \in Procs, Raise(p) PROVE  Goal
  BY <1>24 DEF Raise, Return, TypeOK, ResumesAll
<1>25. CASE Expire
  BY <1>25 DEF Expire, ResumesAll
<1>26. CASE Crash
  BY <1>26 DEF Crash, ResumesAll
<1>27. CASE UNCHANGED vars
  BY <1>27 DEF ResumesAll
<1> QED BY <1>1, <1>2, <1>3, <1>4, <1>5, <1>6, <1>7, <1>8, <1>9, <1>10, <1>11, <1>12, <1>13,
           <1>14, <1>15, <1>16, <1>17, <1>18, <1>19, <1>20, <1>21, <1>22, <1>23, <1>24, <1>25,
           <1>26, <1>27 DEF Next, Run

\* Of a session in use Redis has everything, after every step.
LEMMA LeadsStep == InTime /\ Faithful /\ [Next]_vars => RedisLeads'
<1> SUFFICES ASSUME InTime, Faithful, [Next]_vars PROVE RedisLeads'
  OBVIOUS
<1> DEFINE Goal == RedisLeads'
<1> USE DEF Faithful, Orderly
<1>1. CASE Create
  BY <1>1 DEF Create, RedisLeads, NothingBefore
<1>2. CASE Add
  BY <1>2 DEF Add, Start, RedisLeads
<1>3. CASE Checkpoint
  BY <1>3 DEF Checkpoint, EnterCheckpoint, RedisLeads
<1>4. CASE Close
  BY <1>4 DEF Close, EnterCheckpoint, RedisLeads
<1>5. CASE Resume
  BY <1>5 DEF Resume, Start, RedisLeads
<1>6. CASE Delete
  BY <1>6 DEF Delete, Start, RedisLeads
<1>7. CASE Leave
  BY <1>7 DEF Leave, RedisLeads
<1>8. CASE Count
  <2>1. CASE EnterCheckpoint(Client) /\ UNCHANGED op
    <3>1. /\ pc'[Client] = "lock"
          /\ \A q \in Procs \ {Client} : pc'[q] = pc[q] /\ held'[q] = held[q]
      BY <2>1, Enters
    <3> QED BY <1>8, <3>1 DEF Count, RedisLeads
  <2>2. CASE Return(Client)
    <3>1. /\ pc'[Client] = "idle"
          /\ \A q \in Procs \ {Client} : pc'[q] = pc[q] /\ held'[q] = held[q]
      BY <2>2, Returns
    <3> QED BY <1>8, <3>1 DEF Count, RedisLeads
  <2> QED BY <1>8, <2>1, <2>2 DEF Count
<1>9. ASSUME NEW t \in Tasks, AgentAdd(t) PROVE  Goal
  BY <1>9 DEF AgentAdd, RedisLeads
<1>10. ASSUME NEW t \in Tasks, CountWrite(t) PROVE  Goal
  <2>1. CASE EnterCheckpoint(t) /\ UNCHANGED op
    <3>1. /\ pc'[t] = "lock"
          /\ \A q \in Procs \ {t} : pc'[q] = pc[q] /\ held'[q] = held[q]
      BY <2>1, Enters
    <3> QED BY <1>10, <3>1 DEF CountWrite, RedisLeads
  <2>2. CASE Return(t)
    <3>1. /\ pc'[t] = "idle"
          /\ \A q \in Procs \ {t} : pc'[q] = pc[q] /\ held'[q] = held[q]
      BY <2>2, Returns
    <3> QED BY <1>10, <3>1 DEF CountWrite, RedisLeads
  <2> QED BY <1>10, <2>1, <2>2 DEF CountWrite
<1>11. ASSUME NEW p \in Procs, Store(p) PROVE  Goal
  <2>1. redis' # <<>>
    BY <1>11, Stores
  <2> QED BY <2>1 DEF RedisLeads
<1>12. ASSUME NEW p \in Procs, Acquire(p) PROVE  Goal
  BY <1>12 DEF Acquire, Go, RedisLeads
<1>13. ASSUME NEW p \in Procs, Fetch(p) PROVE  Goal
  <2>1. CASE Finish(p) /\ redis = <<>>
    <3>1. /\ pc'[p] \in {"idle", "status"}
          /\ \A q \in Procs \ {p} : pc'[q] = pc[q] /\ held'[q] = held[q]
      BY <2>1, Finishes
    <3> QED BY <1>13, <3>1 DEF Fetch, RedisLeads
  <2>2. CASE redis # <<>>
    <3>1. /\ pc'[p] = "clear" /\ held'[p] = redis
          /\ \A q \in Procs \ {p} : pc'[q] = pc[q] /\ held'[q] = held[q]
      BY <1>13, <2>2 DEF Fetch, TypeOK
    <3> QED BY <1>13, <2>2, <3>1 DEF Fetch, RedisLeads
  <2> QED BY <1>13, <2>1, <2>2 DEF Fetch
<1>14. ASSUME NEW p \in Procs, Clear(p) PROVE  Goal
  BY <1>14 DEF Clear, RedisLeads
<1>15. ASSUME NEW p \in Procs, Save(p) PROVE  Goal
  BY <1>15 DEF Save, RedisLeads
<1>16. ASSUME NEW p \in Procs, CloseStatus(p) PROVE  Goal
  BY <1>16 DEF CloseStatus, Go, Return, TypeOK, RedisLeads
<1>17. ASSUME NEW p \in Procs, Drop(p) PROVE  Goal
  BY <1>17 DEF Drop, Return, TasksPlaced, ClientPlaced, ClientIsAlone, RedisLeads,
     Checkpointing, Critical
<1>18. ASSUME NEW p \in Procs, Exists(p) PROVE  Goal
  BY <1>18 DEF Exists, Go, TypeOK, RedisLeads
<1>19. ASSUME NEW p \in Procs, Load(p) PROVE  Goal
  BY <1>19 DEF Load, Return, TypeOK, RedisLeads
<1>20. ASSUME NEW p \in Procs, Push(p) PROVE  Goal
  <2>1. p = Client /\ redis' = pg /\ pg' = pg
    BY <1>20, Pushes DEF Push
  <2>2. \A t \in Tasks : pc[t] = "idle"
    BY <1>20, <2>1 DEF Push, ClientIsAlone, Restoring
  <2>3. pc'[Client] = "activate" /\ \A t \in Tasks : pc'[t] = pc[t]
    BY <1>20, <2>1 DEF Push, Go, TypeOK
  <2> QED BY <2>1, <2>2, <2>3 DEF RedisLeads
<1>21. ASSUME NEW p \in Procs, Activate(p) PROVE  Goal
  BY <1>21 DEF Activate, Return, TasksPlaced, RedisLeads, Checkpointing, Critical
<1>22. ASSUME NEW p \in Procs, Unlist(p) PROVE  Goal
  BY <1>22 DEF Unlist, Go, TasksPlaced, ClientPlaced, ClientIsAlone, RedisLeads, Checkpointing,
     Critical
<1>23. ASSUME NEW p \in Procs, Erase(p) PROVE  Goal
  BY <1>23 DEF Erase, Return, RedisLeads
<1>24. ASSUME NEW p \in Procs, Raise(p) PROVE  Goal
  BY <1>24 DEF Raise, Return, RedisLeads
<1>25. CASE Expire
  BY <1>25 DEF Expire, RedisLeads, InTime
<1>26. CASE Crash
  BY <1>26 DEF Crash, RedisLeads
<1>27. CASE UNCHANGED vars
  BY <1>27 DEF RedisLeads
<1> QED BY <1>1, <1>2, <1>3, <1>4, <1>5, <1>6, <1>7, <1>8, <1>9, <1>10, <1>11, <1>12, <1>13,
           <1>14, <1>15, <1>16, <1>17, <1>18, <1>19, <1>20, <1>21, <1>22, <1>23, <1>24, <1>25,
           <1>26, <1>27 DEF Next, Run

\* What is still to be stored is new, after every step.
LEMMA NewStep == InTime /\ Faithful /\ [Next]_vars => NewOnes'
<1> SUFFICES ASSUME InTime, Faithful, [Next]_vars PROVE NewOnes'
  OBVIOUS
<1> DEFINE Goal == NewOnes'
<1> USE DEF Faithful, Orderly
<1>1. CASE Create
  BY <1>1 DEF Create, NewOnes
<1>2. CASE Add
  <2>1. PICK n \in Nat : MakesNew(Client, n)
    BY <1>2, AddMakesNew
  <2> QED BY <2>1, NewStaysNew
<1>3. CASE Checkpoint
  BY <1>3 DEF Checkpoint, EnterCheckpoint, TypeOK, NewOnes
<1>4. CASE Close
  BY <1>4 DEF Close, EnterCheckpoint, TypeOK, NewOnes
<1>5. CASE Resume
  BY <1>5 DEF Resume, Start, NewOnes
<1>6. CASE Delete
  BY <1>6 DEF Delete, Start, NewOnes
<1>7. CASE Leave
  BY <1>7 DEF Leave, NewOnes
<1>8. CASE Count
  <2>1. CASE EnterCheckpoint(Client) /\ UNCHANGED op
    <3>1. /\ pc'[Client] = "lock"
          /\ \A q \in Procs \ {Client} : pc'[q] = pc[q] /\ held'[q] = held[q]
      BY <2>1, Enters
    <3> QED BY <1>8, <3>1 DEF Count, NewOnes
  <2>2. CASE Return(Client)
    <3>1. /\ pc'[Client] = "idle"
          /\ \A q \in Procs \ {Client} : pc'[q] = pc[q] /\ held'[q] = held[q]
      BY <2>2, Returns
    <3> QED BY <1>8, <3>1 DEF Count, NewOnes
  <2> QED BY <1>8, <2>1, <2>2 DEF Count
<1>9. ASSUME NEW t \in Tasks, AgentAdd(t) PROVE  Goal
  <2>1. MakesNew(t, 1)
    BY <1>9, AgentMakesNew
  <2> QED BY <2>1, NewStaysNew
<1>10. ASSUME NEW t \in Tasks, CountWrite(t) PROVE  Goal
  <2>1. CASE EnterCheckpoint(t) /\ UNCHANGED op
    <3>1. /\ pc'[t] = "lock"
          /\ \A q \in Procs \ {t} : pc'[q] = pc[q] /\ held'[q] = held[q]
      BY <2>1, Enters
    <3> QED BY <1>10, <3>1 DEF CountWrite, NewOnes
  <2>2. CASE Return(t)
    <3>1. /\ pc'[t] = "idle"
          /\ \A q \in Procs \ {t} : pc'[q] = pc[q] /\ held'[q] = held[q]
      BY <2>2, Returns
    <3> QED BY <1>10, <3>1 DEF CountWrite, NewOnes
  <2> QED BY <1>10, <2>1, <2>2 DEF CountWrite
<1>11. ASSUME NEW p \in Procs, Store(p) PROVE  Goal
  <2>1. Among(redis') \subseteq Among(redis) \cup Among(held[p])
    BY <1>11, Stores
  <2>2. pc'[p] = "count" /\ (\A q \in Procs \ {p} : pc'[q] = pc[q]) /\ held' = held
    BY <1>11 DEF Store, Go, TypeOK
  <2>3. pc[p] = "store"
    BY <1>11 DEF Store
  <2> QED BY <2>1, <2>2, <2>3 DEF NewOnes
<1>12. ASSUME NEW p \in Procs, Acquire(p) PROVE  Goal
  BY <1>12 DEF Acquire, Go, NewOnes
<1>13. ASSUME NEW p \in Procs, Fetch(p) PROVE  Goal
  <2>1. CASE Finish(p) /\ redis = <<>>
    <3>1. /\ pc'[p] \in {"idle", "status"}
          /\ \A q \in Procs \ {p} : pc'[q] = pc[q] /\ held'[q] = held[q]
      BY <2>1, Finishes
    <3> QED BY <1>13, <3>1 DEF Fetch, NewOnes
  <2>2. CASE redis # <<>>
    <3>1. /\ pc'[p] = "clear" /\ held'[p] = redis
          /\ \A q \in Procs \ {p} : pc'[q] = pc[q] /\ held'[q] = held[q]
      BY <1>13, <2>2 DEF Fetch, TypeOK
    <3> QED BY <1>13, <2>2, <3>1 DEF Fetch, NewOnes
  <2> QED BY <1>13, <2>1, <2>2 DEF Fetch
<1>14. ASSUME NEW p \in Procs, Clear(p) PROVE  Goal
  BY <1>14 DEF Clear, Go, TypeOK, NewOnes
<1>15. ASSUME NEW p \in Procs, Save(p) PROVE  Goal
  <2>1. /\ pg' = held[p] /\ saved' = held[p] /\ Finish(p) /\ pc[p] = "save"
        /\ UNCHANGED <<redis, status, writes, epoch, user>>
    BY <1>15, Saves DEF Save
  <2>2. /\ pc'[p] \in {"idle", "status"}
        /\ \A q \in Procs \ {p} : pc'[q] = pc[q] /\ held'[q] = held[q]
    BY <2>1, Finishes
  <2> QED BY <2>1, <2>2 DEF NewOnes
<1>16. ASSUME NEW p \in Procs, CloseStatus(p) PROVE  Goal
  BY <1>16 DEF CloseStatus, Go, Return, TypeOK, NewOnes
<1>17. ASSUME NEW p \in Procs, Drop(p) PROVE  Goal
  BY <1>17 DEF Drop, Return, TasksPlaced, ClientPlaced, ClientIsAlone, NewOnes, Checkpointing,
     Critical
<1>18. ASSUME NEW p \in Procs, Exists(p) PROVE  Goal
  <2>1. /\ pc'[p] \in {"idle", "load"}
        /\ \A q \in Procs \ {p} : pc'[q] = pc[q] /\ held'[q] = held[q]
    <3>1. CASE Return(p)
      BY <3>1, Returns
    <3>2. CASE Go(p, "load")
      <4>1. "load" \in Points
        BY DEF Points
      <4> QED BY <3>2, <4>1, Goes
    <3> QED BY <1>18, <3>1, <3>2 DEF Exists
  <2> QED BY <1>18, <2>1 DEF Exists, NewOnes
<1>19. ASSUME NEW p \in Procs, Load(p) PROVE  Goal
  BY <1>19 DEF Load, Return, TypeOK, NewOnes
<1>20. ASSUME NEW p \in Procs, Push(p) PROVE  Goal
  BY <1>20 DEF Push, Go, TasksPlaced, ClientIsAlone, NewOnes, Restoring, Checkpointing, Critical
<1>21. ASSUME NEW p \in Procs, Activate(p) PROVE  Goal
  BY <1>21 DEF Activate, Return, TypeOK, NewOnes
<1>22. ASSUME NEW p \in Procs, Unlist(p) PROVE  Goal
  BY <1>22 DEF Unlist, Go, TasksPlaced, ClientPlaced, ClientIsAlone, NewOnes, Checkpointing,
     Critical
<1>23. ASSUME NEW p \in Procs, Erase(p) PROVE  Goal
  BY <1>23 DEF Erase, Return, TypeOK, NewOnes
<1>24. ASSUME NEW p \in Procs, Raise(p) PROVE  Goal
  BY <1>24 DEF Raise, Return, TypeOK, NewOnes
<1>25. CASE Expire
  BY <1>25 DEF Expire, NewOnes
<1>26. CASE Crash
  BY <1>26 DEF Crash, NewOnes
<1>27. CASE UNCHANGED vars
  BY <1>27 DEF NewOnes
<1> QED BY <1>1, <1>2, <1>3, <1>4, <1>5, <1>6, <1>7, <1>8, <1>9, <1>10, <1>11, <1>12, <1>13,
           <1>14, <1>15, <1>16, <1>17, <1>18, <1>19, <1>20, <1>21, <1>22, <1>23, <1>24, <1>25,
           <1>26, <1>27 DEF Next, Run

\* Every list is without repetitions and within the cap, after every step.
LEMMA ListsStep == InTime /\ Faithful /\ [Next]_vars => ListsProper'
<1> SUFFICES ASSUME InTime, Faithful, [Next]_vars PROVE ListsProper'
  OBVIOUS
<1> DEFINE Goal == ListsProper'
<1> USE DEF Faithful, Orderly
<1>1. CASE Create
  BY <1>1, EmptyProper DEF Create, ListsProper, Proper
<1>2. CASE Add
  <2>1. PICK n \in Nat : MakesNew(Client, n)
    BY <1>2, AddMakesNew
  <2> QED BY <2>1, NewIsProper
<1>3. CASE Checkpoint
  BY <1>3, EmptyProper DEF Checkpoint, EnterCheckpoint, ListsProper, Proper
<1>4. CASE Close
  BY <1>4, EmptyProper DEF Close, EnterCheckpoint, ListsProper, Proper
<1>5. CASE Resume
  BY <1>5, EmptyProper DEF Resume, Start, ListsProper, Proper
<1>6. CASE Delete
  BY <1>6, EmptyProper DEF Delete, Start, ListsProper, Proper
<1>7. CASE Leave
  BY <1>7, EmptyProper DEF Leave, ListsProper, Proper
<1>8. CASE Count
  BY <1>8, EmptyProper DEF Count, EnterCheckpoint, Return, TypeOK, ListsProper, Proper
<1>9. ASSUME NEW t \in Tasks, AgentAdd(t) PROVE  Goal
  <2>1. MakesNew(t, 1)
    BY <1>9, AgentMakesNew
  <2> QED BY <2>1, NewIsProper
<1>10. ASSUME NEW t \in Tasks, CountWrite(t) PROVE  Goal
  BY <1>10, EmptyProper DEF CountWrite, EnterCheckpoint, Return, TypeOK, ListsProper, Proper
<1>11. ASSUME NEW p \in Procs, Store(p) PROVE  Goal
  <2>1. redis' \in Seq(1..sent) /\ Once(redis') /\ Fits(redis')
    BY <1>11, Stores
  <2>2. /\ pc'[p] = "count" /\ (\A q \in Procs \ {p} : pc'[q] = pc[q])
        /\ held' = held /\ sent' = sent /\ pg' = pg
    BY <1>11 DEF Store, Go, TypeOK
  <2> QED BY <2>1, <2>2 DEF ListsProper, Proper
<1>12. ASSUME NEW p \in Procs, Acquire(p) PROVE  Goal
  BY <1>12, EmptyProper DEF Acquire, Go, ListsProper, Proper
<1>13. ASSUME NEW p \in Procs, Fetch(p) PROVE  Goal
  <2>1. CASE Finish(p) /\ redis = <<>>
    <3>1. /\ pc'[p] \in {"idle", "status"}
          /\ \A q \in Procs \ {p} : pc'[q] = pc[q] /\ held'[q] = held[q]
      BY <2>1, Finishes
    <3> QED BY <1>13, <3>1 DEF Fetch, ListsProper, Proper
  <2>2. CASE redis # <<>>
    <3>1. /\ pc'[p] = "clear" /\ held'[p] = redis
          /\ \A q \in Procs \ {p} : pc'[q] = pc[q] /\ held'[q] = held[q]
      BY <1>13, <2>2 DEF Fetch, TypeOK
    <3> QED BY <1>13, <2>2, <3>1 DEF Fetch, ListsProper, Proper
  <2> QED BY <1>13, <2>1, <2>2 DEF Fetch
<1>14. ASSUME NEW p \in Procs, Clear(p) PROVE  Goal
  BY <1>14, EmptyProper DEF Clear, Go, ListsProper, Proper
<1>15. ASSUME NEW p \in Procs, Save(p) PROVE  Goal
  <2>1. /\ pg' = held[p] /\ Finish(p) /\ pc[p] = "save" /\ redis' = redis /\ sent' = sent
    BY <1>15, Saves DEF Save
  <2>2. /\ pc'[p] \in {"idle", "status"}
        /\ \A q \in Procs \ {p} : pc'[q] = pc[q] /\ held'[q] = held[q]
    BY <2>1, Finishes
  <2> QED BY <2>1, <2>2 DEF ListsProper, Proper
<1>16. ASSUME NEW p \in Procs, CloseStatus(p) PROVE  Goal
  BY <1>16, EmptyProper DEF CloseStatus, Go, Return, TypeOK, ListsProper, Proper
<1>17. ASSUME NEW p \in Procs, Drop(p) PROVE  Goal
  BY <1>17, EmptyProper DEF Drop, Return, ListsProper, Proper
<1>18. ASSUME NEW p \in Procs, Exists(p) PROVE  Goal
  <2>1. /\ pc'[p] \in {"idle", "load"}
        /\ \A q \in Procs \ {p} : pc'[q] = pc[q] /\ held'[q] = held[q]
    <3>1. CASE Return(p)
      BY <3>1, Returns
    <3>2. CASE Go(p, "load")
      <4>1. "load" \in Points
        BY DEF Points
      <4> QED BY <3>2, <4>1, Goes
    <3> QED BY <1>18, <3>1, <3>2 DEF Exists
  <2> QED BY <1>18, <2>1 DEF Exists, ListsProper, Proper
<1>19. ASSUME NEW p \in Procs, Load(p) PROVE  Goal
  BY <1>19, EmptyProper DEF Load, Return, TypeOK, ListsProper, Proper
<1>20. ASSUME NEW p \in Procs, Push(p) PROVE  Goal
  <2>1. redis' = pg
    BY <1>20, Pushes
  <2>2. /\ pc'[p] = "activate" /\ (\A q \in Procs \ {p} : pc'[q] = pc[q])
        /\ held' = held /\ sent' = sent /\ pg' = pg
    BY <1>20 DEF Push, Go, TypeOK
  <2> QED BY <2>1, <2>2 DEF ListsProper, Proper
<1>21. ASSUME NEW p \in Procs, Activate(p) PROVE  Goal
  BY <1>21, EmptyProper DEF Activate, Return, ListsProper, Proper
<1>22. ASSUME NEW p \in Procs, Unlist(p) PROVE  Goal
  BY <1>22, EmptyProper DEF Unlist, Go, ListsProper, Proper
<1>23. ASSUME NEW p \in Procs, Erase(p) PROVE  Goal
  BY <1>23, EmptyProper DEF Erase, Return, ListsProper, Proper
<1>24. ASSUME NEW p \in Procs, Raise(p) PROVE  Goal
  BY <1>24, EmptyProper DEF Raise, Return, TypeOK, ListsProper, Proper
<1>25. CASE Expire
  BY <1>25, EmptyProper DEF Expire, ListsProper, Proper
<1>26. CASE Crash
  BY <1>26, EmptyProper DEF Crash, ListsProper, Proper
<1>27. CASE UNCHANGED vars
  BY <1>27, EmptyProper DEF ListsProper, Proper
<1> QED BY <1>1, <1>2, <1>3, <1>4, <1>5, <1>6, <1>7, <1>8, <1>9, <1>10, <1>11, <1>12, <1>13,
           <1>14, <1>15, <1>16, <1>17, <1>18, <1>19, <1>20, <1>21, <1>22, <1>23, <1>24, <1>25,
           <1>26, <1>27 DEF Next, Run
-----------------------------------------------------------------------------
\* The invariant of the history holds at the start.
LEMMA InitFaithful == Init => Faithful
BY InitOrderly, EmptyProper DEF Init, Faithful, ListsProper, NewOnes, RedisLeads, ResumesAll,
   ClosesAll

\* It is inductive within the environment of InTime.
LEMMA StepFaithful == InTime /\ Faithful /\ [Next]_vars => Faithful'
<1> SUFFICES ASSUME InTime, Faithful, [Next]_vars PROVE Faithful'
  OBVIOUS
<1>1. Orderly'
  BY StepOrderly DEF Faithful, InTime, Punctual
<1> QED BY <1>1, ListsStep, NewStep, LeadsStep, ResumesStep, ClosesStep DEF Faithful

\* The cardinality of an interval.
LEMMA UpTo == ASSUME NEW n \in Nat PROVE IsFiniteSet(1..n) /\ Cardinality(1..n) = n
<1>1. \A a, b \in Int : /\ IsFiniteSet(a..b) /\ Cardinality(a..b) = IF a > b THEN 0 ELSE b - a + 1
  BY FS_Interval, Zenon
<1>2. 1 \in Int /\ n \in Int
  OBVIOUS
<1>3. IsFiniteSet(1..n) /\ Cardinality(1..n) = IF 1 > n THEN 0 ELSE n - 1 + 1
  BY <1>1, <1>2, Zenon
<1>4. (IF 1 > n THEN 0 ELSE n - 1 + 1) = n
  OBVIOUS
<1> QED BY <1>3, <1>4

\* A list of n messages without repetitions is no longer than n.
LEMMA OnceIsShort ==
    ASSUME NEW n \in Nat, NEW s \in Seq(1..n), Once(s)
    PROVE  Len(s) <= n
<1>1. Len(s) \in Nat /\ s \in [1..Len(s) -> 1..n]
  BY LenProperties
<1>2. /\ IsFiniteSet(1..n) /\ Cardinality(1..n) = n
      /\ IsFiniteSet(1..Len(s)) /\ Cardinality(1..Len(s)) = Len(s)
  BY <1>1, UpTo
<1>3. ASSUME n < Len(s) PROVE FALSE
  <2>1. Cardinality(1..n) < Cardinality(1..Len(s))
    BY <1>2, <1>3
  <2>2. \E i, j \in 1..Len(s) : i # j /\ s[i] = s[j]
    BY <1>1, <1>2, <2>1, FS_PigeonHole
  <2> QED BY <2>2 DEF Once
<1> QED BY <1>1, <1>3

\* The window of the promise and the trimming of the list are the same.
LEMMA TrimIsWindow ==
    ASSUME NEW s \in Seq(Msgs), Once(s)
    PROVE  Trim(s) = History!Window(s)
<1>1. Len(s) \in Nat /\ MaxMsgs \in Nat /\ Cap \in Nat
  BY LenProperties
<1>2. Len(s) <= MaxMsgs
  BY <1>1, OnceIsShort DEF Msgs
<1>3. SubSeq(s, 1, Len(s)) = s
  BY SubSeqFull
<1>4. CASE Cap = 0
  <2>1. ~(Len(s) > MaxMsgs)
    BY <1>1, <1>2
  <2> QED BY <1>3, <1>4, <2>1 DEF Trim, History!Window
<1>5. CASE Cap # 0
  <2>1. (Len(s) <= Cap) <=> ~(Len(s) > Cap)
    BY <1>1
  <2> QED BY <1>3, <1>5, <2>1 DEF Trim, History!Window
<1> QED BY <1>4, <1>5

HSaved == IF use = "doomed" THEN <<>> ELSE saved
Promised == <<View, Reading, HSaved>>
Reader(p) == pc[p] \in {"clear", "save"}

\* What a checkpoint has read is what its coroutine holds.
ReadIsHeld == \A p \in Procs : Reader(p) => Reading = held[p]
NothingRead == (\A p \in Procs : ~Reader(p)) => Reading = <<>>

\* The list a checkpoint has read, when there is one checkpoint.
LEMMA ReadingIs == OneCheckpoint => ReadIsHeld
<1> SUFFICES ASSUME OneCheckpoint, NEW p \in Procs, Reader(p) PROVE Reading = held[p]
  BY DEF ReadIsHeld
<1>1. {q \in Procs : pc[q] \in {"clear", "save"}} = {p}
  BY DEF Reader, OneCheckpoint, Critical
<1>2. (CHOOSE q \in {p} : TRUE) = p
  OBVIOUS
<1>3. {p} # {}
  OBVIOUS
<1> QED BY <1>1, <1>2, <1>3 DEF Reading

\* And when there is none.
LEMMA NobodyReads == NothingRead
BY DEF NothingRead, Reading, Reader

\* It changes only with a checkpoint's own steps.
LEMMA ReadingStays ==
    ASSUME \A p \in Procs : pc'[p] \in {"clear", "save"} <=> pc[p] \in {"clear", "save"},
           \A p \in Procs : pc[p] \in {"clear", "save"} => held'[p] = held[p]
    PROVE  Reading' = Reading
<1> DEFINE at == {p \in Procs : pc[p] \in {"clear", "save"}}
           at1 == {p \in Procs : pc'[p] \in {"clear", "save"}}
<1>1. at1 = at
  OBVIOUS
<1>2. ASSUME at # {} PROVE held'[CHOOSE p \in at : TRUE] = held[CHOOSE p \in at : TRUE]
  <2>1. (CHOOSE p \in at : TRUE) \in at
    BY <1>2
  <2> HIDE DEF at
  <2>2. \A p \in at : held'[p] = held[p]
    BY DEF at
  <2> QED BY <2>1, <2>2
<1>3. /\ Reading = IF at = {} THEN <<>> ELSE held[CHOOSE p \in at : TRUE]
      /\ Reading' = IF at1 = {} THEN <<>> ELSE held'[CHOOSE p \in at1 : TRUE]
  BY DEF Reading
<1> HIDE DEF at, at1
<1> QED BY <1>1, <1>2, <1>3

\* A write is an Add of the history.
LEMMA StoreAdds == ASSUME Faithful, NEW p \in Procs, Store(p) PROVE History!Add
<1> DEFINE all == redis \o held[p]
           batch == held[p]
<1>1. /\ all \in Seq(1..sent) /\ Once(all) /\ redis' = Trim(all) /\ redis' # <<>>
  BY Stores
<1>2. /\ redis \in Seq(1..sent) /\ batch \in Seq(1..sent) /\ Once(batch) /\ batch # <<>>
      /\ Among(batch) \cap Among(redis) = {} /\ sent \in 0..MaxMsgs /\ redis \in Seq(Msgs)
  BY DEF Store, Faithful, Orderly, TypeOK, ListsProper, NewOnes, Proper
<1>3. View = redis /\ View' = redis'
  <2>1. status # "none" /\ use # "doomed" /\ redis = <<>> => pg = <<>>
    BY DEF Store, Faithful, RedisLeads
  <2>2. status # "none" /\ use # "doomed"
    BY DEF Store, Faithful, Orderly, NothingBefore, ClientPlaced, ClientIsAlone
  <2>3. View = redis
    BY <2>1, <2>2 DEF View
  <2>4. status' = status /\ use' = use
    BY DEF Store
  <2> QED BY <1>1, <2>2, <2>3, <2>4 DEF View
<1>4. Reading' = Reading /\ HSaved' = HSaved
  <2>1. pc'[p] = "count" /\ (\A q \in Procs \ {p} : pc'[q] = pc[q]) /\ held' = held /\ pc[p] = "store"
    BY DEF Store, Go, Faithful, Orderly, TypeOK
  <2>2. Reading' = Reading
    BY <2>1, ReadingStays
  <2> QED BY <2>2 DEF HSaved, Store
<1> DEFINE new == Msgs \ {View[i] : i \in 1..Len(View)}
<1>5. Len(batch) \in 1..MaxMsgs
  <2>1. Len(batch) \in Nat /\ Len(batch) <= sent /\ Len(batch) # 0
    BY <1>2, OnceIsShort, LenProperties, EmptySeq
  <2> QED BY <1>2, <2>1
<1>6. batch \in [1..Len(batch) -> new]
  <2>1. batch \in [1..Len(batch) -> 1..sent]
    BY <1>2, LenProperties
  <2>2. ASSUME NEW i \in 1..Len(batch) PROVE batch[i] \in new
    <3>1. batch[i] \in Msgs
      <4>1. batch[i] \in 1..sent
        BY <2>1
      <4>2. 1..sent \subseteq 1..MaxMsgs
        BY <1>2
      <4> QED BY <4>1, <4>2 DEF Msgs
    <3>2. batch[i] \notin Among(redis)
      BY <1>2 DEF Among
    <3> QED BY <1>3, <3>1, <3>2 DEF Among
  <2> HIDE DEF new, batch
  <2> QED BY <2>1, <2>2
<1>7. View' = History!Window(View \o batch)
  <2>1. 1..sent \subseteq Msgs
    BY <1>2 DEF Msgs
  <2>2. all \in Seq(Msgs)
    BY <1>1, <2>1, SeqMonotonic
  <2>3. Trim(all) = History!Window(all)
    BY <1>1, <2>2, TrimIsWindow
  <2> QED BY <1>1, <1>3, <2>3
<1>8. \A i, j \in 1..Len(batch) : batch[i] = batch[j] => i = j
  BY <1>2 DEF Once
<1>9. \E n \in 1..MaxMsgs : \E s \in [1..n -> new] :
         /\ \A i, j \in 1..n : s[i] = s[j] => i = j
         /\ View' = History!Window(View \o s)
  <2> HIDE DEF batch, new
  <2> QED BY <1>5, <1>6, <1>7, <1>8
<1>10. UNCHANGED <<Reading, IF use = "doomed" THEN <<>> ELSE saved>>
  BY <1>4 DEF HSaved
<1> QED BY <1>9, <1>10 DEF History!Add, History!New


\* Every step is one of the history, or none.
LEMMA StepKeepsHistory ==
    InTime /\ Faithful /\ Faithful' /\ [Next]_vars => History!Next \/ UNCHANGED Promised
<1> SUFFICES ASSUME InTime, Faithful, Faithful', [Next]_vars
         PROVE  History!Next \/ UNCHANGED Promised
  OBVIOUS
<1> DEFINE Goal == History!Next \/ UNCHANGED Promised
<1>0. ReadIsHeld /\ ReadIsHeld' /\ NothingRead /\ NothingRead'
  <2>1. ReadIsHeld'
    BY ReadingIs, PTL DEF Faithful, Orderly
  <2>2. NothingRead'
    BY NobodyReads, PTL
  <2> QED BY <2>1, <2>2, ReadingIs, NobodyReads DEF Faithful, Orderly
<1> USE DEF Faithful, Orderly
<1>1. CASE Create
  <2>1. Reading' = Reading
    BY <1>1, ReadingStays DEF Create, TypeOK
  <2>2. View' = View /\ HSaved' = HSaved
    BY <1>1 DEF View, HSaved, Create, NothingBefore
  <2> QED BY <2>1, <2>2 DEF Promised
<1>2. CASE Add
  <2>1. Reading' = Reading
    BY <1>2, ReadingStays DEF Add, Start, TypeOK
  <2>2. View' = View /\ HSaved' = HSaved
    BY <1>2 DEF View, HSaved, Add, Start
  <2> QED BY <2>1, <2>2 DEF Promised
<1>3. CASE Checkpoint
  <2>1. Reading' = Reading
    BY <1>3, ReadingStays DEF Checkpoint, EnterCheckpoint, TypeOK
  <2>2. View' = View /\ HSaved' = HSaved
    BY <1>3 DEF View, HSaved, Checkpoint
  <2> QED BY <2>1, <2>2 DEF Promised
<1>4. CASE Close
  <2>1. Reading' = Reading
    BY <1>4, ReadingStays DEF Close, EnterCheckpoint, TypeOK
  <2>2. View' = View /\ HSaved' = HSaved
    BY <1>4 DEF View, HSaved, Close
  <2> QED BY <2>1, <2>2 DEF Promised
<1>5. CASE Resume
  <2>1. Reading' = Reading
    BY <1>5, ReadingStays DEF Resume, Start, TypeOK
  <2>2. View' = View /\ HSaved' = HSaved
    BY <1>5 DEF View, HSaved, Resume, Start
  <2> QED BY <2>1, <2>2 DEF Promised
<1>6. CASE Delete
  <2>1. \A p \in Procs : ~Reader(p)'
    BY <1>6 DEF Delete, Start, Quiet, InTime, Reader
  <2>2. Reading' = <<>>
    BY <1>0, <2>1 DEF NothingRead
  <2>3. View' = <<>> /\ HSaved' = <<>>
    BY <1>6 DEF Delete, View, HSaved
  <2> QED BY <2>2, <2>3 DEF History!Next, History!Delete, HSaved
<1>7. CASE Leave
  <2>1. Reading' = Reading
    BY <1>7, ReadingStays DEF Leave, TypeOK
  <2>2. View' = View /\ HSaved' = HSaved
    BY <1>7 DEF View, HSaved, Leave
  <2> QED BY <2>1, <2>2 DEF Promised
<1>8. CASE Count
  <2>1. Reading' = Reading
    <3>1. CASE EnterCheckpoint(Client)
      BY <1>8, <3>1, ReadingStays DEF Count, EnterCheckpoint, TypeOK
    <3>2. CASE Return(Client)
      BY <1>8, <3>2, ReadingStays DEF Count, Return, TypeOK
    <3> QED BY <1>8, <3>1, <3>2 DEF Count
  <2>2. View' = View /\ HSaved' = HSaved
    BY <1>8 DEF Count, View, HSaved
  <2> QED BY <2>1, <2>2 DEF Promised
<1>9. ASSUME NEW t \in Tasks, AgentAdd(t) PROVE  Goal
  <2>1. Reading' = Reading
    BY <1>9, ReadingStays DEF AgentAdd, TypeOK
  <2>2. View' = View /\ HSaved' = HSaved
    BY <1>9 DEF View, HSaved, AgentAdd
  <2> QED BY <2>1, <2>2 DEF Promised
<1>10. ASSUME NEW t \in Tasks, CountWrite(t) PROVE  Goal
  <2>1. Reading' = Reading
    <3>1. CASE EnterCheckpoint(t)
      BY <1>10, <3>1, ReadingStays DEF CountWrite, EnterCheckpoint, TypeOK
    <3>2. CASE Return(t)
      BY <1>10, <3>2, ReadingStays DEF CountWrite, Return, TypeOK
    <3> QED BY <1>10, <3>1, <3>2 DEF CountWrite
  <2>2. View' = View /\ HSaved' = HSaved
    BY <1>10 DEF CountWrite, View, HSaved
  <2> QED BY <2>1, <2>2 DEF Promised
<1>11. ASSUME NEW p \in Procs, Store(p) PROVE  Goal
  BY <1>11, StoreAdds DEF History!Next
<1>12. ASSUME NEW p \in Procs, Acquire(p) PROVE  Goal
  <2>1. Reading' = Reading
    BY <1>12, ReadingStays DEF Acquire, Go
  <2>2. View' = View /\ HSaved' = HSaved
    BY <1>12 DEF View, HSaved, Acquire
  <2> QED BY <2>1, <2>2 DEF Promised
<1>13. ASSUME NEW p \in Procs, Fetch(p) PROVE  Goal
  <2>1. CASE redis = <<>>
    <3>1. Finish(p) /\ pc[p] = "fetch"
      BY <1>13, <2>1 DEF Fetch
    <3>2. /\ pc'[p] \in {"idle", "status"}
          /\ \A q \in Procs \ {p} : pc'[q] = pc[q] /\ held'[q] = held[q]
      BY <3>1, Finishes
    <3>3. Reading' = Reading
      BY <3>1, <3>2, ReadingStays
    <3>4. View' = View /\ HSaved' = HSaved
      BY <1>13 DEF Fetch, View, HSaved
    <3> QED BY <3>3, <3>4 DEF Promised
  <2>2. CASE redis # <<>>
    <3>1. pc'[p] = "clear" /\ held'[p] = redis
      BY <1>13, <2>2 DEF Fetch, TypeOK
    <3>2. Reading' = redis
      BY <1>0, <3>1 DEF ReadIsHeld, Reader
    <3>3. View = redis /\ View' = View /\ HSaved' = HSaved
      <4>1. status # "none" /\ use # "doomed"
        BY <1>13 DEF Fetch, NothingBefore, ClientPlaced, ClientIsAlone
      <4> QED BY <1>13, <2>2, <4>1 DEF Fetch, View, HSaved
    <3> QED BY <3>2, <3>3 DEF History!Next, History!Read, HSaved
  <2> QED BY <2>1, <2>2
<1>14. ASSUME NEW p \in Procs, Clear(p) PROVE  Goal
  <2>1. Reading' = Reading
    BY <1>14, ReadingStays DEF Clear, Go, TypeOK
  <2>2. redis # <<>>
    BY <1>14 DEF Clear, RedisLeads
  <2>3. View' = View /\ HSaved' = HSaved
    BY <1>14, <2>2 DEF Clear, View, HSaved
  <2> QED BY <2>1, <2>3 DEF Promised
<1>15. ASSUME NEW p \in Procs, Save(p) PROVE  Goal
  <2>1. /\ pg' = held[p] /\ saved' = held[p] /\ Finish(p) /\ pc[p] = "save"
        /\ UNCHANGED <<redis, status, writes, epoch, user>>
    BY <1>15, Saves DEF Save
  <2>2. /\ pc'[p] \in {"idle", "status"}
        /\ \A q \in Procs \ {p} : pc'[q] = pc[q]
    BY <2>1, Finishes
  <2>3. Reading = held[p]
    BY <1>0, <2>1 DEF ReadIsHeld, Reader
  <2>4. Reading' = <<>>
    <3>1. \A q \in Procs : ~Reader(q)'
      BY <2>1, <2>2 DEF Reader, OneCheckpoint, Critical
    <3> QED BY <1>0, <3>1 DEF NothingRead
  <2>5. use # "doomed" /\ redis # <<>>
    BY <2>1 DEF RedisLeads, ClientPlaced, ClientIsAlone
  <2>6. View' = View /\ HSaved' = held[p]
    BY <2>1, <2>5 DEF View, HSaved
  <2> QED BY <2>3, <2>4, <2>6 DEF History!Next, History!Save, HSaved
<1>16. ASSUME NEW p \in Procs, CloseStatus(p) PROVE  Goal
  <2>1. Reading' = Reading
    <3>1. CASE Go(p, "drop")
      BY <1>16, <3>1, ReadingStays DEF CloseStatus, Go, TypeOK
    <3>2. CASE Return(p)
      BY <1>16, <3>2, ReadingStays DEF CloseStatus, Return, TypeOK
    <3> QED BY <1>16, <3>1, <3>2 DEF CloseStatus
  <2>2. View' = View /\ HSaved' = HSaved
    BY <1>16 DEF CloseStatus, View, HSaved
  <2> QED BY <2>1, <2>2 DEF Promised
<1>17. ASSUME NEW p \in Procs, Drop(p) PROVE  Goal
  <2>1. Reading' = Reading
    BY <1>17, ReadingStays DEF Drop, Return, TypeOK
  <2>2. p = Client
    BY <1>17 DEF Drop, TasksPlaced, Checkpointing, Critical
  <2>3. redis \in {<<>>, pg} /\ use # "doomed"
    BY <1>17, <2>2 DEF Drop, ClosesAll, ClientPlaced
  <2>4. View' = View /\ HSaved' = HSaved
    BY <1>17, <2>3 DEF Drop, View, HSaved
  <2> QED BY <2>1, <2>4 DEF Promised
<1>18. ASSUME NEW p \in Procs, Exists(p) PROVE  Goal
  <2>1. Reading' = Reading
    <3>1. CASE Go(p, "load")
      BY <1>18, <3>1, ReadingStays DEF Exists, Go, TypeOK
    <3>2. CASE Return(p)
      BY <1>18, <3>2, ReadingStays DEF Exists, Return, TypeOK
    <3> QED BY <1>18, <3>1, <3>2 DEF Exists
  <2>2. View' = View /\ HSaved' = HSaved
    BY <1>18 DEF Exists, View, HSaved, ClientPlaced, TasksPlaced, Checkpointing, Critical
  <2> QED BY <2>1, <2>2 DEF Promised
<1>19. ASSUME NEW p \in Procs, Load(p) PROVE  Goal
  <2>1. Reading' = Reading
    <3>1. CASE Return(p)
      BY <1>19, <3>1, ReadingStays DEF Load, Return, TypeOK
    <3>2. CASE status # "none"
      BY <1>19, <3>2, ReadingStays DEF Load, TypeOK
    <3> QED BY <1>19, <3>1, <3>2 DEF Load
  <2>2. View' = View /\ HSaved' = HSaved
    BY <1>19 DEF Load, View, HSaved
  <2> QED BY <2>1, <2>2 DEF Promised
<1>20. ASSUME NEW p \in Procs, Push(p) PROVE  Goal
  <2>1. Reading' = Reading
    BY <1>20, ReadingStays DEF Push, Go, TypeOK
  <2>2. redis = <<>> /\ redis' = pg /\ pg' = pg
    BY <1>20, Pushes DEF Push
  <2>3. View' = View /\ HSaved' = HSaved
    BY <1>20, <2>2 DEF Push, View, HSaved
  <2> QED BY <2>1, <2>3 DEF Promised
<1>21. ASSUME NEW p \in Procs, Activate(p) PROVE  Goal
  <2>1. Reading' = Reading
    BY <1>21, ReadingStays DEF Activate, Return, TypeOK
  <2>2. View' = View /\ HSaved' = HSaved
    BY <1>21 DEF View, HSaved, Activate, ClientPlaced, TasksPlaced, Checkpointing, Critical
  <2> QED BY <2>1, <2>2 DEF Promised
<1>22. ASSUME NEW p \in Procs, Unlist(p) PROVE  Goal
  <2>1. Reading' = Reading
    BY <1>22, ReadingStays DEF Unlist, Go, TypeOK
  <2>2. View' = View /\ HSaved' = HSaved
    BY <1>22 DEF View, HSaved, Unlist, ClientPlaced, TasksPlaced, Checkpointing, Critical
  <2> QED BY <2>1, <2>2 DEF Promised
<1>23. ASSUME NEW p \in Procs, Erase(p) PROVE  Goal
  <2>1. Reading' = Reading
    BY <1>23, ReadingStays DEF Erase, Return, TypeOK
  <2>2. View' = View /\ HSaved' = HSaved
    BY <1>23 DEF View, HSaved, Erase, ClientPlaced, TasksPlaced, Checkpointing, Critical
  <2> QED BY <2>1, <2>2 DEF Promised
<1>24. ASSUME NEW p \in Procs, Raise(p) PROVE  Goal
  <2>1. Return(p) /\ View' = View /\ HSaved' = HSaved
    BY <1>24 DEF Raise, View, HSaved
  <2>2. /\ pc'[p] = "idle"
        /\ \A q \in Procs \ {p} : pc'[q] = pc[q] /\ held'[q] = held[q]
    BY <2>1, Returns
  <2>3. CASE Reader(p)
    <3>1. \A q \in Procs : ~Reader(q)'
      BY <2>2, <2>3 DEF Reader, OneCheckpoint, Critical
    <3>2. Reading' = <<>>
      BY <1>0, <3>1 DEF NothingRead
    <3> QED BY <2>1, <3>2 DEF History!Next, History!Abandon, HSaved
  <2>4. CASE ~Reader(p)
    <3>1. Reading' = Reading
      BY <2>2, <2>4, ReadingStays DEF Reader
    <3> QED BY <2>1, <3>1 DEF Promised
  <2> QED BY <2>3, <2>4
<1>25. CASE Expire
  <2>1. Reading' = Reading
    BY <1>25, ReadingStays DEF Expire
  <2>2. pg = saved /\ use # "open" /\ redis # <<>> /\ redis' = <<>>
    BY <1>25 DEF Expire, InTime
  <2>3. status # "none"
    BY <2>2 DEF NothingBefore
  <2>4. UNCHANGED <<pg, status, saved, use>>
    BY <1>25 DEF Expire
  <2>5. View' = HSaved /\ HSaved' = HSaved
    BY <2>2, <2>3, <2>4 DEF View, HSaved
  <2> QED BY <2>1, <2>5 DEF History!Next, History!Expire, HSaved
<1>26. CASE Crash
  <2>1. \A q \in Procs : ~Reader(q)'
    BY <1>26 DEF Crash, Reader
  <2>2. Reading' = <<>>
    BY <1>0, <2>1 DEF NothingRead
  <2>3. View' = View /\ HSaved' = HSaved
    BY <1>26 DEF Crash, View, HSaved
  <2> QED BY <2>2, <2>3 DEF History!Next, History!Abandon, HSaved
<1>27. CASE UNCHANGED vars
  <2>1. Reading' = Reading
    BY <1>27, ReadingStays
  <2>2. View' = View /\ HSaved' = HSaved
    BY <1>27 DEF View, HSaved
  <2> QED BY <2>1, <2>2 DEF Promised
<1> QED BY <1>1, <1>2, <1>3, <1>4, <1>5, <1>6, <1>7, <1>8, <1>9, <1>10, <1>11, <1>12, <1>13,
           <1>14, <1>15, <1>16, <1>17, <1>18, <1>19, <1>20, <1>21, <1>22, <1>23, <1>24, <1>25,
           <1>26, <1>27 DEF Next, Run

\* get_messages of a session returns every message once, the newest Cap of them,
\* and what it loses is what the last complete checkpoint did not have, when the
\* session has not been used for its TTL: the two stores, written by any number of
\* overlapping coroutines, implement SessionHistory.
THEOREM HistoryIsKept == ASSUME InTime PROVE Spec => KeepsHistory
<1>1. Init => History!Init
  <2> SUFFICES ASSUME Init PROVE History!Init
    OBVIOUS
  <2>1. Reading = <<>>
    <3>1. \A p \in Procs : ~Reader(p)
      BY DEF Init, Reader
    <3> QED BY <3>1, NobodyReads DEF NothingRead
  <2> QED BY <2>1 DEF Init, History!Init, View
<1>2. Faithful /\ Faithful' /\ [Next]_vars => [History!Next]_Promised
  BY StepKeepsHistory
<1>3. Init => Faithful
  BY InitFaithful
<1>4. Faithful /\ [Next]_vars => Faithful'
  BY StepFaithful
<1>5. Promised = <<View, Reading, IF use = "doomed" THEN <<>> ELSE saved>>
  BY DEF Promised, HSaved
<1> QED BY <1>1, <1>2, <1>3, <1>4, PTL DEF Spec, KeepsHistory, History!Spec, Promised, HSaved

=============================================================================
