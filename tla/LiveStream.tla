---------------------------- MODULE LiveStream ------------------------------
(***************************************************************************)
(* The way of an agent's events to the browser: execute_agent_run publishes *)
(* on the event bus, StreamProjector.run_event_listener reads the Redis     *)
(* pub/sub channels of one connection, broadcast fans out to the queues of  *)
(* the connected clients, and stream_events turns a queue into SSE.         *)
(*                                                                          *)
(* Of EventBus.publish only the pub/sub half has a reader here; the Redis   *)
(* stream it also writes is not read by the projector.  An empty entry of   *)
(* _subscribers behaves as no entry, so the dictionary is one set.          *)
(***************************************************************************)
EXTENDS Naturals, SequencesExt

CONSTANTS
    Execs,      \* executions of agents
    Runs,
    ThreadIds,
    RunOf,      \* the run an execution belongs to
    RunThread,  \* the thread of a run
    Streams,    \* connections to GET /stream/{thread_id}
    OnThread,   \* the thread_id of a connection
    Wanted,     \* the run_id of a connection, or AnyRun
    AnyRun,
    Capacity,   \* maxsize of a subscriber's queue
    MaxDeltas,  \* bound: events an agent publishes before its terminal one
    MaxBreaks,  \* bound: how often the pub/sub connection breaks
    StreamEnv   \* what the environment does in this instance

ASSUME StreamAssumption ==
    /\ RunOf \in [Execs -> Runs]
    /\ RunThread \in [Runs -> ThreadIds]
    /\ OnThread \in [Streams -> ThreadIds]
    /\ AnyRun \notin Runs
    /\ Wanted \in [Streams -> Runs \cup {AnyRun}]
    /\ Capacity \in Nat \ {0}
    /\ MaxDeltas \in Nat
    /\ MaxBreaks \in Nat
    /\ StreamEnv \subseteq {"agent_lost", "disconnect"}

\* "delta" stands for every event that is not terminal.
Kinds == {"delta", "completed", "failed"}
Terminal == {"completed", "failed"}
Events == [exec : Execs, n : 1..(MaxDeltas + 1), kind : Kinds]

VARIABLES
    agent,      \* where execute_agent_run is, for each execution
    sent,       \* events that it has published
    breaks,     \* how often the pub/sub connection has broken
    channel,    \* pub/sub messages on their way to the listener
    stream,     \* where stream_events is, for each connection
    subs,       \* StreamProjector._subscribers
    queue,      \* the asyncio.Queue of each connection
    got         \* what the client has received

streamVars == <<agent, sent, breaks, channel, stream, subs, queue, got>>

StreamTypeOK ==
    /\ agent \in [Execs -> {"running", "lost"} \cup Terminal]
    /\ sent \in [Execs -> 0..(MaxDeltas + 1)]
    /\ breaks \in 0..MaxBreaks
    /\ channel \in Seq(Events)
    /\ stream \in [Streams -> {"new", "open", "closed"}]
    /\ subs \subseteq Streams
    /\ queue \in [Streams -> Seq(Events)]
    /\ got \in [Streams -> Seq(Events)]

StreamInit ==
    /\ agent = [e \in Execs |-> "running"]
    /\ sent = [e \in Execs |-> 0]
    /\ breaks = 0
    /\ channel = <<>>
    /\ stream = [s \in Streams |-> "new"]
    /\ subs = {}
    /\ queue = [s \in Streams |-> <<>>]
    /\ got = [s \in Streams |-> <<>>]

-----------------------------------------------------------------------------
(* execute_agent_run                                                       *)

\* EventBus.publish.
Publish(e, kind) ==
    /\ channel' = Append(channel, [exec |-> e, n |-> sent[e] + 1, kind |-> kind])
    /\ sent' = [sent EXCEPT ![e] = @ + 1]

Delta(e) ==
    /\ agent[e] = "running" /\ sent[e] < MaxDeltas
    /\ Publish(e, "delta")
    /\ UNCHANGED <<agent, breaks, stream, subs, queue, got>>

\* run_completed after the last chunk, or run_failed from on_error when the
\* agent, or the publication of a chunk, has raised.
Finish(e) ==
    /\ agent[e] = "running"
    /\ \E kind \in Terminal : /\ Publish(e, kind)
                              /\ agent' = [agent EXCEPT ![e] = kind]
    /\ UNCHANGED <<breaks, stream, subs, queue, got>>

\* The runtime restarts, or the terminal event itself cannot be published.
Lose(e) ==
    /\ "agent_lost" \in StreamEnv
    /\ agent[e] = "running"
    /\ agent' = [agent EXCEPT ![e] = "lost"]
    /\ UNCHANGED <<sent, breaks, channel, stream, subs, queue, got>>

-----------------------------------------------------------------------------
(* StreamProjector                                                         *)

\* subscribe, when the client's response starts to be iterated.
Connect(s) ==
    /\ stream[s] = "new"
    /\ stream' = [stream EXCEPT ![s] = "open"]
    /\ subs' = subs \cup {s}
    /\ UNCHANGED <<agent, sent, breaks, channel, queue, got>>

ThreadOfEvent(ev) == RunThread[RunOf[ev.exec]]

Broadcast_SkipFull(ev) ==      \* regression: a full queue misses the event
    /\ queue' = [s \in Streams |->
          IF s \in subs /\ OnThread[s] = ThreadOfEvent(ev) /\ Len(queue[s]) < Capacity
          THEN Append(queue[s], ev) ELSE queue[s]]
    /\ UNCHANGED subs

\* broadcast: a subscriber whose queue is full is dropped.
Broadcast(ev) ==
    LET here == {s \in subs : OnThread[s] = ThreadOfEvent(ev)}
        full == {s \in here : Len(queue[s]) = Capacity}
    IN  /\ queue' = [s \in Streams |-> IF s \in here \ full
                                       THEN Append(queue[s], ev) ELSE queue[s]]
        /\ subs' = subs \ full

\* run_event_listener: one message.
Listen ==
    /\ channel # <<>>
    /\ Broadcast(Head(channel))
    /\ channel' = Tail(channel)
    /\ UNCHANGED <<agent, sent, breaks, stream, got>>

\* The pub/sub connection breaks and redis-py subscribes again: what was
\* published in between has had no receiver.
Reconnect ==
    /\ breaks < MaxBreaks
    /\ channel # <<>>
    /\ breaks' = breaks + 1
    /\ channel' = <<>>
    /\ UNCHANGED <<agent, sent, stream, subs, queue, got>>

\* The generator ends; its finally block unsubscribes, and the queue goes.
Close(s) ==
    /\ stream' = [stream EXCEPT ![s] = "closed"]
    /\ subs' = subs \ {s}
    /\ queue' = [queue EXCEPT ![s] = <<>>]

Passes(s, ev) == Wanted[s] \in {AnyRun, RunOf[ev.exec]}

Emit_OnlyCompleted(s) ==      \* regression: run_failed does not end the stream
    /\ stream[s] = "open" /\ queue[s] # <<>>
    /\ LET ev == Head(queue[s])
       IN IF Passes(s, ev) /\ ev.kind = "completed"
          THEN Close(s)
          ELSE /\ queue' = [queue EXCEPT ![s] = Tail(@)]
               /\ UNCHANGED <<stream, subs>>
    /\ got' = IF Passes(s, Head(queue[s]))
              THEN [got EXCEPT ![s] = Append(@, Head(queue[s]))] ELSE got
    /\ UNCHANGED <<agent, sent, breaks, channel>>

\* stream_events: one event off the queue, filtered, sent, and the end of the
\* stream if it is terminal.
Emit(s) ==
    /\ stream[s] = "open" /\ queue[s] # <<>>
    /\ LET ev == Head(queue[s])
       IN IF ~Passes(s, ev)
          THEN /\ queue' = [queue EXCEPT ![s] = Tail(@)]
               /\ UNCHANGED <<stream, subs, got>>
          ELSE /\ got' = [got EXCEPT ![s] = Append(@, ev)]
               /\ IF ev.kind \in Terminal
                  THEN Close(s)
                  ELSE /\ queue' = [queue EXCEPT ![s] = Tail(@)]
                       /\ UNCHANGED <<stream, subs>>
    /\ UNCHANGED <<agent, sent, breaks, channel>>

\* The browser goes away, or the gateway's proxy does.
Disconnect(s) ==
    /\ "disconnect" \in StreamEnv
    /\ stream[s] = "open"
    /\ Close(s)
    /\ UNCHANGED <<agent, sent, breaks, channel, got>>

-----------------------------------------------------------------------------
StreamNext ==
    \/ \E e \in Execs : Delta(e) \/ Finish(e) \/ Lose(e)
    \/ \E s \in Streams : Connect(s) \/ Emit(s) \/ Disconnect(s)
    \/ Listen \/ Reconnect

StreamSpec == StreamInit /\ [][StreamNext]_streamVars

\* Agents end, the listener task runs, and the server drains a queue whose
\* client reads.
FairStreamSpec == /\ StreamSpec
            /\ \A e \in Execs : WF_streamVars(Finish(e))
            /\ \A s \in Streams : WF_streamVars(Emit(s))
            /\ WF_streamVars(Listen)

-----------------------------------------------------------------------------
\* The events of an execution in a set, by their numbers.
NumbersOf(e, events) == {ev.n : ev \in {x \in events : x.exec = e}}

\* The events that have come to a connection, and those that still may.
Come(s) == ToSet(got[s]) \cup ToSet(queue[s])
Reach(s) == Come(s) \cup ToSet(channel)

\* A client sees, of every execution, events in the order of their publication
\* without duplicates, in its queue and on the way too; only of its run when it asked
\* for one; and a terminal event is the last thing it sees.
StreamIsInOrder ==
    \A s \in Streams :
        /\ LET all == got[s] \o queue[s] \o channel
           IN \A i, j \in DOMAIN all :
                 i < j /\ all[i].exec = all[j].exec => all[i].n < all[j].n
        /\ \A i \in DOMAIN got[s] : /\ Passes(s, got[s][i])
                                    /\ ThreadOfEvent(got[s][i]) = OnThread[s]
                                    /\ i < Len(got[s]) => got[s][i].kind = "delta"

\* While a client is subscribed, every event published since it connected is in
\* its hands, in its queue or on the way, without a gap.  A client dropped for
\* being slow has no gap either: it sees a contiguous part.  Only a broken pub/sub
\* connection loses events.
NothingLostWhileSubscribed ==
    \A s \in Streams, e \in Execs :
        /\ breaks = 0
        /\ Wanted[s] \in {AnyRun, RunOf[e]} /\ OnThread[s] = RunThread[RunOf[e]]
        => /\ \A a, b \in NumbersOf(e, Come(s)) : a..b \subseteq NumbersOf(e, Come(s))
           /\ s \in subs => \A a \in NumbersOf(e, Reach(s)) :
                              a <= sent[e] /\ a..sent[e] \subseteq NumbersOf(e, Reach(s))

\* A queue that broadcast fills belongs to a generator that reads it, and stays
\* within its capacity: nothing is kept for clients that are gone.
NoLeakedSubscriber ==
    \A s \in Streams : /\ s \in subs => stream[s] = "open"
                       /\ Len(queue[s]) <= Capacity
                       /\ stream[s] # "open" => queue[s] = <<>>

\* The stream of a client that was connected while its agent worked ends or is
\* dropped, unless the agent or its events are lost.
ConnectedStreamEnds ==
    \A s \in Streams, e \in Execs :
        /\ s \in subs /\ agent[e] = "running"
        /\ Wanted[s] = RunOf[e] /\ OnThread[s] = RunThread[RunOf[e]]
        ~> s \notin subs \/ agent[e] = "lost" \/ breaks > 0

\* What a client of stream_events sees is its run: in order, without gaps, with
\* nothing left behind.
StreamIsFaithful ==
    StreamTypeOK /\ StreamIsInOrder /\ NothingLostWhileSubscribed /\ NoLeakedSubscriber
=============================================================================
