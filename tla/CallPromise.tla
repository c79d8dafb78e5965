---------------------------- MODULE CallPromise -----------------------------
(***************************************************************************)
(* What AgentRuntime.send_message promises each caller, whatever the         *)
(* runtime does inside: a call is answered at most once, its handler runs at *)
(* most once, only for a call that was admitted, and an answer that reports  *)
(* how the handler ended reports how the handler of this very call ended.    *)
(* A caller may always give up first (timeout, cancellation), and a handler  *)
(* may still start after its caller has gone.                                *)
(***************************************************************************)
CONSTANT Reqs

VARIABLE life       \* per call: where the call is, its handler and its answer

Calls    == {"new", "open", "answered"}
Handlers == {"no", "running", "ok", "error", "aborted"}
Answers  == {"none", "value", "silent", "error", "timeout", "cancelled",
             "not_found", "closed"}

State == [call : Calls, ran : Handlers, out : Answers]

Fresh == [call |-> "new", ran |-> "no", out |-> "none"]

Init == life = [r \in Reqs |-> Fresh]

\* The answer a handler that ended as h justifies.
Reported(h) == CASE h = "ok"      -> {"value"}
                 [] h = "error"   -> {"error"}
                 [] h = "aborted" -> {"silent"}
                 [] OTHER         -> {}

\* The runtime refused the call, and no handler ever runs for it.
Refused(s) == s.out \in {"not_found", "closed"}

Answered(s, o) == [call |-> "answered", ran |-> s.ran, out |-> o]

Open(s, t) == s = Fresh /\ t = [s EXCEPT !.call = "open"]

Refuse(s, t) ==
    /\ s = Fresh
    /\ \E o \in {"not_found", "closed", "cancelled"} :
          t = Answered(s, o)

Answer(s, t) ==
    /\ s.call = "open"
    /\ \E o \in Reported(s.ran) \cup {"timeout", "cancelled"} :
          t = Answered(s, o)

StartHandler(s, t) ==
    /\ s.call # "new" /\ s.ran = "no" /\ ~Refused(s)
    /\ t = [s EXCEPT !.ran = "running"]

EndHandler(s, t) ==
    /\ s.ran = "running"
    /\ \E h \in {"ok", "error", "aborted"} : t = [s EXCEPT !.ran = h]

Move(s, t) == \/ Open(s, t) \/ Refuse(s, t) \/ Answer(s, t)
              \/ StartHandler(s, t) \/ EndHandler(s, t)

\* One event of the runtime may concern several calls.
Next == /\ life' \in [Reqs -> State]
        /\ \A r \in Reqs : life'[r] = life[r] \/ Move(life[r], life'[r])

Spec == Init /\ [][Next]_life
=============================================================================
