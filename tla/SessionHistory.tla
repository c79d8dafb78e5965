--------------------------- MODULE SessionHistory ---------------------------
(***************************************************************************)
(* What SessionManager promises the users of one session: get_messages      *)
(* returns every message stored so far, the newest Cap of them.  Only a     *)
(* session that nobody used for the length of its TTL may go back, and then *)
(* to exactly what its last complete checkpoint had read.                   *)
(***************************************************************************)
EXTENDS Naturals, Sequences

CONSTANTS
    Messages,
    Cap,
    Batches     \* how many messages may be stored at once

VARIABLES
    view,       \* what get_messages returns
    reading,    \* what the checkpoint in progress has read
    saved       \* what the last complete checkpoint wrote

Window(s) == SubSeq(s, IF Len(s) > Cap THEN Len(s) - Cap + 1 ELSE 1, Len(s))

Init == view = <<>> /\ reading = <<>> /\ saved = <<>>

\* No message is stored a second time.
New == Messages \ {view[i] : i \in 1..Len(view)}

Add == /\ \E n \in Batches : \E s \in [1..n -> New] :
             /\ \A i, j \in 1..n : s[i] = s[j] => i = j
             /\ view' = Window(view \o s)
       /\ UNCHANGED <<reading, saved>>

Read == reading' = view /\ UNCHANGED <<view, saved>>

Save == saved' = reading /\ reading' = <<>> /\ UNCHANGED view

Abandon == reading' = <<>> /\ UNCHANGED <<view, saved>>

Expire == view' = saved /\ UNCHANGED <<reading, saved>>

Delete == view' = <<>> /\ saved' = <<>> /\ reading' = <<>>

Next == Add \/ Read \/ Save \/ Abandon \/ Expire \/ Delete

Spec == Init /\ [][Next]_<<view, reading, saved>>
=============================================================================
