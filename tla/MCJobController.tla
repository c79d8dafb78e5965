--------------------------- MODULE MCJobController --------------------------
(* Instances of JobController for TLC.                                     *)
EXTENDS JobController, TLC

CONSTANTS p1, p2, p3, c1, t1, t2, k1

\* A gateway request, a keyed one and the cancel are about t1; a second request
\* with the same key is about t2.
TwoThreads == [x \in Actors |-> IF x = p3 THEN t2 ELSE t1]

LastKeyed == [p \in Posts |-> IF p \in Chats THEN NoKey ELSE k1]
=============================================================================
