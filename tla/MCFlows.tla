------------------------------ MODULE MCFlows --------------------------------
(* Instances of Flows for TLC.                                             *)
EXTENDS Flows, TLC

\* A parallel flow between two steps, one of its branches a choice between an agent
\* and a sequential flow; parallel in parallel; the pipelines.
SomeKids ==
    [n \in 1..24 |->
       CASE n = 1  -> <<2, 3, 10>>
         [] n = 3  ->     <<4, 5>>
         [] n = 5  ->         <<6, 7>>
         [] n = 7  ->             <<8, 9>>
         [] n = 11 -> <<12, 15>>
         [] n = 12 ->     <<13, 14>>
         [] n = 16 -> <<17, 18>>
         [] n = 19 -> <<20>>
         [] n = 21 -> <<22, 23, 24>>
         [] OTHER  -> <<>>]
SomeKinds ==
    [n \in 1..24 |->
       CASE n \in {1, 7} -> "seq"
         [] n \in {3, 11, 12} -> "par"
         [] n = 5 -> "cond"
         [] n \in {16, 19} -> "while"
         [] n = 21 -> "branch"
         [] OTHER -> "agent"]
SomeLast ==
    LET last[n \in 1..24] ==
          IF SomeKids[n] = <<>> THEN n ELSE last[SomeKids[n][Len(SomeKids[n])]]
    IN  last
\* Two chunks of the first branch of a parallel flow, one of the others.
SomeChunks == [n \in 1..24 |-> IF n \in {4, 13} THEN 2 ELSE 1]
=============================================================================
