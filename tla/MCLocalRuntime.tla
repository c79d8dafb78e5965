--------------------------- MODULE MCLocalRuntime ---------------------------
(* Instances of LocalRuntime for TLC.                                      *)
EXTENDS LocalRuntime, TLC

CONSTANTS a1, a2, t1, t2, r1, r2, r3, p1, p2

OneType  == (a1 :> t1) @@ (a2 :> t1)
TwoTypes == (a1 :> t1) @@ (a2 :> t2)
SoleType == (a1 :> t1)
DefaultOne == (t1 :> a1)
DefaultTwo == (t1 :> a1) @@ (t2 :> a2)

\* Calls are interchangeable: nothing in the runtime compares or orders them.
ReqSymmetry == Permutations(Reqs)
=============================================================================
