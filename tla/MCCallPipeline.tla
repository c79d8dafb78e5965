--------------------------- MODULE MCCallPipeline ---------------------------
(* Instances of CallPipeline for TLC.                                      *)
EXTENDS CallPipeline, TLC

CONSTANTS c1, c2, c3, k1, k2

\* Two tool calls, and a third one with the same key as the first.
ThreeTools == (c1 :> k1) @@ (c2 :> k2) @@ (c3 :> k1)
Mixed      == <<"fallback", "cache", "rate", "validator", "retry">>
=============================================================================
