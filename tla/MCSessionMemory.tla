-------------------------- MODULE MCSessionMemory ---------------------------
(* Instances of SessionMemory for TLC.                                     *)
EXTENDS SessionMemory, TLC

CONSTANTS c, t1, t2
=============================================================================
