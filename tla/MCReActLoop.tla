---------------------------- MODULE MCReActLoop -----------------------------
(* Instances of ReActLoop for TLC.                                         *)
EXTENDS ReActLoop, TLC

CONSTANTS plain, risky, unknown
=============================================================================
