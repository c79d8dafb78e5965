--------------------------- MODULE MCCodeSessions ---------------------------
(* Instances of CodeSessions for TLC.                                      *)
EXTENDS CodeSessions, TLC

CONSTANTS s1, s2, s3, v1, v2, v3, v4, c1, c2
=============================================================================
