---------------------------- MODULE MCChatStream ----------------------------
(* Instances of ChatStream for TLC.                                        *)
EXTENDS ChatStream, TLC

CONSTANTS s1, s2, r1
=============================================================================
