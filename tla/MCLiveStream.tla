---------------------------- MODULE MCLiveStream ----------------------------
(* Instances of LiveStream for TLC.                                        *)
EXTENDS LiveStream, TLC

CONSTANTS e1, e2, r1, r2, t1, t2, s1, s2

\* Two runs of one thread; s1 asks for the first one, s2 for all.
RunEach  == (e1 :> r1) @@ (e2 :> r2)
OneThread == (r1 :> t1) @@ (r2 :> t1)
BothOnT1 == (s1 :> t1) @@ (s2 :> t1)
FirstAndAny == (s1 :> r1) @@ (s2 :> AnyRun)
=============================================================================
