CONSTANTS
 e1 = e1 e2 = e2 r1 = r1 r2 = r2 t1 = t1 t2 = t2 s1 = s1 s2 = s2
 Execs = {e1, e2}
 Runs = {r1, r2}
 ThreadIds = {t1, t2}
 RunOf <- RunEach
 RunThread <- OneThread
 Streams = {s1, s2}
 OnThread <- BothOnT1
 Wanted <- FirstAndAny
 AnyRun = AnyRun
 Capacity = 2
 MaxDeltas = 1
 MaxBreaks = 1
 StreamEnv = {"agent_lost", "disconnect"}
SPECIFICATION FairStreamSpec
INVARIANT StreamIsFaithful
PROPERTY ConnectedStreamEnds
CHECK_DEADLOCK FALSE
