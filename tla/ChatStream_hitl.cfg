CONSTANTS
 s1 = s1 s2 = s2 r1 = r1
 Streams = {s1, s2}
 Requests = {r1}
 NoStream = NoStream
 DONE = DONE
 Env = {"setup_error", "cancel", "disconnect"}
SPECIFICATION FairSpec
INVARIANT TypeOK
INVARIANT StreamHoldsLock
 
INVARIANT RunsOnlyWhenAllowed
 
PROPERTY FirstOutcomeStands
PROPERTY EveryStreamEnds
CHECK_DEADLOCK FALSE
