CONSTANTS
 Size = 24
 Kind <- SomeKinds
 Kids <- SomeKids
 LastBelow <- SomeLast
 MaxChunks <- SomeChunks
 MaxLoopRounds = 2
 FlowEnv = {"raise", "close"}
SPECIFICATION FairFlowSpec
 
INVARIANT NothingIsLost
PROPERTY FlowsEnd
CHECK_DEADLOCK FALSE
