CONSTANTS
 Kinds = {"agent", "pipeline", "chain"}
 Replies <- SomeReplies
 MaxIterations = 2
 PipelineSteps = 3
 MaxCrashes = 2
SPECIFICATION FairSpec
 
INVARIANT PermissionHolds
 
PROPERTY RunsEnd
CHECK_DEADLOCK FALSE
