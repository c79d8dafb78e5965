CONSTANTS
 c = c t1 = t1 t2 = t2
 Client = c
 Tasks = {t1}
 Cap = 2
 Threshold = 2
 Every = 2
 MaxMsgs = 3
 MaxBatch = 2
 MaxDeletes = 1
 MaxCrashes = 1
 Env = {"expire", "error"}
SPECIFICATION FairSpec
INVARIANT StoresAreClean
 
PROPERTY OperationsEnd
CHECK_DEADLOCK FALSE
