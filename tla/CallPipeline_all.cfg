CONSTANTS
 c1 = c1 c2 = c2 c3 = c3 k1 = k1 k2 = k2
 Calls = {c1, c2, c3}
 Tools = {c1, c2, c3}
 Keys = {k1, k2}
 KeyOf <- ThreeTools
 Chain <- Mixed
 MaxRate = 1
 Period = 2
 MaxEntries = 1
 Retries = 1
 MaxTime = 0
 Failing = {c2}
 Cancelled = {c1}
 None = None
 Fallback = Fallback
SPECIFICATION FairSpec
 
INVARIANT CacheAnswers
PROPERTY CallsEnd
CHECK_DEADLOCK FALSE
