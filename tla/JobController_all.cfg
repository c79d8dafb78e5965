CONSTANTS
 p1 = p1 p2 = p2 p3 = p3 c1 = c1 t1 = t1 t2 = t2 k1 = k1
 Posts = {p1, p2, p3}
 Cancels = {c1}
 Threads = {t1, t2}
 ThreadOf <- TwoThreads
 Chats = {p1}
 KeyOf <- LastKeyed
 NoKey = NoKey
 NoRun = NoRun
 MaxCrashes = 1
 Serial = TRUE
 Env = {"dispatch_error", "runtime_error", "slow_runtime"}
SPECIFICATION FairSpec
INVARIANT TypeOK
 
INVARIANT PendingRunHasNoAgent
PROPERTY FinalStaysFinal
 
CHECK_DEADLOCK FALSE
