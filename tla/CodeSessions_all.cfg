CONSTANTS
 s1 = s1 s2 = s2 s3 = s3 v1 = v1 v2 = v2 v3 = v3 v4 = v4 c1 = c1 c2 = c2
 Sessions = {s1, s2, s3}
 VMs = {v1, v2, v3, v4}
 Clients = {c1, c2}
 NoVM = NoVM
 Nobody = Nobody
 PoolSize = 3
 MaxSessions = 2
 MaxRequests = 3
 MaxDeaths = 1
 Env = {"boot_fails", "stop"}
SPECIFICATION FairSpec
INVARIANT VMsAreAccounted
PROPERTY StateSurvives
PROPERTY RequestsReturn
CHECK_DEADLOCK FALSE
