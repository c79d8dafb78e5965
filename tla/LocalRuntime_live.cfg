CONSTANTS
 a1 = a1 a2 = a2 t1 = t1 t2 = t2 r1 = r1 r2 = r2 r3 = r3 p1 = p1 p2 = p2
 Types = {t1}
 AgentIds = {a1}
 TypeOf <- SoleType
 Default <- DefaultOne
 Reqs = {r1, r2}
 Pubs = {p1}
 MaxBoxes = 2
 MaxSubs = 1
 MaxStops = 1
 Capacity = 1
 Timeouts = TRUE
 Env = {"token", "handler_error", "stop"}
 CLOSED = CLOSED
 NoMsg = NoMsg
SPECIFICATION FairSpec
PROPERTY EveryCallIsClosed
CHECK_DEADLOCK FALSE
