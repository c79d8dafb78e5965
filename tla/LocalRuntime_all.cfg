CONSTANTS
 a1 = a1 a2 = a2 t1 = t1 t2 = t2 r1 = r1 r2 = r2 r3 = r3 p1 = p1 p2 = p2
 Types = {t1}
 AgentIds = {a1, a2}
 TypeOf <- OneType
 Default <- DefaultOne
 Reqs = {r1, r2}
 Pubs = {p1}
 MaxBoxes = 3
 MaxSubs = 1
 MaxStops = 1
 Capacity = 1
 Timeouts = TRUE
 Env = {"token", "caller_cancel", "nested", "handler_error", "stop", "stop_when_idle"}
 CLOSED = CLOSED
 NoMsg = NoMsg
SYMMETRY ReqSymmetry
SPECIFICATION Spec
INVARIANT TypeOK
INVARIANT OpenFutureIsPending
INVARIANT NothingIsMislaid
PROPERTY KeepsPromise
 
CHECK_DEADLOCK FALSE
