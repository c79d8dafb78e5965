CONSTANTS
 plain = plain risky = risky unknown = unknown
 Tools = {plain, risky, unknown}
 Known = {plain, risky}
 Gated = {risky}
 Paths = {"direct", "runtime"}
 ExecutorAsks = FALSE
 Limits = {1, 2}
 MaxCalls = 2
 LlmRetries = 1
 ToolRetries = 1
 MaxRuns = 2
 Env = {}
SPECIFICATION Spec
INVARIANT GateIsRespected
CHECK_DEADLOCK FALSE
