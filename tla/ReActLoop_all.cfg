CONSTANTS
 plain = plain risky = risky unknown = unknown
 Tools = {plain, risky, unknown}
 Known = {plain, risky}
 Gated = {risky}
 Paths = {"direct", "runtime"}
 ExecutorAsks = TRUE
 Limits = {1, 2}
 MaxCalls = 2
 LlmRetries = 1
 ToolRetries = 1
 MaxRuns = 2
 Env = {"cancel", "llm_error", "no_completion", "no_answer"}
SPECIFICATION FairSpec
INVARIANT ConversationIsLegal
 
 
PROPERTY RunEnds
CHECK_DEADLOCK FALSE
