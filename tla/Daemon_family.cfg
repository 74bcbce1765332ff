SPECIFICATION Spec
CONSTANTS
    None = None
    w1 = w1  w2 = w2  a1 = a1  a2 = a2  t1 = t1  t2 = t2
    Wrappers = {w1}
    Agents = {a1}
    Tools = {t1}
    Conns = {c1, c2}
    AgentOf <- OneTool
    StartsWith = {}
    PromptTargets = {w1}
    Transcripts = {a1}
    QueueCap = 2
    OutboxCap = 1
    MaxCrashes = 0
    MaxHooks = 1
    MaxStarts = 1
INVARIANT TypeOK
INVARIANT NeedsInputJustified
INVARIANT RegistryAgrees
CHECK_DEADLOCK FALSE
