SPECIFICATION Spec
CONSTANTS
    None = None
    w1 = w1  w2 = w2  a1 = a1  a2 = a2  t1 = t1  t2 = t2
    Wrappers = {}
    Agents = {a1}
    Tools = {t1, t2}
    Conns = {}
    AgentOf <- OneAgent
    StartsWith = {}
    PromptTargets = {}
    Transcripts = {}
    QueueCap = 2
    OutboxCap = 1
    MaxCrashes = 1
    MaxHooks = 1
    MaxStarts = 1
SYMMETRY ToolSymmetry
INVARIANT PendingHasWaiter
INVARIANT DecisionIntegrity
PROPERTY ImplementsPermission
CHECK_DEADLOCK FALSE
