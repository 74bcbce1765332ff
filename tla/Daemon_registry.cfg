SPECIFICATION FairSpec
CONSTANTS
    None = None
    w1 = w1  w2 = w2  a1 = a1  a2 = a2  t1 = t1  t2 = t2
    Wrappers = {w1, w2}
    Agents = {}
    Tools = {}
    Conns = {c1, c2, c3, c4}
    AgentOf <- NoTools
    StartsWith <- ShortId
    PromptTargets = {}
    Transcripts = {}
    QueueCap = 2
    OutboxCap = 1
    MaxCrashes = 1
    MaxHooks = 0
    MaxStarts = 0
INVARIANT LiveRegistration
PROPERTY Reregisters
PROPERTY DeadWrapperForgotten
CHECK_DEADLOCK FALSE
