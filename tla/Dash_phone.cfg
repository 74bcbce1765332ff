SPECIFICATION FairSpec
CONSTANTS
    None = None
    a = a  d1 = d1  r1 = r1  r2 = r2
    Conns = {d1}
    Requests = {r1}
    Suggestions = {a}
    QueueCap = 2
    ScreenCap = 1
    MaxOutputs = 0
    MaxHooks = 0
    MaxStops = 0
PROPERTY PhoneAnswerCounts
CHECK_DEADLOCK FALSE
