SPECIFICATION Spec
CONSTANTS
    None = None
    a = a  d1 = d1  r1 = r1  r2 = r2
    Conns = {d1}
    Requests = {r1, r2}
    Suggestions = {a}
    QueueCap = 2
    ScreenCap = 1
    MaxOutputs = 2
    MaxHooks = 1
    MaxStops = 1
INVARIANT SubscriberCurrent
INVARIANT PermissionsCurrent
INVARIANT SuggestionCurrent
CHECK_DEADLOCK FALSE
