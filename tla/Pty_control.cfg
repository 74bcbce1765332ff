SPECIFICATION FairSpec
CONSTANTS
    p1 = p1  p2 = p2  small = small  large = large
    Prompts = {p1, p2}
    Sizes = {small, large}
    FirstSize = small
    Headless = FALSE
    EventCap = 2
    MaxRequests = 1
    MaxKeys = 1
    MaxHost = 2
    MaxStops = 1
INVARIANT TypeOK
INVARIANT PromptIntact
INVARIANT AcceptedInOrder
INVARIANT SizesSettle
PROPERTY PromptSubmitted
PROPERTY HostFollowed
CHECK_DEADLOCK FALSE
