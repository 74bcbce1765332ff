SPECIFICATION FairSpec
CONSTANTS
    s1 = s1  g1 = g1
    Sockets = {s1}
    Pages = {g1}
    DataCap = 3
    BatchMax = 2
    QueueCap = 2
    MaxChunks = 1
    MaxWatches = 2
    MaxStops = 1
INVARIANT OutputConserved
INVARIANT SnapshotThenStream
PROPERTY WatcherSeesScreen
CHECK_DEADLOCK FALSE
