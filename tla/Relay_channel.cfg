SPECIFICATION FairSpec
CONSTANTS
    None = None
    ch1 = ch1  ch2 = ch2  phone = phone  desk = desk
    p1 = p1  p2 = p2  d1 = d1
    Channels = {ch1, ch2}
    Keys = {phone, desk}
    Conns = {p1, p2, d1}
    ChannelOf <- OneChannel
    KeyOf <- PhoneAndDesk
    HasToken = {p1, p2, d1}
    MaxBuffer = 1
    PeerCap = 1
    CmdCap = 1
    MaxSeq = 2
    MaxEpochs = 2
INVARIANT TypeOK
INVARIANT BufferIsWindow
INVARIANT LiveIsPeer
INVARIANT OneConnectionPerKey
INVARIANT SyncComplete
PROPERTY ImplementsLog
PROPERTY PeersLeave
CHECK_DEADLOCK FALSE
