SPECIFICATION Spec
CONSTANTS
    WpTarget = 2
    WpSocks = {1, 2, 3, 4}
    TpClients = {1, 2}
    TpListeners = 3
    TpOps = 2
    HcChannels = {1}
    HcPackets = 3
    HcRoom = 2
    HcLaneRoom = 3
    HcHistory = 2
    HcAttempts = 1
    HlClients = {1, 2}
    HlLanes = 3
    SkCallers = {1, 2}
    SkClients = {1}
    SkStarts = 2
    PlTime = 2
    PlLease = 2
    PlTTL = 2
    PlReplies = 2
    PlEvents = 2
    DtTime = 2
    DtXids = {1, 2}
    DtTxns = 2
    DtCopies = 3
    DtTTL = 2
    DtLimit = 2
    DtLease = 3
    PiTime = 6
    PiTTL = 3
    PiEarly = 2
    PiRetry = 1
    PiAcks = 2
    PiEvents = 2
    PnReqs = {1, 2}
    PnTime = 3
    PnCooldown = 2
    PnEvents = 3
INVARIANTS PoolSafe ProxySafe LanesSafe SocksSafe
PROPERTIES ChannelSafe ProviderSafe
CHECK_DEADLOCK FALSE
