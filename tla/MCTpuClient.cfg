\* Two transactions through a channel of one, where a flush message competes
\* with them for the only slot, to workers of capacity two.
CONSTANTS
    a1 = a1
    b1 = b1
    Addrs <- MCAddrs
    Windows <- MCWindows
    SenderChannelSize = 1
    WorkerChannelSize = 2
    MaxEnqueued = 2
    MaxDropped = 1
SPECIFICATION FairSpec
INVARIANTS TypeOK SafeRelease ExactlyOnePlace BufferAccounting WorkerFIFO
PROPERTIES RefinesRelay Drains PlainFlows CancelStops
