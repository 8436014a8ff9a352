\* Two transactions, a channel of one, workers of capacity one, so that a
\* release of two does not fit.
CONSTANTS
    a1 = a1
    b1 = b1
    Addrs <- MCAddrs
    Windows <- MCWindows
    SenderChannelSize = 1
    WorkerChannelSize = 1
    MaxEnqueued = 2
    MaxDropped = 0
SPECIFICATION DeliverySpec
INVARIANTS GivenInOrder LossIsOwn
