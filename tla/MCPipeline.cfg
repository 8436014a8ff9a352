\* Two requests through a channel of one to a worker of capacity one.
CONSTANTS
    a1 = a1
    Addrs <- MCAddrs
    Windows <- MCWindows
    SenderChannelSize = 1
    WorkerChannelSize = 1
    MaxEnqueued = 2
    MaxDropped = 1
    Requests = {r1, r2}
    Conns = {k1}
    FlushTask = FlushTask
    Bodies <- MCBodies
SYMMETRY Symmetry
SPECIFICATION PipelineSpec
INVARIANTS WishRespected OnlyOnWish StatsOrdered
CHECK_DEADLOCK FALSE
