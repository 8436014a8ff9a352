CONSTANTS
    i = i
    a1 = a1
    b1 = b1
    Addrs = {a1, b1}
    Windows <- MCWindows
    SenderChannelSize = 1
    WorkerChannelSize = 1
    MaxEnqueued = 2
    MaxDropped = 0
    Identities = {i}
    NoAddr = NoAddr
    Tables <- MCTablesFixed
    Accounts <- MCAccountsFixed
SPECIFICATION IrisSpec
INVARIANT DeniedNotReached
