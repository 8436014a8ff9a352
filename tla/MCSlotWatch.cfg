CONSTANTS
    ChannelSize = 2
    MaxUpdates = 3
SPECIFICATION FairSpec
INVARIANTS TypeOK SlotOrder
PROPERTIES Watchdog StopReturns
CHECK_DEADLOCK FALSE
