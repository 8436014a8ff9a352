CONSTANTS
    ChannelSize = 1
    MaxUpdates = 1
SPECIFICATION FairSpec
PROPERTY CancellationIsNotAFailure
CHECK_DEADLOCK FALSE
