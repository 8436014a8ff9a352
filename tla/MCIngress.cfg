\* Two requests and the flush task compete for a channel of one.  Sizes around
\* both limits, bytes around the v1 prefix and around the jumps of the base64
\* alphabet.
CONSTANTS
    Requests = {r1, r2}
    Conns = {k}
    FlushTask = FlushTask
    SenderChannelSize = 1
    Sizes = {0, 1, 2, 3, 1231, 1232, 1233, 1234, 4095, 4096, 4097, 4098, 4099}
    Bytes = {0, 1, 63, 64, 127, 128, 129, 130, 131, 207, 208, 255}
    Overhead = 2728
SPECIFICATION FairSpec
INVARIANTS TypeOK Conservation Genuine SentOnce
PROPERTY EveryRequestEnds
CHECK_DEADLOCK FALSE
