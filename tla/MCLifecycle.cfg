\* Every configuration.
SPECIFICATION FairSpec
INVARIANT CleanExit
PROPERTY RpcEndsProcess
CHECK_DEADLOCK FALSE
