CONSTANTS
    i = i
    j = j
    a1 = a1
    b1 = b1
    Identities = {i, j}
    Addrs = {a1, b1}
    NoAddr = NoAddr
    Tables <- MCTables
    Accounts <- MCAccounts
SPECIFICATION FairSpec
INVARIANTS TypeOK SteadyBlocked
PROPERTIES Converges CancelStops
