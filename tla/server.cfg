SPECIFICATION FairSpec
CONSTANTS
    Ids = {p, q, r}
    N = 2
    PING_INTERVAL = 1
    IDLE_TIMEOUT = 2
    HORIZON = 2
    Vacant = Vacant
INVARIANTS
    SlotsCoherent
    UniquePeers
    FullIsFull
PROPERTY SilentPlaceFreed
