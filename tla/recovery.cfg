SPECIFICATION RecoverySpec
CONSTANTS
    Keys = {k1, k2}
    WIDTH = 7
    INITIAL_RTT = 2
    MAX_ACK_DELAY = 1
    GRANULARITY = 0
    MAX_BACKOFF = 1
    MAX_ATTEMPTS = 2
    Instants = {0, 1, 2, 3, 5, 7, 10, 15}
    MAX_NOW = 15
    None = None
    k1 = k1
    k2 = k2
INVARIANTS
    RecoveryTypeOK
    EstimateWithinSamples
PROPERTIES
    RetransmitWaits
