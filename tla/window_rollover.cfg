SPECIFICATION TransportSpec
CONSTANTS
    a = a
    b = b
    Peers = {a, b}
    Senders = {a}
    SendTypes = {"data"}
    Seed <- MCSeed
    Bodies <- MCBodies
    FRAGMENT_BYTES = 1
    MAX_MESSAGE_BYTES = 2
    ID_MULTIPLIER = 5
    ID_INCREMENT = 3
    ID_MODULUS = 8
    MAX_EVENTS = 8
    MAX_IN_FLIGHT = 2
    MAX_ATTEMPTS = 1
    RTO = 1
    None = None
    MAX_REASSEMBLY = 2
    REASSEMBLY_TIMEOUT = 2
    Inactive = Inactive
    Lengths = {1}
    Deltas = {0, 1}
    TxRooms = {TRUE}
    Incoming = {}
    MAX_ACKS = 1
    MAX_MESSAGES = 1
    NoCall = NoCall
    MAX_SENDS = 3
    MAX_PINGS = 0
    WIRE_CAP = 2
    Lossy = TRUE
    Reorder = FALSE
    MAX_REPEATS = 0
INVARIANT AtMostOnce
