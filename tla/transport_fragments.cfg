SPECIFICATION TransportSpec
CONSTANTS
    a = a
    b = b
    Peers = {a, b}
    Senders = {a}
    SendTypes = {"data", "log"}
    Seed <- MCSeed
    Bodies <- MCBodies
    FRAGMENT_BYTES = 1
    MAX_MESSAGE_BYTES = 2
    ID_MULTIPLIER = 5
    ID_INCREMENT = 3
    ID_MODULUS = 8
    MAX_EVENTS = 8
    MAX_IN_FLIGHT = 3
    MAX_ATTEMPTS = 0
    RTO = 2
    None = None
    MAX_REASSEMBLY = 1
    REASSEMBLY_TIMEOUT = 1
    Inactive = Inactive
    Lengths = {0, 2}
    Deltas = {1}
    TxRooms = {TRUE}
    Incoming = {}
    MAX_ACKS = 1
    MAX_MESSAGES = 1
    NoCall = NoCall
    MAX_SENDS = 2
    MAX_PINGS = 1
    WIRE_CAP = 2
    Lossy = TRUE
    Reorder = TRUE
    MAX_REPEATS = 0
INVARIANT DeliveredIntact
PROPERTY ImplementsChannel
