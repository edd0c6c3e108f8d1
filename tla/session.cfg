SPECIFICATION FairSessionSpec
CONSTANTS
    client = client
    passive = passive
    Peers = {client, passive}
    Clients = {client}
    Senders = {client}
    Seed <- MCSeed
    Bodies <- MCBodies
    FRAGMENT_BYTES = 1
    MAX_MESSAGE_BYTES = 2
    ID_MULTIPLIER = 5
    ID_INCREMENT = 3
    ID_MODULUS = 8
    MAX_EVENTS = 1
    MAX_IN_FLIGHT = 1
    MAX_ATTEMPTS = 1
    RTO = 1
    None = None
    MAX_REASSEMBLY = 1
    REASSEMBLY_TIMEOUT = 1
    Inactive = Inactive
    Lengths = {1}
    Deltas = {}
    TxRooms = {TRUE, FALSE}
    Incoming = {}
    MAX_ACKS = 1
    MAX_MESSAGES = 1
    NoCall = NoCall
    PING_INTERVAL = 1
    HORIZON = 1
    IDLE_TIMEOUT = 1
    FRESH_LAG = 1
    LAG_CAP = 1
    CHUNK = 1
    Noisy = FALSE
    Lossy = FALSE
    MAX_CONNECTS = 1
    MAX_SENDS = 1
    WIRE_CAP = 1
INVARIANTS
    LiveUnsentIsQueued
    ConnectingHasHello
PROPERTIES
    ConnectingResolves
