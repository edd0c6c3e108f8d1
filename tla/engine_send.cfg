SPECIFICATION Spec
CONSTANTS
    Peers = {a}
    Seed <- MCSeed
    Bodies = {m}
    FRAGMENT_BYTES = 1
    MAX_MESSAGE_BYTES = 2
    ID_MULTIPLIER = 1
    ID_INCREMENT = 1
    ID_MODULUS = 3
    MAX_EVENTS = 2
    MAX_IN_FLIGHT = 2
    MAX_ATTEMPTS = 1
    RTO = 1
    None = None
    MAX_REASSEMBLY = 1
    REASSEMBLY_TIMEOUT = 1
    Inactive = Inactive
    Lengths = {0, 2, 3}
    Deltas = {0, 1}
    TxRooms = {TRUE}
    Incoming <- MCIncoming
    MAX_ACKS = 1
    MAX_MESSAGES = 1
    NoCall = NoCall
INVARIANTS
    TypeOK
    OneWritePerKey
    InFlightExact
    RetryBudget
    TickCurrent
    UnsentIsQueued
    SendAllOrNothing
