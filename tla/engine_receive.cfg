SPECIFICATION Spec
CONSTANTS
    Peers = {a}
    Seed <- MCSeed
    Bodies = {m}
    FRAGMENT_BYTES = 1
    MAX_MESSAGE_BYTES = 2
    ID_MULTIPLIER = 1
    ID_INCREMENT = 1
    ID_MODULUS = 2
    MAX_EVENTS = 1
    MAX_IN_FLIGHT = 2
    MAX_ATTEMPTS = 0
    RTO = 1
    None = None
    MAX_REASSEMBLY = 2
    REASSEMBLY_TIMEOUT = 2
    Inactive = Inactive
    Lengths = {}
    Deltas = {0, 1}
    TxRooms = {TRUE, FALSE}
    Incoming <- MCIncoming
    MAX_ACKS = 1
    MAX_MESSAGES = 1
    NoCall = NoCall
INVARIANTS
    TypeOK
    ReassemblyPending
    DedupWindow
