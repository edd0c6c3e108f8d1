SPECIFICATION Spec
CONSTANTS
    BITS = 8
    WIDTH = 16
    REGISTER = 24
    Poly <- Poly16
    Initial = {0, 3, 15}
    Bytes <- SomeBytes
    MAX_LEN = 3
    Patterns <- SomePatterns
INVARIANTS
    DamageDetected
    MsbIsRemainder
    LsbIsRemainder
CHECK_DEADLOCK FALSE
