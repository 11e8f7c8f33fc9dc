SPECIFICATION Spec
CONSTANTS
    UUID_LEN = 2
    PAYLOAD_SIZE_LIMIT = 32
    Bodies = {5}
    LargeBodies = {40, 80}
    Envelopes <- MCEnvelopes
    MaxSent = 2
    MaxDamaged = 0
    ReadSizes = {1, 2, 11}
INVARIANTS  NothingIsLost


CHECK_DEADLOCK FALSE
