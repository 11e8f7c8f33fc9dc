SPECIFICATION Spec
CONSTANTS
    UUID_LEN = 2
    PAYLOAD_SIZE_LIMIT = 32
    Bodies = {5}
    LargeBodies <- RegularBodies
    Envelopes <- MCEnvelopes
    MaxSent = 3
    MaxDamaged = 1
    ReadSizes = {1, 2, 11}
INVARIANTS PayloadFits NothingIsLost ReadersAgree
PROPERTIES FramingIsAChannel

CHECK_DEADLOCK FALSE
