SPECIFICATION FairSpec
CONSTANTS
    s = s
    a = a
    b = b
    c = c
    NoCall = NoCall
    Calls = {s, a, b, c}
    Startup = s
    Uses = {a, b}
    Large = {b}
    Chunks = 2
    FrameCapacity = 2
    BufferSize = 2
    EventCapacity = 1
    StreamMax = 1
INVARIANTS WaitingIsHeld NobodyLeftBehind ResponseIsOwn
PROPERTIES EveryCallReturns
CHECK_DEADLOCK FALSE
