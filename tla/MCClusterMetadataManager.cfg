SPECIFICATION FairSpec
CONSTANTS
    h1 = h1
    h2 = h2
    h3 = h3
    a1 = a1
    a2 = a2
    a3 = a3
    None = None
    LocalDc = "dc1"
    Hosts = {h1, h2, h3}
    Addresses = {a1, a2, a3}
    Names = {k}
    Members = {h1, h2}
    IncompleteRows = {h3}
    ContactPoints = {a1}
    Dc <- MCDc
    Rack <- MCRack
    Tokens <- MCTokens
    HomeAddress <- MCHomeAddress
    EventCapacity = 3
    MaxChanges = 3
    MaxFailures = 1
INVARIANTS RingIsNodes OneNodePerAddress MetadataFollows
PROPERTIES ControlConnectionReturns
CHECK_DEADLOCK FALSE
