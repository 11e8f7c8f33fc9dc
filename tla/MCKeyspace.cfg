SPECIFICATION MCFairSpec
CONSTANTS
    p1 = p1
    p2 = p2
    k1 = k1
    k2 = k2
    s1 = s1
    None = None
    Pools = {p1, p2}
    Slots = {s1}
    Keyspaces = {k1, k2}
    MaxUses = 2
    MaxFaults = 1
INVARIANTS QuietMeansAgreed
CHECK_DEADLOCK FALSE
PROPERTIES SettlesOnOne
