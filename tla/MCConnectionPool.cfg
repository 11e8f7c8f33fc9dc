SPECIFICATION Spec
CONSTANTS
    c1 = c1
    t1 = t1
    t2 = t2
    Monitor = Monitor
    Heartbeat = Heartbeat
    Nobody = Nobody
    Workers = {t1, t2}
    Callers = {c1}
    Size = 2
    Attempts = 1
    Endless = FALSE
    MaxStray = 1
SYMMETRY Symmetry
INVARIANTS OneReconnection MissingIsNoticed ForcedDownIsLeftAlone
PROPERTIES GiveUpMeansAllDown
CHECK_DEADLOCK FALSE
