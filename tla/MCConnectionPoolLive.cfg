SPECIFICATION FairSpec
CONSTANTS
    c1 = c1
    t1 = t1
    t2 = t2
    Monitor = Monitor
    Heartbeat = Heartbeat
    Nobody = Nobody
    Workers = {t1, t2}
    Callers = {c1}
    Size = 1
    Attempts = 0
    Endless = TRUE
    MaxStray = 0
PROPERTIES AcquireReturns ReconnectionEnds
CHECK_DEADLOCK FALSE
