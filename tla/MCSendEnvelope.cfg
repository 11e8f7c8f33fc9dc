SPECIFICATION FairSpec
CONSTANTS
    n1 = n1
    n2 = n2
    Nodes = {n1, n2}
    NoNode = NoNode
    MaxExecutions = 2
    MaxPlan = 2
    Repeats = FALSE

INVARIANT NoBlindResend
INVARIANT DistinctNodes
INVARIANT ResendsBounded
INVARIANT PanicsOnlyAfterIoError
PROPERTY NoNodesIsLast
PROPERTY EveryCallEnds
CHECK_DEADLOCK FALSE
