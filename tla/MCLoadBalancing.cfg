CONSTANTS
    None = None
    h1 = h1  h2 = h2  h3 = h3  h4 = h4
    d1 = d1  d2 = d2  r1 = r1  r2 = r2  r3 = r3
    simple = simple  strict = strict  network = network  wide = wide  other = other
    LocalDc = d1
    Order <- MCOrder
    IndexLimit = 3
    Clusters <- MCClusters
    Strategies <- MCStrategies
    KeyspaceTables <- MCKeyspaceTables
    Statements <- MCStatements
    CurrentKeyspaces = {None, network}
    ContactPoints <- MCContactPoints
    Generate <- MCGenerate
SPECIFICATION Spec
INVARIANTS PlanNamesNodesOnce PlanCoversLocalNodes ReplicasComeFirst RoutedByPartition
CHECK_DEADLOCK FALSE
