CONSTANTS
    None = None
    NoDelay = NoDelay
    a1 = a1  a2 = a2  n1 = n1  k1 = k1  k2 = k2
    Password = Password  Custom = Custom
    Jitters = {85, 115}
    ShiftWidth = 2
    Direct = {a1}
    Hostnames = {n1}
    Lookup <- MCLookup
    NodeSettings <- MCNodeSettings
    SessionSettings <- MCSessionSettings
    Defaults <- MCDefaults
    Keyspaces = {k1, k2}
    Policies <- MCPolicies
    Servers <- MCServers
    MaxContactPoints = 1
    MaxChallenges = 2
    MaxUses = 1
    MaxFailures = 1
SPECIFICATION FairSpec
INVARIANTS FormatsAgree UsableMeansAccepted CredentialsOnlyWhenAsked RetriesArePaced
PROPERTIES StartupEnds
CHECK_DEADLOCK FALSE
