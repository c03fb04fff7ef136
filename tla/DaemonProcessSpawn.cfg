CONSTANTS
    d1 = d1  d2 = d2  d3 = d3  c1 = c1
    Daemons <- ThreeDaemons
    Clients <- OneClient
    Attempts = 2
    None = None
SPECIFICATION FairSpec
INVARIANTS
    PathKept
PROPERTIES
    ConnectReturns
    SpawnServes
