CONSTANTS
    d1 = d1  d2 = d2  d3 = d3
    Daemons <- TwoDaemons
    Clients <- NoClients
    Attempts = 1
    MaxRestarts = 1
    RestartBound = 1
    None = None
SPECIFICATION LifecycleSpec
INVARIANTS
    LifecycleTypeOK
    TrackedInStep
    NoneLost
    RestsSettled
