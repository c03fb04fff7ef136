CONSTANTS
    c1 = c1  c2 = c2  k1 = k1  t1 = t1
    Clients <- TwoClients
    Keys <- OneKey
    Repos <- OneRepo
    RepoOf <- SameRepo
    Tests <- OneTest
    Asks <- AllRequests
    Backlog = 2
    Faults = FALSE
    None = None
SPECIFICATION Spec
SYMMETRY ClientSymmetry
INVARIANTS
    HashDescribesInventory
    ServedOnce
PROPERTIES
    ServiceSpec
