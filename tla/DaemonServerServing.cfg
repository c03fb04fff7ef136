CONSTANTS
    c1 = c1  c2 = c2  k1 = k1  t1 = t1
    Clients <- TwoClients
    Keys <- OneKey
    Repos <- OneRepo
    RepoOf <- SameRepo
    Tests <- OneTest
    Asks <- ForcedRequests
    Backlog = 1
    Faults = TRUE
    None = None
SPECIFICATION FairSpec
PROPERTIES
    Served
