CONSTANTS
    watcher = watcher  ctx = ctx  t1 = t1  test_a = test_a  conftest = conftest
    Clients <- OneClient
    Keys <- OneKey
    Repos <- OneRepo
    RepoOf <- InRepo
    Tests <- OneTest
    Asks <- NoRequests
    Backlog = 2
    Faults = FALSE
    None = None
    W = watcher
    K = ctx
    TestFiles <- OneFile
    Sources <- Nothing
    Conftest = conftest
    FileOf <- SameFile
    Uses <- NoUses
    Changes <- AnyFile
    Batches = 2
SPECIFICATION WatchSpec
INVARIANTS
    WatchTypeOK
PROPERTIES
    LoopComesBack
    ChangesArrive
    
