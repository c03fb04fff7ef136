CONSTANTS
    b1 = b1  b2 = b2  t1 = t1  t2 = t2  w1 = w1  w2 = w2  w3 = w3  w4 = w4
    Batches <- MCBatches
    Tests <- MCTests
    Workers <- FourWorkers
    Owner = Owner
    Nobody = Nobody
    NoWorker = NoWorker
    NoBatch = NoBatch
    Size = 1
    MaxRuns = 2
SPECIFICATION FairSpec
INVARIANTS
    
    RoomKept
    PooledInSync
    AnswersAreReplies
PROPERTIES
    ServiceSpec
    
