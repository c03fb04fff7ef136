CONSTANTS
    t1 = t1  t2 = t2  t3 = t3
    Tests <- ThreeTests
    Durations <- ShortAndLong
    Keep = 2
    Default = 3
    Boost = 2
    MinBatch = 1
    Requests <- AllLists
    MaxWorkers = 4
SPECIFICATION SchedSpec
INVARIANTS
    
    SplitPartitions
    GreedyBound
    FailuresFirst
