CONSTANTS
    k1 = k1  k2 = k2  t1 = t1
    None = None
    Ctx <- TwoContexts
    Tests <- OneTest
    Given <- ThreeOutcomes
    Keep = 3
    MaxRuns = 5
SPECIFICATION FlakySpec
SYMMETRY Symmetric
INVARIANTS
    RecordsFit
    
    CleanIsSaved

    
