CONSTANTS
    t1 = t1  t2 = t2  t3 = t3  t4 = t4
    None = None
    Tests <- FourTests
    NameOf <- Names
    InClass <- OneMethod
    Requests <- ThreeLong
    SkipMarked <- OneSkipped
    Modes = {"subprocess"}
    Batch = 2
    Workers = 2
SPECIFICATION ExecSpec
INVARIANT ExitCodesMatch
