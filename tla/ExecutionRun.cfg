CONSTANTS
    t1 = t1  t2 = t2  t3 = t3  t4 = t4
    None = None
    Tests <- FourTests
    NameOf <- Names
    InClass <- OneMethod
    Requests <- SomeRequests
    SkipMarked <- OneSkipped
    Modes = {"subprocess", "embedded"}
    Batch = 2
    Workers = 2
SPECIFICATION ExecSpec
INVARIANTS
    OneResultEach
    LinesBelieved
    
    SummaryAddsUp
