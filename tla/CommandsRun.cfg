CONSTANTS
    c1 = c1  c2 = c2  t1 = t1  t2 = t2  p1 = p1  p2 = p2
    None = None
    Cmds <- TwoCommands
    Tests <- TwoTests
    Words <- BothAuth
    Markers <- OneSlow
    Exprs <- AllExprs
    Length <- Lengths
    Options <- SomeOptions
    Paths <- TwoPaths
    TestPaths <- Configured
    Begins <- BeginsSome
SPECIFICATION CmdSpec
SYMMETRY Symmetric
INVARIANTS
    CmdTypeOK
    CacheComplete
    NothingElseRuns
PROPERTIES
    CachedRunCovers
