CONSTANTS
    a = a  b = b  c = c
    None = None
    Files <- ThreeFiles
    Texts <- SomeTexts
    TestsOf <- ExtractTests
    TestNames <- SomeTests
    TitledNames <- SomeTitles
SPECIFICATION CollectSpec
INVARIANTS
    Reproducible
    AllFound
    
