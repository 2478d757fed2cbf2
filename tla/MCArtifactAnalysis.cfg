SPECIFICATION AnalysisSpec
CONSTANTS
    s1 = s1
    s2 = s2
    s3 = s3
    Symbols <- ThreeSymbols
    Several = Several
    None = None
    f = f
    g = g
    h = h
    a = a
    b = b
    Outside = Outside
    Functions <- ThreeFunctions
    Contents <- TwoContents
    MaxCalls = 2
    MaxUncollected = 1
    MaxReferences = 1
    Members <- FourMembers
    Newcomers <- TwoNewcomers
    Codes <- ThreeCodes
    Rebuilds <- SmallRebuilds
    MaxTraits = 2
INVARIANTS
    SharedIsReachedTwice
    GraphIsHonest
    SmallIsExact
    IdentitiesLast
CHECK_DEADLOCK FALSE
