SPECIFICATION SharedSpec
CONSTANTS
    o1 = o1
    o2 = o2
    None = None
    Other = Other
    MaxAttempts = 2
    Openers <- TwoOpeners
    Marks <- AnyMark
    Found <- OursOrOthers
    MaxCommits = 2
    Faults <- AnyFault
    c1 = c1
    Commands <- OneCommand
    Sites <- ThreeSites
    Families <- OneFamily
    Partitions <- TwoVariants
    SitesOf <- SitesSeen
    Rules <- OneRule
    Contracts <- TwoContracts
    StartTree <- TwoCopies
    MaxInvocation = 3
    MaxChange = 1
    NoCode = NoCode
    Nothing = Nothing
INVARIANTS
    OpeningsAreSafe
    BaselineIsHonest
PROPERTIES
    IncompatibleIsLeftAlone
    OpeningsEnd
    HiddenWasShown
CHECK_DEADLOCK FALSE
