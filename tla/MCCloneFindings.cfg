SPECIFICATION Spec
CONSTANTS
    Units <- FourUnits
    Keys <- ThreeKeys
    Arms <- SomeArms
    Accept = 7
    Floor = 6
    PostingCap = 4
    SamplingThreshold = 3
    SampleSize = 2
    Inputs <- SomeInputs
INVARIANTS
    GroupsAreTrue
    FindingsAreStable
    RunsAreTrue
CHECK_DEADLOCK FALSE
