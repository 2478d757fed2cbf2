SPECIFICATION Spec
CONSTANTS
    MaxId = 1
    PipeCap = 1
    AnswerCap = 1
    MaxLies = 1
    MaxPiece = 6
    u1 = u1
    u2 = u2
    Units <- TwoUnits
    MaxRestarts = 2
    c1 = c1
    c2 = c2
    Commands <- TwoCommands
    None = None
    Old = Old
    MayForce = TRUE
INVARIANTS
    ConversationIsSound
    InputIsSound
    SupervisionIsSound
PROPERTIES
    PromiseKept
    CommandsAreSound
    EveryWaitEnds
CHECK_DEADLOCK FALSE
