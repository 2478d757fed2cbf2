SPECIFICATION RecordsSpec
CONSTANTS
    Commands = {c1, c2}
    Readers = {r1}
    Artifacts = {1}
    Groups = {1}
    Times = {1, 2}
    Keeps = {1, 2}
    MaxSerial = 3
    Nothing = Nothing
    Fingerprints <- ThreeFingerprints
    Contents = {x1, x2, x3}
    NoGroup = NoGroup
SYMMETRY Renamings
INVARIANT
    SummariesComplete
PROPERTIES
    LedgerIsKept
    PruneIsHonest
    LineageIsHonest
CHECK_DEADLOCK FALSE
