SPECIFICATION StoreSpec
CONSTANTS
    v1 = v1
    t1 = t1
    t2 = t2
    s1 = s1
    s2 = s2
    Variants = {v1}
    Trees = {t1, t2}
    Rules = {s1, s2}
    Spellings = {s2}
    Policies <- MCPolicies
    MaxRun = 2
    MaxTime = 1
    MaxScan = 0
    Grace = 1
INVARIANTS
    StoreTypeOK
    NoOrphanFingerprint
    NoDanglingRule
    TokenNamesItsOwnRun
PROPERTIES
    CompletedIsHistory
    LiveRunVanishesOnlyWhenReleased
SYMMETRY TreeSymmetry
CHECK_DEADLOCK FALSE
