SPECIFICATION Spec
CONSTANTS
    va = va
    vb = vb
    vw = vw
    t1 = t1
    t2 = t2
    s = s
    p = p
    q = q
    Variants = {va, vb, vw}
    WholeTree = {vw}
    Trees = {t1, t2}
    Rules = {s, p, q}
    Spellings = {p, q}
    Policies <- MCPolicies
    Matches <- MCMatches
    Plans <- MCPlans
    MaxRun = 4
    MaxTime = 3
    MaxScan = 3
    Grace = 1
    scan1 = scan1
    scan2 = scan2
    Procs = {scan1, scan2}
INVARIANT LatestInvocationWhole
CHECK_DEADLOCK FALSE
