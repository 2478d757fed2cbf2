SPECIFICATION Spec
CONSTANTS
    p1 = p1
    p2 = p2
    i1 = i1
    i2 = i2
    Procs = {p1, p2}
    Inodes = {i1, i2}
    MaxRow = 1
PROPERTY RefusedOnlyWhenInUse
CHECK_DEADLOCK FALSE
