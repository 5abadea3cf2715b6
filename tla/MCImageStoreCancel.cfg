SPECIFICATION Spec
CONSTANTS
    Parts = {p1}
    Table = Table
    Calls = {i1}
    p1 = p1
    p2 = p2
    i1 = i1
    i2 = i2
    None = None
    MaxRuns = 1
    MaxOps = 1
    MaxFaults = 0
INVARIANTS DoneKeepsImage
CHECK_DEADLOCK FALSE
