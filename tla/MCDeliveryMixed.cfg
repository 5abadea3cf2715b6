SPECIFICATION LiveSpec
CONSTANTS
    Tasks = {1, 2, 3}
    Kind <- Mixed
    Conns = {c1, c2}
    Calls = {i1}
    c1 = c1
    c2 = c2
    i1 = i1
    i2 = i2
    None = None
    Undoable = {3}
    MaxOps = 1
    MaxFaults = 1
INVARIANT WorksOnCurrent
PROPERTIES RowsLive EveryTaskServed
CHECK_DEADLOCK FALSE
