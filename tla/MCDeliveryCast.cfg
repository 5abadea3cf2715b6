SPECIFICATION CastSpec
CONSTANTS
    Tasks = {1, 2}
    Kind <- MulticastFirst
    Conns = {c1, c2}
    Calls = {i1}
    c1 = c1
    c2 = c2
    i1 = i1
    i2 = i2
    None = None
    Undoable = {}
    MaxOps = 1
    MaxFaults = 1
PROPERTIES ManagerStartsMulticasts MulticastsEnd
CHECK_DEADLOCK FALSE
