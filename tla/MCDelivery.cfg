SPECIFICATION SlotsSpec
CONSTANTS
    Tasks = {1, 2}
    Kind <- TwoDeploys
    Conns = {c1, c2}
    Calls = {i1, i2}
    c1 = c1
    c2 = c2
    i1 = i1
    i2 = i2
    None = None
    Undoable = {}
    MaxOps = 2
    MaxFaults = 1
INVARIANTS NoLostWakeup WorksOnCurrent NoRedo
SYMMETRY Slots
CHECK_DEADLOCK FALSE
