SPECIFICATION MCSpec
CONSTANTS
    Hosts = {1, 2}
    Casts = {1, 2}
    Steps = 2
    Addresses = {1, 2}
    NoAddress = NoAddress
    MaxOps = 1
    MaxFaults = 1
INVARIANT AwaitedInStep
PROPERTIES OnlyKickedAreEvicted WorkerMovesOn
CHECK_DEADLOCK FALSE
