SPECIFICATION Spec
CONSTANTS
    Clients = {p1, p2}
    MaxConnections = 1
    MaxMoves = 2
    Heads <- SomeHeads
    Lookups <- SomeLookups
    Callers = {k1, k2}
    Conns = {c1, c2}
    MaxServes = 2
    Machines = {m1}
    PublicUrls <- SomeUrls
    DiskPartitions <- SomePartitions
    SystemPartition = "a2"
    Fstabs <- SomeFstabs
    Matchings = {"first", "unique"}
    HostMounts <- SomeHostMounts
    Folded <- SomeFolding
    StopAttempts = 2
    RawFiles <- SomeFiles
    PackCommands <- SomeCommands
    PackRuns = 2
INVARIANTS ProxyIsStrict StopsClean BootsItself MountsAreUndone PackedIsWhole
PROPERTY SlotsComeBack
CHECK_DEADLOCK FALSE
