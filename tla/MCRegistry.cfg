SPECIFICATION LiveSpec
CONSTANTS
    h1 = h1
    h2 = h2
    Hosts <- MCHosts
    Capacity = 2
    MaxStreams = 3
INVARIANTS NewestIsRegistered EntriesAreServed FeedAgrees
PROPERTY FeedCatchesUp
