SPECIFICATION Spec
CONSTANTS
    h1 = h1  h2 = h2  m1 = m1  m2 = m2
    Hosts = {h1, h2}
    NoHost = none
    StoredTasks <- SomeTasks
    Types = {"reboot"}
    Limit = 1
    MaxTasks = 4
    PageActs = 3
    MaxOutput = 2
    MaxAttempts = 2
    MaxFails = 2
    Machines = {m1, m2}
    Layouts <- SomeLayouts
    StoredHosts <- SomeHosts
    Images <- SomeImages
    MaxHosts = 3
    InventoryActs = 3
    Work <- SomeWork
    Queues = {{1, 3}, {2}, {4}}
    Height = 2
    KeptLines = 4
    MaxScroll = 3
    MaxNaks = 1
    MaxConfirmed = 2
INVARIANTS PagesComplete RestsWhenWhole MeantTarget ScreenIsTrue
PROPERTY RetrySpares
CHECK_DEADLOCK FALSE
