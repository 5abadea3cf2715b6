SPECIFICATION Spec
CONSTANTS
    StoreOps = 3
    RunsOps = 3
    FormEdits = 2
    SetupActs = 3
    EditorEdits = 2
    none = none
    StoreImages = {1, 2}
    StoreHosts = {1}
    StorePartitions = {1}
    StoreDefinitions <- SomeDefinitions
    StoreArchives <- SomeArchives
    StoreTexts = {"1"}
    StoreVariables <- SomeVariables
    StoreRequests <- SomeRequests
    StoreNameLen = 2
    StoreScripts = 3
    SetupScripts = {"a", "b"}
    SetupAttached <- SomeAttached
    SetupPartitions = {1}
    PlannedRoots <- SomeRoots
    Restored <- SomeRestored
    Lines = {1, 2}
    Loud = {2}
    HeadBytes = 3
    TailBytes = 2
    LiveBytes = 6
    KeptBytes = 2
    MarkerBytes = 1
    Inside = {3, 6}
    CharBytes = 2
    MaxOutput = 9
INVARIANTS LibraryIsSound AcceptedRuns ScriptsRunOnce OutputKept FormsAreTaken SetupIsKept
PROPERTIES ImportKeepsOthers
CHECK_DEADLOCK FALSE
