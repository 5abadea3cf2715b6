SPECIFICATION Spec
CONSTANTS
    Images = {1, 2}
    Hosts = {1}
    Archived = {1}
    NoRoot = 0
    Definitions <- MCDefinitions
    Archives = {}
    Texts = {"1"}
    Empty = ""
    NoValue = "none"
    Variables <- MCVariables
    Requests <- MCRequests
    MaxNameLen = 2
    MaxScripts = 3
    MaxOps = 4
INVARIANT StaleMeansChanged
CHECK_DEADLOCK FALSE
