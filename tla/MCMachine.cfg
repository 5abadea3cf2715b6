SPECIFICATION Spec
CONSTANTS
    Devices <- SomeDevices
    FittedDevices <- SomeFitted
    PluggableDevices = {"stick"}
    ImportedImages <- SomeImages
    ImagingOps = 4
    StoreParts = {p1, p2}
    Table = table
    Calls = {i1, i2}
    Nobody = none
    StoreRuns = 2
    StoreOps = 2
    StoreFaults = 1
    Tasks = {1, 262144}
    Slots = {0, 1, 2, 128, 7766, 7767, 32768}
    ExportedImages <- SomeExported
    HandMadeManifests <- SomeManifests
    SmallBytes = 4
    ManifestBytes = 5
INVARIANTS CapturedIsWhole RestoredIsImage ArchiveIsFaithful TrafficSeparate
           ReadyIsWhole ImportsEnd
PROPERTIES OthersUntouched
CHECK_DEADLOCK FALSE
