SPECIFICATION Spec
CONSTANTS
    SxSets = {"a"}
    SxKeep = 1
    SxOps = 3
    SxFaults = 2
    ByEdits = 2
    ByFaults = 2
    ByRebuilds = 1
    PpPorts = {80, 81, 82}
    PpDefault = 80
    PpChanges = 3
    PpFaults = 2
    SuSize = 2
    SuReleases = 2
    SuTries = 2
    SuFaults = 4
    PfRules = {"x", "y"}
    PfChanges = 2
    PfFaults = 2
    PfRebuilds = 1
    MsIfaces = {1, 2, 3}
    MsWan = {3}
    MsFakes = {11, 12}
    MsOps = 2
    MsFaults = 2
    AiAsks = 3
    AiFaults = 3
    AiEdits = 2
    Endpoints = {"e1", "e2"}
    Originals <- SomeOriginals
    MaxFailures = 1
    MaxCrashes = 2
    MaxPowerLosses = 1
    MaxEdits = 1
    MaxFaults = 2
INVARIANTS Recoverable
CHECK_DEADLOCK FALSE
