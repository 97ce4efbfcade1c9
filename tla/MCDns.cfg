SPECIFICATION Spec
CONSTANTS
    DsPorts = {1, 2}
    DsRuns = 2
    DsRequests = {1}
    DsFaults = 2
    DsCrashes = 1
    DlConns = {1, 2}
    DlDatagrams = {1, 2}
    DlConnCap = 2
    DlReqCap = 2
    DlQueryCap = 2
    DrPairs = {"a", "b", "c"}
    DrPool = {"a", "b"}
    DrQueries = {1}
    DrSlots = 2
    DrTable = 2
    DrEdits = 2
    DrProbes = 1
    SfQueries = {1, 2, 3}
    SfGens = 3
    FdKeys = {"a", "b"}
    FdCap = 1
    FdFlights = 2
    FdCallers = {1}
    FdWorkers = {1, 2}
    FdEdits = 2
    FmLists = {"a", "b"}
    FmVersions = 2
    FmUpdates = 2
    FmConfigs = 2
    FmResolvers = 3
    DaConns = {1, 2}
    DaRuns = 3
    DaFaults = 2
    Callers = {c1, c2}
    Questions = {k1}
    Flights = {f1, f2}
    NoFlight = none
    NoKey = nokey
    MaxFlights = 1
    MaxWaiters = 2
    CacheSize = 1
    MaxClears = 1
INVARIANTS LocalAnswersSafe
PROPERTIES DnsServiceSafe RaceSafe FallbackSafe AdapterSafe FlightsSafe
CHECK_DEADLOCK FALSE
