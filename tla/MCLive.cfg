SPECIFICATION Spec
CONSTANTS
    Queries = {q1}
    Appliers = {a1, a2}
    Addrs = {x}
    Unrouted = unrouted
    Nobody = nobody
    MaxApplies = 3
    Jobs = {j1}
    Kinds = {"plain", "auto", "check"}
    Asked = {2}
    MaxThreads = 2
    PlanLen = 2
    Callers = {}
    None = None
    Faults = {"disturb", "shutdown"}
    MaxFaults = 1
PROPERTIES GateEnds JobEnds
CHECK_DEADLOCK FALSE
