SPECIFICATION Spec
CONSTANTS
    CfServers = {"p", "r"}
    CfPrimary = "p"
    CfMaxEdits = 1
    MpMaxFaults = 2
    MpMaxEdits = 1
    CeFaults = 1
    CeEdits = 2
    RoIds = {1, 2, 3, 4}
    RoRules = {1, 2, 3}
    RoEdits = 3
    RoFaults = 1
    RdSights <- SomeSights
    RdRare = 2
    RdRuleLimit = 1
    RdLimit = 1
    RdIPLimit = 1
    RdScopes = 1
    RdObservers = {1}
    RdClock = {1, 2}
    RdAnswers = 2
    RdEvents = 2
INVARIANTS RoutingSafe ClientSafe
PROPERTIES FailoverKept LearningSafe RulesSafe
CHECK_DEADLOCK FALSE
