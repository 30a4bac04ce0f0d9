CONSTANTS
    a = a
    b = b
    c = c
    NoNode = NoNode
    Node <- MCNode
    MaxVisiblePending = 2
    AnchorDecisions <- MCAnchorDecisions
    FrontierDecisions <- MCFrontierDecisions
    Expansions <- MCExpansions
    Annotations = {"setContext"}
    MaxEvents = 7
    MaxExpandCalls = 1
SPECIFICATION Spec
INVARIANTS TypeOK KnownMatchesLog LogIsReplayable VisibleArePending CountersMatchLog
PROPERTIES NeverBackToPending LogKept
