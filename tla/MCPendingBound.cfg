CONSTANTS
    a = a
    b = b
    c = c
    NoNode = NoNode
    Generations = 3
    Node <- MCNode
    Child <- MCChild
    IdOrder <- MCIdOrder
    SessionGraphs <- MCSessionGraphs
    Depths = {0, 1, 2}
    MaxVisiblePending = 2
    AnchorDecisions = {}
    FrontierDecisions = {}
    Expansions = {}
    Annotations = {}
    MaxEvents = 8
    MaxExpandCalls = 2
SPECIFICATION LookaheadSpec
INVARIANTS PendingWithinLimit
