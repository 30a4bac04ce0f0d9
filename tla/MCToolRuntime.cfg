CONSTANTS
    a = a
    b = b
    NoNode = NoNode
    Query = {q}
    Policy = {p1, p2}
    NoPolicy = NoPolicy
    Node <- MCNode
    Nodes <- MCNodes
    Depth = {0, 1, 2}
    LastVersion = 2
    MaxCalls = 3
SPECIFICATION Spec
INVARIANTS TypeOK NothingWithoutPolicy RecorderWithinHistories AdviceFollowsCalls LabelsAreOfTrace AnswerIsOfDecidedGraph
