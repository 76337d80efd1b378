CONSTANTS
    A = A
    B = B
    C = C
    E = E
    D = D
    Dst = D
    Root = Root
    Star = Star
    MaxTtl = 2
    MaxFlowId = 6
    FlowsAtOnce = 1
    K <- MCK
    Paths <- EvenDiamond
    PerPacketModes = {FALSE}
    LossModes = {FALSE}
    MaxLost = 0
SPECIFICATION Spec
INVARIANT ConfidenceReached
