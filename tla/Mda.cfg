CONSTANTS
    A = A
    B = B
    C = C
    E = E
    D = D
    Dst = D
    Root = Root
    Star = Star
    MaxTtl = 3
    MaxFlowId = 6
    FlowsAtOnce = 1
    K <- MCK
    Paths <- UnevenDiamond
    PerPacketModes = {FALSE}
    LossModes = {FALSE, TRUE}
    MaxLost = 1
SPECIFICATION Spec
INVARIANT TypeOK
INVARIANT NthMatchesRef
INVARIANT PerPacketOnlyIfPerPacketLB
INVARIANT NoFalseLink
PROPERTY MoreFlowsReachesTarget
PROPERTY MdaTerminates
