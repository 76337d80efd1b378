SPECIFICATION Spec
CONSTANTS
    Strategies <- MCTcpSport
    Ttls = {1, 255}
    Src4 <- MCSrc4
    Dst4 <- MCDst4
    Src6 <- MCSrc6
    Dst6 <- MCDst6
    OtherIds = {1, 2, 255}
INVARIANT FlowIdRoundTrip
