CONSTANTS
    Count = 210
    DstHops = {3}
    LossModes = {FALSE}
    SrcAddr <- MCSrcAddr
    DstAddr <- MCDstAddr
    EdgeBytes <- MCEdgeBytes
    EdgeLen = 6
    Exceeded = Exceeded
    EchoReply = EchoReply
    NoResp = NoResp
SPECIFICATION Spec
INVARIANT PingRepliesFromDestination
