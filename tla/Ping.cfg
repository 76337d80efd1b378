CONSTANTS
    Count = 210
    DstHops = {1, 3}
    LossModes = {FALSE, TRUE}
    SrcAddr <- MCSrcAddr
    DstAddr <- MCDstAddr
    EdgeBytes <- MCEdgeBytes
    EdgeLen = 6
    Exceeded = Exceeded
    EchoReply = EchoReply
    NoResp = NoResp
SPECIFICATION Spec
INVARIANT TypeOK
INVARIANT ChecksumTrickSound
INVARIANT ChecksumMatchesRef
