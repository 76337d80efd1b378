\* TCP traceroute over a path that loses nothing.
CONSTANTS
    MaxTtl = 5
    AtOnce = 2
    DstHops = {1, 2, 3, 4}
    Methods = {"tcp"}
    LossModes = {FALSE}
    Exceeded = Exceeded
    Unreach = Unreach
    EchoReply = EchoReply
    NoResp = NoResp
SPECIFICATION Spec
INVARIANT ReachesDestination
