\* ICMP and UDP traceroute, lossy and loss-free paths, destination 1 to 4 hops away, max_ttl 5, two probes per round.
CONSTANTS
    MaxTtl = 5
    AtOnce = 2
    DstHops = {1, 2, 3, 4}
    Methods = {"icmp", "udp"}
    LossModes = {TRUE, FALSE}
    Exceeded = Exceeded
    Unreach = Unreach
    EchoReply = EchoReply
    NoResp = NoResp
SPECIFICATION Spec
INVARIANT TypeOK
INVARIANT OutputInTtlOrder
INVARIANT NothingAfterArrival
INVARIANT TraceComplete
INVARIANT ReachesDestination
PROPERTY TracerouteTerminates
