CONSTANTS
    i1 = i1
    i2 = i2
    g1 = g1
    Ifaces <- MCIfaces
    Gateways <- MCGateways
    NoGateway = NoGateway
    NULL = NULL
    RouteFail = RouteFail
    Running = Running
    Crashed = Crashed
    Setups = {"ok", "not_root", "no_args"}
    AddrKinds = {"ipv4", "ipv6", "bad"}
    RouteReplies <- MCRoutedReplies
    LinkModes = {TRUE, FALSE}
    PcapModes = {"ok"}
    Answering = {TRUE, FALSE}
    MallocMayFail = FALSE
SPECIFICATION Spec
INVARIANT TypeOK
INVARIANT NoSetupCrash
INVARIANT ExitAsSpecified
INVARIANT TornDown
