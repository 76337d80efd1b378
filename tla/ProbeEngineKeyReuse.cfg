\* Two batches with the same key, as MDA's more_flows and next_hops send: is a late answer matched to the wrong probe?
CONSTANTS
    Batches <- MdaBatches
    Retries = 0
    Timeout = 1
    SendWait = 1
    TicksPerSec = 2
    MaxTime <- MCMaxTime
    RetryCap = 1
    Exceeded = Exceeded
    Unreach = Unreach
    OtherIcmp = OtherIcmp
    NoResp = NoResp
SPECIFICATION Spec
INVARIANT ResponseAnswersOwnProbe

