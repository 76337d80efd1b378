\* A retry followed by the answer to the first transmission: which RTT is printed?
CONSTANTS
    Batches <- TracerouteBatches
    Retries = 1
    Timeout = 1
    SendWait = 1
    TicksPerSec = 2
    MaxTime <- MCMaxTime
    RetryCap = 1
    Exceeded = Exceeded
    Unreach = Unreach
    OtherIcmp = OtherIcmp
    NoResp = NoResp
SPECIFICATION Spec
INVARIANT RttPrinted

