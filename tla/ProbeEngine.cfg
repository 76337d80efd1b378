\* Traceroute-shaped batches: distinct keys, one retry, 1 s timeout,
\* two ticks per second, send wait of one tick.
CONSTANTS
    Batches <- TracerouteBatches
    Retries = 1
    Timeout = 1
    SendWait = 1
    TicksPerSec = 2
    MaxTime <- MCMaxTime
    RetryCap = 1
    Exceeded = Exceeded
    Unreach = Unreach
    OtherIcmp = OtherIcmp
    NoResp = NoResp
SPECIFICATION Spec
INVARIANT TypeOK
INVARIANT ResponseAnswersOwnProbe
INVARIANT WaitBounded
PROPERTY AnsweredProbeIsFinal
PROPERTY AllBatchesProbed
PROPERTY LifecycleRefinement
