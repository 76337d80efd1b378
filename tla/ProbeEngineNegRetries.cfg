\* A negative -r: does mt_wait still return?
CONSTANTS
    Batches <- SingleBatch
    Retries <- NegativeRetries
    Timeout = 1
    SendWait = 1
    TicksPerSec = 2
    MaxTime <- MCMaxTimeShort
    RetryCap = 1
    Exceeded = Exceeded
    Unreach = Unreach
    OtherIcmp = OtherIcmp
    NoResp = NoResp
SPECIFICATION Spec
PROPERTY AllBatchesProbed
