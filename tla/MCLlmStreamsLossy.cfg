SPECIFICATION Spec
CONSTANTS
    Calls = {1, 2, 3}
    NoCall = 0
    MaxPending = 2
    IdleTtl = 2
    ReqLimit = 4
    RespLimit = 4
    DetectLimit = 2
    Conns = {c1}
    Kinds = {"llm", "other"}
    Shapes <- LossyShapes
    MaxLoss = 2
    Lossy = {"Read", "Write", "Closed"}
    MaxMore = 1
    MaxRead = 4
    EarlyHeads = FALSE
    Retention = 1
    Ticking = FALSE
INVARIANT TypeOK
INVARIANT AtMostOnce
INVARIANT NotedRequestIsAtItsOffset
INVARIANT NoFalseCaptureLoss
INVARIANT NoForeignUsage
