SPECIFICATION ScenarioSpec
CONSTANTS
    Calls = {1, 2, 3}
    NoCall = 0
    MaxPending = 2
    IdleTtl = 2
    ReqLimit = 9
    RespLimit = 9
    DetectLimit = 2
    Conns = {c1}
    Kinds = {"llm"}
    Shapes <- PlainShapes
    MaxLoss = 2
    Lossy = {"Read"}
    MaxMore = 1
    MaxRead = 4
    EarlyHeads = FALSE
    Retention = 1
    Ticking = FALSE
INVARIANT LossIsContained
INVARIANT CompleteWithoutLoss
PROPERTY BackgroundSettles
