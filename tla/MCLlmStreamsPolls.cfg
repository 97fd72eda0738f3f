SPECIFICATION Spec
CONSTANTS
    Calls = {1, 2, 3}
    NoCall = 0
    MaxPending = 1
    IdleTtl = 2
    ReqLimit = 4
    RespLimit = 4
    DetectLimit = 2
    Conns = {c1, c2}
    Kinds = {"llm", "poll"}
    Shapes <- PollShapes
    MaxLoss = 0
    Lossy = {"Read", "Write", "Closed"}
    MaxMore = 0
    MaxRead = 4
    EarlyHeads = FALSE
    Retention = 1
    Ticking = TRUE
SYMMETRY Symmetry
INVARIANT ExportedCallIsOver
PROPERTY ImplementsLedger
