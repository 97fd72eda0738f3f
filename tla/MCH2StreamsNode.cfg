CHECK_DEADLOCK FALSE
SPECIFICATION Spec
CONSTANTS
    Conns = {c1}
    Plain = {}
    Ids = {1, 3}
    Kinds = {"json"}
    Heads = {"head"}
    Seen = {TRUE}
    Parts = 1
    MaxStreams = 2
    StreamCap = 3
    ConnCap = 1
    MidjoinCap = 1
    NodeCap = 1
    Run = 3
    Word = 8
    MaxLoss = 1
    MaxCalls = 6
INVARIANT NodeBytes
