CHECK_DEADLOCK FALSE
SPECIFICATION Spec
CONSTANTS
    Wires <- FourFrames
    Joins = {0}
    HeadLen = 2
    MaxFrame = 3
    MaxBlock = 1
    BufSize = 1
    MaxFragments = 2
    Lengths = {1, 3, 6}
    MaxLoss = 1
INVARIANT HeadsAreHeads
