CHECK_DEADLOCK FALSE
SPECIFICATION Spec
CONSTANTS
    Addrs = {a1}
    Roles = {"provider", "foreign", "server"}
    BodyHeads = {"other", "short"}
    Evicting = TRUE
    MaxConns = 3
    MaxCalls = 4
INVARIANT MissedForKnownCause
INVARIANT SkippedIsForeign
