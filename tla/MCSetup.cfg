CHECK_DEADLOCK FALSE
SPECIFICATION SetupSpec
CONSTANTS
    p = p
    q = q
    lib = lib
    crypto = crypto
    exe = exe
    Hosts = {h, x}
    External = {x}
    Addrs = {1, 2, 3}
    V6 = {3}
    Services <- FewServices
    Capacity = 1
    Pids = {p, q}
    LocalIp <- LocalIpOf
    Ports = {80}
    Sockets = {c1, c2}
    ConnsSize = 1
    RingSize = 2
    MaxChanges = 1
    MaxFailures = 1
INVARIANT ProbesFitTogether
INVARIANT TriedIsProbed
PROPERTY OpenIsTried
INVARIANT ReusedFlowIsNewStream
PROPERTY KernelFollowsCluster
