\* A runner that ends while the daemon is down.
SPECIFICATION Spec
CONSTANTS
    p1 = p1
    p2 = p2
    n1 = n1
    h1 = h1
    Names = {n1}
    Pids = {p1}
    NoPid = NoPid
    Hosts = {h1}
    NoRoute = NoRoute
    Expansion <- MCExpansionOne
    Clients = {}
    RunName <- MCOneRunner
    Ops = {}
    HostsSync = TRUE
    WriteMayFail = FALSE
    MaxEpochs = 2
CHECK_DEADLOCK FALSE
INVARIANT
    RoutesRemovedOnExit
