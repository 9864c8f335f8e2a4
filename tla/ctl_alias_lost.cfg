\* A runner and an alias whose handlers overlap.
SPECIFICATION Spec
CONSTANTS
    p1 = p1
    p2 = p2
    n1 = n1
    h1 = h1
    Names = {n1}
    Pids = {p1}
    NoPid = NoPid
    Hosts = {h1}
    NoRoute = NoRoute
    Expansion <- MCExpansionOne
    Clients = {c1}
    RunName <- MCOneRunner
    Ops = {"alias"}
    HostsSync = TRUE
    WriteMayFail = FALSE
    MaxEpochs = 1
CHECK_DEADLOCK FALSE
INVARIANT
    AliasesPersist
