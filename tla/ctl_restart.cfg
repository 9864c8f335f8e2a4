\* One runner and one client, failing writes, the daemon down and started
\* again, aliases edited while it is down; fair clients, handlers and processes.
SPECIFICATION FairSpec
CONSTANTS
    p1 = p1
    p2 = p2
    n1 = n1
    h1 = h1
    Names = {n1}
    Pids = {p1}
    NoPid = NoPid
    Hosts = {h1}
    NoRoute = NoRoute
    Expansion <- MCExpansionOne
    Clients = {c1}
    RunName <- MCOneRunner
    Ops = {"anonymous", "hostname", "prune", "offline"}
    HostsSync = TRUE
    WriteMayFail = TRUE
    MaxEpochs = 2
CHECK_DEADLOCK FALSE
INVARIANTS
    TypeOK
    SavedUnlessTorn
PROPERTIES
    EveryCallEnds
    TakenOverRunnerEnds
    ImplementsService
