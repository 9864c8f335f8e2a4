\* Two runners of the same name and one client: forced registers, aliases and
\* prune around the deaths of the runners, in the life of one daemon.
SPECIFICATION Spec
CONSTANTS
    p1 = p1
    p2 = p2
    n1 = n1
    h1 = h1
    Names = {n1}
    Pids = {p1, p2}
    NoPid = NoPid
    Hosts = {h1}
    NoRoute = NoRoute
    Expansion <- MCExpansionOne
    Clients = {c1}
    RunName <- MCSameName
    Ops = {"alias", "unalias", "prune"}
    HostsSync = TRUE
    WriteMayFail = FALSE
    MaxEpochs = 1
SYMMETRY MCSymmetry
CHECK_DEADLOCK FALSE
INVARIANTS
    ServingOwnsRoute
    ExitedLeavesNoRoute
PROPERTY
    AliasLostOnRequest
