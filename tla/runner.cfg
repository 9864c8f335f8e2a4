\* Two runners and two ports: starts, signals, takeovers and applications that
\* listen, fork, end and ignore signals as they like.
SPECIFICATION FairSpec
CONSTANTS
    r1 = r1
    r2 = r2
    Runners = {r1, r2}
    Ports <- MCPorts
    Told = {r1}
    Stranger = Stranger
    None = None
INVARIANTS
    TypeOK
    RouteReachesOwnApp
    NoAppOutlivesItsRunner
    NobodyLeftUntold
    OwnStatusIsReturned
PROPERTY
    ToldRunnerEnds
