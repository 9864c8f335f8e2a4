\* Three daemons told the same port (q2 stays free), one start command, stops, failures and crashes.
SPECIFICATION FairSpec
CONSTANTS
    d1 = d1
    d2 = d2
    d3 = d3
    q1 = q1
    q2 = q2
    Daemons = {d1, d2, d3}
    Starters = {s1}
    Ports = {q1, q2}
    PortOf <- MCOnePort
    None = None
    StartMayFail = TRUE
CHECK_DEADLOCK FALSE
INVARIANTS
    TypeOK
    ServingDaemonIsReachable
    ExitedDaemonLeavesNoFiles
PROPERTY
    StoppedDaemonEnds
