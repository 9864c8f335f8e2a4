\* A stop and a start right after it.
SPECIFICATION Spec
CONSTANTS
    d1 = d1
    d2 = d2
    d3 = d3
    q1 = q1
    q2 = q2
    Daemons = {d1, d2}
    Starters = {s1}
    Ports = {q1}
    PortOf <- MCOnePortTwo
    None = None
    StartMayFail = FALSE
CHECK_DEADLOCK FALSE
INVARIANT
    RestartLeavesDaemon
