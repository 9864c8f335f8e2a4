\* Two updates that may overlap, and a command that checks for releases.
SPECIFICATION Spec
CONSTANTS
    u1 = u1
    u2 = u2
    c1 = c1
    Updates = {u1, u2}
    Commands = {c1}
    Versions <- MCVersions
    None = None
CHECK_DEADLOCK FALSE
INVARIANTS
    TypeOK
    ABinaryRemains
    ExecutableInPlace
PROPERTIES
    NeverOlder
    NewReleaseIsAnnounced
