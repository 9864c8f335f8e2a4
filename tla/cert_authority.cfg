\* Three daemons, one after the other or at once, and the trust and clean
\* commands around them.
SPECIFICATION Spec
CONSTANTS
    d1 = d1
    d2 = d2
    d3 = d3
    Daemons = {d1, d2, d3}
    h1 = h1
    Hosts = {h1}
    Root = Root
    Missing = Missing
    Torn = Torn
    MaxKeys = 3
SYMMETRY MCSymmetry
CHECK_DEADLOCK FALSE
INVARIANTS
    TypeOK
    RootPairMatches
    SavedLeavesHaveTheirRoot
    ServedLeavesVerify
    MarkedRootIsTrusted
    UnmarkedMeansUntrusted
