\* Two routes over three nested names, of which one may have two or three.
SPECIFICATION FairSpec
CONSTANTS
    r1 = r1
    r2 = r2
    Routes = {r1, r2}
    Hosts <- MCHosts
    NoRoute = NoRoute
    NoEdit = NoEdit
    Torn = Torn
    Expansion <- MCExpansion
    Edited = {r1}
    MaxNames = 2
INVARIANTS
    TypeOK
    LookupIsLongest
    CertificateCoversHost
    OnlyOwnNamesAreRead
    KeptNamesAreListed
PROPERTY
    RequestsEnd
