SPECIFICATION Spec
CONSTANTS
    NumFiles = 2
    Contents <- MCContents
    Roots <- MCRoots
    NumTcps = 2
    Tcps = {"tcp"}
    Absent = Absent
    Unloaded = Unloaded
    MaxSaves = 2
    MaxNoise = 1
INVARIANTS
    TypeOK
    SitesInSync
    TcpInSync
PROPERTIES
    RootInSync
    ComesToRest
