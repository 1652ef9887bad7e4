SPECIFICATION Spec
CONSTANTS
    Labels <- MCLabels
    Parents <- MCParents
    DottedParents <- MCDottedParents
    Forms <- MCForms
    MaxDots = 0
    Paths <- MCPaths
    Addresses <- MCAddresses
    Files <- MCFiles
    Requests <- MCRequests
    Versions <- MCVersions
    MaxReloads = 2
    MaxRetries = 1
INVARIANTS
    TypeOK
    ServedByOwnSite
    HostOfPeer
    ClosedPathsHidden
    PanicOnlyAfterReload
    LoggedUnderOwnSite
CHECK_DEADLOCK FALSE
