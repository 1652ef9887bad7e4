SPECIFICATION Spec
CONSTANTS
    Labels <- MCLabels
    Parents <- MCParents
    DottedParents <- MCDottedParents
    Forms <- MCForms
    MaxDots = 2
    SiteConfigs <- MCSiteConfigs
    Directories <- MCDirectories
    MaxFiles = 3
INVARIANTS
    ClaimsAreAccepted
    RoutingUnambiguous
    ExactWins
PROPERTIES
    ImplementsAdmission
CHECK_DEADLOCK FALSE
