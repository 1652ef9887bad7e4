SPECIFICATION Spec
CONSTANTS
    Pairs = {p1, p2, p3, p4, p5, p6, p7, p8}
    Environments <- AllProviders
    Platforms = {TRUE, FALSE}
    MaxTroubles = 1
INVARIANTS
    TypeOK
    PairIntact
    LeftAlone
PROPERTIES
    RestartFindsValid
    
