SPECIFICATION Spec
CONSTANTS
    Clients = {"c1", "c2"}
    Setups <- AllSetups
    Sockets = {"a", "b", "c"}
    Resolved <- MCResolved
    HealthCheck = TRUE
    MaxLooks = 3
INVARIANTS
    TypeOK
    RefusedForCause
PROPERTIES
    EveryRequestEnds
    EveryoneServesUnlessEven
    DeadAvoidedBeforeReload
