SPECIFICATION Spec
CONSTANTS
    Clients = {"c1", "c2"}
    Setups <- ReloadedOnly
    Sockets = {"a", "b", "c"}
    Resolved <- MCResolved
    HealthCheck = TRUE
    MaxLooks = 3
PROPERTIES
    DeadAvoided
