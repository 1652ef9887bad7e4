SPECIFICATION Spec
CONSTANTS
    Clients = {"c1", "c2"}
    Setups <- ReconnectsOnly
    Sockets = {"a", "b", "c"}
    Resolved <- MCResolved
    HealthCheck = TRUE
    MaxLooks = 2
PROPERTIES
    Sticky
