SPECIFICATION Spec
CONSTANTS
    Clients = {"c1", "c2"}
    Setups <- PairOnly
    Sockets = {"a", "b", "c"}
    Resolved <- MCResolved
    HealthCheck = TRUE
    MaxLooks = 2
PROPERTIES
    EveryoneServes
