SPECIFICATION MCSpec
CONSTANTS
    Ports = {1, 2}
    Directories <- MCDirectories
    DualStack = TRUE
    Foreign = {1}
    MaxApplies = 3
    MaxFailures = 1
    MaxBytes = 2
    Limit = 2
    MaxBody = 4
    MaxRetries = 1
INVARIANTS
    TypeOK
    OldListenersGone
    AcceptsForItsFile
    ServedOnItsPort
    StreamsTypeOK
    BodyArrives
PROPERTIES
    ApplyEnds
    BytesArrive
    SocketsClosed
CHECK_DEADLOCK FALSE
