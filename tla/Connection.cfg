SPECIFICATION Spec
CHECK_DEADLOCK FALSE
CONSTANTS
    MaxTasks = 2
    MaxSockets = 3
    MaxLeaked = 0
INVARIANTS
    TypeOK
    OneReconnect
    DisconnectSticks
    LossIsNoticed
PROPERTIES
    Recovers
