SPECIFICATION Spec
CONSTANTS
    MaxTasks = 2
    MaxSockets = 3
    MaxLeaked = 0
INVARIANTS
    NotConnectedBetweenAttempts
