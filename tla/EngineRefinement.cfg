SPECIFICATION LSpec
CONSTANTS
    c1 = c1
    c2 = c2
    c3 = c3
    c4 = c4
    Commands = {c1, c2, c3, c4}
    Key <- MCKey
    NoReply = {c3, c4}
    Level <- MCLevel
    Initial = 0
    ErrorCode = 15
    MaxErrors = 1
    Bounded = {c2}
    MaxConcurrent = 2
    ResponseTimeout = 1
    MaxUnmatched = 1
    Reader = Reader
    None = None
INVARIANTS
    LevelAgrees
PROPERTIES
    KeepsPromise
    EveryCommandEnds
