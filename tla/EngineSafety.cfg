SPECIFICATION Spec
CONSTANTS
    c1 = c1
    c2 = c2
    c3 = c3
    c4 = c4
    Commands = {c1, c2, c3, c4}
    Key <- MCKey
    NoReply = {}
    Bounded = {c3}
    MaxConcurrent = 2
    ResponseTimeout = 1
    MaxUnmatched = 3
    Reader = Reader
    None = None
INVARIANTS
    TypeOK
    SlotsAccounted
    ReplyUsedOnce
    NoLostWakeup
    LockHeldByRunningTask
PROPERTIES
    PruneSparesAwaited
