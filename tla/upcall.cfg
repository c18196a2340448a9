CONSTANTS
    PlainCallers = {c1}
    IoCallers = {c2}
    Buffers = {b1}
    PurgeRetry = 2
    MaxDeaths = 1
    Signalled = {c1}
    Slow = {c2}
    None = None
SPECIFICATION FewSpec
CHECK_DEADLOCK FALSE
INVARIANTS OffWhenOver Remembered HandedOnce
PROPERTIES EveryCallReturns
