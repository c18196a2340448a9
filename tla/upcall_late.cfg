CONSTANTS
    PlainCallers = {c1}
    IoCallers = {}
    Buffers = {b1}
    PurgeRetry = 2
    MaxDeaths = 1
    Signalled = {}
    Slow = {}
    None = None
SPECIFICATION Spec
CHECK_DEADLOCK FALSE
INVARIANTS OffAllLists
