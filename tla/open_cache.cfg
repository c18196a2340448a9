SPECIFICATION LiveSpec
CONSTANTS
    Handles = {h1, h2}
    Slots = {s1}
    Users = {u1, u2}
    MaxFd = 2
    MaxQueue = 2
    MaxRestarts = 1
INVARIANTS RefsCounted FdsOwned CachedIsCurrent
PROPERTIES StrandedGoes
