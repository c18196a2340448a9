SPECIFICATION Spec
CONSTANTS
    Files <- SmallFiles
    MaxSize = 6
    Lengths = {1, 2}
    MaxChanges = 2
CHECK_DEADLOCK FALSE
INVARIANTS ReadRight
