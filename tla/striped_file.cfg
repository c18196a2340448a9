SPECIFICATION Spec
CONSTANTS
    Files <- AllFiles
    MaxSize = 7
    Lengths = {2}
    MaxChanges = 2
CHECK_DEADLOCK FALSE
INVARIANTS SizeBetween DataInPlace ReadRight
