SPECIFICATION Spec
CONSTANTS
    Ranges <- OneRange
    RangeArrays <- OneArray
    Purgatory = 1
    Workers = {w1, w2}
    MaxCount = 2
    MaxTime = 2
SYMMETRY WorkerSymmetry
INVARIANTS ExtentsApart OnePlace CountsSafe
PROPERTIES ImplementsHandlePool
