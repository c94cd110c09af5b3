CONSTANTS
    Operands <- MCBytePairs
    Seeds <- None
    MaxCalls = 0
    FtoaFloats <- None
    PrintFloats <- None
    MathCalls <- None
    F = 3
    ExpBits = 4
    W = 6
SPECIFICATION ArithSpec
INVARIANT ZeroFromBinaryResult
CHECK_DEADLOCK FALSE
