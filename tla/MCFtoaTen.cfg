CONSTANTS
    Operands <- None
    Seeds <- None
    MaxCalls = 0
    FtoaFloats <- MCHundred
    PrintFloats <- None
    MathCalls <- None
    F = 3
    ExpBits = 4
    W = 6
SPECIFICATION ArithSpec
INVARIANT WritesNumeral
CHECK_DEADLOCK FALSE
