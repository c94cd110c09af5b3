CONSTANTS
    Operands <- MCOperands
    Seeds <- MCSeeds
    MaxCalls = 30
    FtoaFloats <- MCFtoaFloats
    PrintFloats <- MCPrintFloats
    MathCalls <- MCMathCalls
    F = 3
    ExpBits = 4
    W = 6
SPECIFICATION ArithSpec
INVARIANTS ArithTypeOK ChainsExact NeverSticks ConversionsExact ResultsNear
PROPERTIES Reversible ArithEnds
CHECK_DEADLOCK FALSE
