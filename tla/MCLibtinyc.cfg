CONSTANTS
    N = 8
    Bytes = 8
    CharSigned = TRUE
    Calls <- StringCalls
    IntBits = 8
    LongBits = 12
    Pieces <- MCPieces
    MaxPieces = 2
SPECIFICATION LibSpec
INVARIANTS LibTypeOK StringsCompute TextIsWritten
PROPERTY LibReturns
CHECK_DEADLOCK FALSE
