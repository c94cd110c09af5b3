CONSTANTS
    ByteSize = 4
    CommandLines <- MCCommandLines
    Stores <- MCStores
    MaxInstructions = 2
    A = 4
    MapLines <- MCMapLines
    MaxLines = 6
SPECIFICATION MainSpec
INVARIANTS MainTypeOK MemoryAsAsked SymbolsFollowMap
PROPERTY TraceTellsChanges
CHECK_DEADLOCK FALSE
