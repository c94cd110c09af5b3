CONSTANTS
    RamStart = 512
    HeapRun = 768
    RamSizeWord = 272
    Slots = {1}
    Sizes = {1, 8}
    Counts = {2}
SPECIFICATION Spec
INVARIANT FreeBlockHoldsHeader
