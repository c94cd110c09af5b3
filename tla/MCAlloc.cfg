CONSTANTS
    RamStart = 512
    HeapRun = 768
    RamSizeWord = 276
    Slots = {1, 2}
    Sizes = {4, 8}
    Counts = {2}
SPECIFICATION FairSpec
INVARIANTS TypeOK ClientDataIntact
PROPERTIES ImplementsHeap FailsOnlyWhenFull CallsReturn
