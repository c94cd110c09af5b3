CONSTANTS
    Boots <- MCBoots
    Models <- MCModels
    NO_TIMER_INT_DUE <- MCSentinel
    Floor <- MCFloor
    CyclesPerPoll <- MCCycles
    Delays <- MCDelays
    AckPort <- MCAckPort
    MaxNmis = 1
SPECIFICATION FairIntSpec
INVARIANTS IntTypeOK IrqHandlersDoNotNest
PROPERTIES IrqSeesOldMask HandlersReturn BreakToldFromIrq RequestsAreServed
