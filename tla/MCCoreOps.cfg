CONSTANTS
    Boots <- MCBoots
    Models <- MCModels
SPECIFICATION Spec
INVARIANTS TypeOK OnlyIndirectionLeavesMemory
PROPERTY TraceFollowsExecution
CHECK_DEADLOCK FALSE
