CONSTANTS
    Boots <- MCBoots
    Models <- MCModels
    Jobs <- MCJobs
    R0 = 4
SPECIFICATION CallsSpec
INVARIANT RoutinesCompute
PROPERTIES CallsReturn EntryCanBeUndone ProgramExits
CHECK_DEADLOCK FALSE
