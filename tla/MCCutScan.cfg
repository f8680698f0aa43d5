SPECIFICATION Spec
CONSTANTS
    Requests = {r1, r2}
    Families = {"TASK-"}
    IdPrefix = "TASK-"
    Pad = 1
    U32Max = 9
    Serialized = TRUE
    MaxFaults = 1
    Commands <- CreateOnly
    InitialTables <- TwoTasks
SYMMETRY Symmetry
INVARIANTS
    NextIdCountsAll
CHECK_DEADLOCK FALSE
