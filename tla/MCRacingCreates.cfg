SPECIFICATION Spec
CONSTANTS
    Requests = {r1, r2}
    Families = {"TASK-"}
    IdPrefix = "TASK-"
    Pad = 1
    U32Max = 9
    Serialized = FALSE
    MaxFaults = 0
    Commands <- CreateOnly
    InitialTables <- TwoTasks
SYMMETRY Symmetry
INVARIANTS
    AckedCreatesDistinct
CHECK_DEADLOCK FALSE
