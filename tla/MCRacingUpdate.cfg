SPECIFICATION Spec
CONSTANTS
    Requests = {r1, r2}
    Families = {"TASK-"}
    IdPrefix = "TASK-"
    Pad = 1
    U32Max = 9
    Serialized = FALSE
    MaxFaults = 0
    Commands <- DependAndMove
    InitialTables <- TwoTasks
SYMMETRY Symmetry
INVARIANTS
    AckedDependencyKept
CHECK_DEADLOCK FALSE
