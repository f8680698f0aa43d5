SPECIFICATION Spec
CONSTANTS
    Requests = {r1, r2, r3}
    Families = {"TASK-"}
    IdPrefix = "TASK-"
    Pad = 1
    U32Max = 4
    Serialized = TRUE
    MaxFaults = 1
    Commands <- AllCommands
    InitialTables <- OneBareTask
SYMMETRY Symmetry
INVARIANTS
    TypeOK
    NoStaleWrite
    InsertsAreNew
    AckedCreatesDistinct
    AckedDependencyKept
    AckedDeleteStaysDeleted
    LastEventCurrent
PROPERTIES
    ImplementsAtomicTasks
CHECK_DEADLOCK FALSE
