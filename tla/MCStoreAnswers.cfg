SPECIFICATION FairSpec
CONSTANTS
    Requests = {r1, r2}
    Families = {"TASK-"}
    IdPrefix = "TASK-"
    Pad = 1
    U32Max = 9
    Serialized = FALSE
    MaxFaults = 1
    Commands <- AnswerCommands
    InitialTables <- OneBareTask
INVARIANT
    ListsStayUnique
PROPERTIES
    ErrorMeansNoEffect
    EveryRequestAnswered
CHECK_DEADLOCK FALSE
