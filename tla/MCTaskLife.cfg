SPECIFICATION Spec
CONSTANTS
    Families = {"TASK-", "REQ-"}
    IdPrefix = "TASK-"
    Pad = 1
    U32Max = 9
    MaxItems = 3
    MaxRows = 1
    Commands <- LifeCommands
    InitialTables <- LifeTables
INVARIANTS
    TypeOK
    MarksFollowStatus
    CompletionStamped
    ChecklistIdsUnique
    DependenciesUnique
PROPERTIES
    StampsAreKept
    DecodableIsKept
    RequestedStatusShows
