SPECIFICATION Spec
CONSTANTS
    Families = {"TASK-", "REQ-"}
    IdPrefix = "TASK-"
    Pad = 2
    U32Max = 12
    MaxItems = 0
    MaxRows = 4
    Commands <- IdCommands
    InitialTables <- EmptyTable
    FamilyOrder <- Order
INVARIANTS
    NextIdAboveAll
    QueueShowsItsOrder
    NextHeadsQueue
    StatisticsMatchLists
    DialectsAgree
PROPERTY
    CreateAddsARow
