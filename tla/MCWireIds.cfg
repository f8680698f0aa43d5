SPECIFICATION Spec
CONSTANTS
    Families = {"TASK-", "REQ-"}
    IdPrefix = "TASK-"
    Pad = 2
    U32Max = 12
    MaxItems = 0
    MaxRows = 5
    Commands <- WireIdCommands
    InitialTables <- EmptyTable
    FamilyOrder <- Order
INVARIANT
    ListedIdsReachable
