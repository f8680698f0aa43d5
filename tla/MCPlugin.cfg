SPECIFICATION FairPluginSpec
CONSTANTS
    w = w
    g = g
    x = x
    y = y
    Requests <- MCRequests
    Families = {"TASK-"}
    IdPrefix = "TASK-"
    Pad = 1
    U32Max = 9
    Serialized = TRUE
    MaxFaults = 1
    Capacity = 1
    MaxEvents = 2
    Commands <- MCCommands
    InitialTables <- OneTaskOrBare
    Script <- MCScript
    After <- MCAfter
    Ids <- MCIds
INVARIANTS
    AdvertisedServed
    MirrorConverges
    EachEventOnceInOrder
PROPERTIES
    EveryLineAnswered
    EventsArrive
CHECK_DEADLOCK FALSE
