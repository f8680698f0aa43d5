SPECIFICATION Spec
CONSTANTS
    Requests = {q1}
    Ids <- OneKey
    Capacity = 1
    MaxEvents = 3
INVARIANT
    LaggardsDropped
CHECK_DEADLOCK FALSE
