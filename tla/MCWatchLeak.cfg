SPECIFICATION Spec
CONSTANTS
    Requests = {q1, q2}
    Ids <- OneKey
    Capacity = 1
    MaxEvents = 0
INVARIANT
    UnwatchReleases
CHECK_DEADLOCK FALSE
