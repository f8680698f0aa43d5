SPECIFICATION Spec
CONSTANTS
    Requests = {q1, q2, q3}
    Ids <- MixedIds
    Capacity = 1
    MaxEvents = 2
SYMMETRY Symmetry
CONSTRAINT FewAtOnce
INVARIANTS
    TypeOK
    ForwarderReachable
    UnwatchStops
CHECK_DEADLOCK FALSE
