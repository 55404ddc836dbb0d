SPECIFICATION Spec
CONSTANTS
    Pages = {p1}
    Children = {a}
    None = None
    QueueLimit = 1
    CallLimit = 1
    RouteLimit = 1
    MaxAttach = 2
    MaxEvents = 3
INVARIANTS
    EventsAreContiguous
    DetachIsToldOnce
    RouteIsBounded
PROPERTIES
    EventsWithinAttachment
    FailureIsTold
CHECK_DEADLOCK FALSE
