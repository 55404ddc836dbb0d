SPECIFICATION Spec
CONSTANTS
    Pages = {p1}
    Children = {a}
    None = None
    QueueLimit = 1
    CallLimit = 1
    RouteLimit = 1
    MaxAttach = 1
    MaxEvents = 3
INVARIANTS AttachedHasSession
CHECK_DEADLOCK FALSE
