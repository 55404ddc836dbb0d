SPECIFICATION FairSpec
CONSTANTS
    q1 = q1
    q2 = q2
    o1 = o1
    Breakpoints = {b1}
    Specs = {s1}
    NoSpec = NoSpec
    Requests = {q1, q2}
    Observers = {o1}
    Clients <- MCClients
    HistoryLimit = 2
    MaxRevision = 4
    MaxEpoch = 2
INVARIANTS
    DiskHoldsIntent
    RequestAppliedOnce
    RevisionNamesOneState
    AnswerIsComplete
PROPERTIES
    ObserverIsNotified
CHECK_DEADLOCK FALSE
