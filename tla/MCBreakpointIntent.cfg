SPECIFICATION FairSpec
CONSTANTS
    t1 = t1
    t2 = t2
    d1 = d1
    d2 = d2
    Hosts <- MCHosts
    Selected <- MCSelected
    Ids = {l1}
    LogIds = {l1}
    Specs = {s1}
    NoSpec = NoSpec
    Targets = {t1,t2}
    NoTarget = NoTarget
    Debuggers = {d1,d2}
    NoDebugger = NoDebugger
    NoId = NoId
    MaxRevision = 3
INVARIANTS
    AppliedWhenSettled
    CommandsAreNeverStale
PROPERTIES
    LockIsReleased
    AttachmentFinishes
    LogpointsAreTheTargets
CHECK_DEADLOCK FALSE
