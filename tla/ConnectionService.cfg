SPECIFICATION FairSpec
CONSTANTS
    Connections = {c1}
    Configurations = {chrome, node}
    NoConfiguration = NoConfiguration
    Runtimes = {r1, r2}
    NoRuntime = NoRuntime
    Calls = {p1, p2}
    NoGoal = NoGoal
    MaxVersion = 2
    MaxGeneration = 2
    MaxIncarnation = 1
INVARIANTS
    LeaseOfExistingConnection
    PublishedIffConnected
    PublishedForCurrentAttempt
    OpenTransportIsOwned
PROPERTIES
    ImplementsLifecycle
    OnlyOwnerUnpublishes
    LossIsNoticed
    ImplementsFairLifecycle
