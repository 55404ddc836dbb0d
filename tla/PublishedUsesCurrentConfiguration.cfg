SPECIFICATION Spec
CONSTANTS
    Connections = {c1}
    Configurations = {chrome, node}
    NoConfiguration = NoConfiguration
    Runtimes = {r1, r2}
    NoRuntime = NoRuntime
    Calls = {p1, p2}
    NoGoal = NoGoal
    MaxVersion = 1
    MaxGeneration = 2
    MaxIncarnation = 2
INVARIANT PublishedUsesCurrentConfiguration
