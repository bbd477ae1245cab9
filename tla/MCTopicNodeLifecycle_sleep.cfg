SPECIFICATION LifecycleSpec
CONSTANTS
    Nodes = {n1}
    Topics = {t1}
    NoTopic = NoTopic
    Resources = {r1}
    NoResources = NoResources
    Capacity = 1
    MaxGeneration = 5
    MaxRevision = 0
    MaxSlot = 2
    Deletions = {d1}
    WarmTargets = {0, 1}
    MaxRestarts = 0
CHECK_DEADLOCK FALSE
PROPERTIES
    FailedRetirementFenced
