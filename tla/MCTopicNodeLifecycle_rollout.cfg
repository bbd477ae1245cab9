SPECIFICATION LifecycleSpec
CONSTANTS
    Nodes = {n1}
    Topics = {t1}
    NoTopic = NoTopic
    Resources = {r1}
    NoResources = NoResources
    Capacity = 1
    MaxGeneration = 3
    MaxRevision = 0
    MaxSlot = 2
    Deletions = {}
    WarmTargets = {1}
    MaxRestarts = 1
CHECK_DEADLOCK FALSE
PROPERTIES
    PublishedIsVerified
