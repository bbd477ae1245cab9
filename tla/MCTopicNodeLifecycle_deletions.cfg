SPECIFICATION FairLifecycleSpec
CONSTANTS
    Nodes = {n1}
    Topics = {t1}
    NoTopic = NoTopic
    Resources = {r1}
    NoResources = NoResources
    Capacity = 1
    MaxGeneration = 7
    MaxRevision = 0
    MaxSlot = 2
    Deletions = {d1, d2}
    WarmTargets = {1}
    MaxRestarts = 1
CONSTRAINT DeletionScope
CHECK_DEADLOCK FALSE
INVARIANTS
    AllocatableIsClean
PROPERTIES
    FlightsEnd
