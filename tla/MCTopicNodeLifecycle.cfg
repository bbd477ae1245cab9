SPECIFICATION LifecycleSpec
CONSTANTS
    Nodes = {n1, n2}
    Topics = {t1, t2}
    NoTopic = NoTopic
    Resources = {r1}
    NoResources = NoResources
    Capacity = 1
    MaxGeneration = 7
    MaxRevision = 0
    MaxSlot = 2
    Deletions = {d1}
    WarmTargets = {0, 1}
    MaxRestarts = 1
SYMMETRY Symmetry
CONSTRAINT Scope
CHECK_DEADLOCK FALSE
INVARIANTS
    TopicIsolation
PROPERTIES
    DoneIsReady
    TableDiscipline
    PoolSparesTopics
    PublishedIsCurrent
