SPECIFICATION Spec
CONSTANTS
    Nodes = {n1, n2}
    Topics = {t1, t2}
    NoTopic = NoTopic
    Resources = {r1}
    NoResources = NoResources
    Capacity = 1
    MaxGeneration = 4
    MaxRevision = 1
    MaxSlot = 3
SYMMETRY Symmetry
CHECK_DEADLOCK FALSE
INVARIANTS
    Readable
    IdentityFenced
PROPERTIES
    CapacityHeld
    NodeMovesForward
