SPECIFICATION FairCreationSpec
CONSTANTS
    Nodes = {n1}
    Topics = {1,2}
    NoTopic = NoTopic
    Resources = {r1}
    NoResources = NoResources
    Capacity = 1
    MaxGeneration = 4
    MaxRevision = 0
    MaxSlot = 2
    NoRequest = NoRequest
    Requests <- MCRequests
CONSTRAINT Scope
CHECK_DEADLOCK FALSE
INVARIANTS
    OneTopicPerRequest
    FailedLeavesNothing
PROPERTIES
    NoResurrection
    SuccessIsUsable
    TableUsed
    DeliveriesEnd
