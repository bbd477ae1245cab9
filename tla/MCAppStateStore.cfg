SPECIFICATION FairStoreSpec
CONSTANTS
    Changes = {"g", "j"}
    Global = {"g"}
    Approved = {"g"}
    Reset = "reset"
    None = None
    Missing = Missing
    Broken = Broken
    MaxRevision = 2
    MaxFaults = 2
CHECK_DEADLOCK FALSE
INVARIANTS
    OneFaultSurvived
PROPERTIES
    AtomicStore
    BroadcastsAdvance
    ResetPurges
    CallsEnd
