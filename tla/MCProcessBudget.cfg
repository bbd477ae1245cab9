SPECIFICATION FairBudgetSpec
CONSTANTS
    Callers = {a1, a2, a3}
    Kinds <- MCKinds
    Cleanup = "cleanup"
    Forced = {"mcp-server"}
    MaxConcurrent <- MCMaxConcurrent
    Reserve <- MCReserve
    Ceiling <- MCCeiling
    MaxActive = 2
    MaxOthers = 2
INVARIANTS
    CountersExact
    LimitsHeld
PROPERTIES
    NeverOverbooked
    LeasesReturn
