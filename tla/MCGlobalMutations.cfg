SPECIFICATION FairMutationSpec
CONSTANTS
    Approvals = {"m1", "m2"}
    Callers = {c1, c2}
    Journalled = {"m1"}
    Toggles = {"m2"}
    Bytes <- MCBytes
    Wants <- MCWants
    MaxAttempts = 2
CHECK_DEADLOCK FALSE
INVARIANTS
    RunsAtMostOnce
    NothingLeftBehind
PROPERTIES
    NeverUndoesAccepted
    AttemptsEnd
