SPECIFICATION AuthoritySpec
CONSTANTS
    Nodes = {"n1"}
    Sessions = {"s1"}
    Identities = {"a", "b"}
    SessionOf <- MCSessionOf
    r1 = r1
    r2 = r2
    Runs <- MCRuns
    MaxNodeGeneration = 2
    MaxGeneration = 2
    MaxStamps = 2
SYMMETRY RunSymmetry
INVARIANTS
    GenerationNamesOwner
PROPERTIES
    LiftedMeansIdle
