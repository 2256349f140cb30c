SPECIFICATION Spec
CONSTANTS
    Runs = {r1, r2, r3}
    Targets = {"upstream"}
    MaxTime = 2
    DayLength = 2
    Failures = TRUE
INVARIANTS
    TypeOK
    BranchIsBest
PROPERTIES
    Persists
    ImplementsDurable
SYMMETRY
    RunSymmetry
