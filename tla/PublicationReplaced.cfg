SPECIFICATION Spec
CONSTANTS
    Runs = {r1, r2, r3}
    Targets = {"upstream"}
    MaxTime = 1
    DayLength = 2
    Failures = FALSE
INVARIANTS
    LatestCompleteKept
SYMMETRY
    RunSymmetry
