SPECIFICATION FairSpec
CONSTANTS
    Late = {"helper", "other"}
    Deviations = {"none", "survives", "leaks", "fragile", "crashes"}
    Slow = {TRUE, FALSE}
    Limit = 4
INVARIANTS
    TypeOK
    NothingLeft
    StatusKnown
    ObservationSound
PROPERTY
    Ends
