SPECIFICATION Spec
CONSTANTS
    Readers = {"cli"}
    MaxRevision = 1
INVARIANT
    InFlightFinishes
