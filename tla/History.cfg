SPECIFICATION Spec
CONSTANTS
    Polls = 3
    Faults = {"fails", "omits", "astray", "mislabels", "late", "extra", "wrong"}
INVARIANTS
    TypeOK
    PassSound
    FailSound
    ContractExact
    NothingLeft
PROPERTY Finishes
