SPECIFICATION FairSpec
CONSTANTS
    Kinds = {"cli", "library"}
    Names <- AllNames
    Deviations <- Seen
    Payloads = 2
    Late = {TRUE, FALSE}
INVARIANTS
    TypeOK
    RetryFetched
    PassSound
    FailSound
PROPERTY
    Decided
