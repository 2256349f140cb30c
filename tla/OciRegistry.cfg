SPECIFICATION FairSpec
CONSTANTS
    Readers = {"cli", "monitor"}
    MaxRevision = 3
INVARIANTS
    TypeOK
    BlobsServed
PROPERTY
    ReadersServed
