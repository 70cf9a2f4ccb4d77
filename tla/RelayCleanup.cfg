SPECIFICATION FairSpec
CONSTANTS
    BlobKeys = {b1, b2}
    TTL = 3
    Period = 2
    PresignTTL = 3
    MaxMissed = 3
    MaxAge = 12
INVARIANTS
    ReadableForTTL
    OverstayIsBounded
    ResidencyIsBounded
PROPERTIES
    StagedGoes
