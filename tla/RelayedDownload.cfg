SPECIFICATION TimedFairSpec
CONSTANTS
    j1 = j1
    j2 = j2
    d1 = d1
    t1 = t1
    b1 = b1
    b2 = b2
    k1 = k1
    k2 = k2
    None = None
    Jobs <- TwoJobs
    Docs <- OneDoc
    Tabs <- OneTab
    BlobKeys <- TwoBlobs
    ContentKeys <- TwoKeys
    MaxPolls = 1
    MaxVersion = 1
    TTL = 2
    Period = 1
    PresignTTL = 2
    MaxMissed = 1
    MaxAge = 2
CONSTRAINTS KeysInOrder EditedLate
INVARIANTS
    TimedInv
    PromptFetchSucceeds
PROPERTIES
    EveryClickEnds
