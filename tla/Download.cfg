SPECIFICATION Spec
CONSTANTS
    j1 = j1
    j2 = j2
    d1 = d1
    d2 = d2
    t1 = t1
    t2 = t2
    b1 = b1
    b2 = b2
    k1 = k1
    k2 = k2
    None = None
    Jobs <- TwoJobs
    Docs <- TwoDocs
    Tabs <- TwoTabs
    BlobKeys <- TwoBlobs
    ContentKeys <- TwoKeys
    MaxPolls = 1
    MaxVersion = 1
SYMMETRY Symmetry
INVARIANTS
    RowOpensItsBlob
PROPERTIES
    ImplementsRead
