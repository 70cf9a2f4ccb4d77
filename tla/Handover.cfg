SPECIFICATION Spec
CONSTANTS
    j1 = j1
    j2 = j2
    j3 = j3
    c1 = c1
    c2 = c2
    p1 = p1
    p2 = p2
    None = None
    Jobs <- TwoJobs
    Connectors <- TwoConnectors
    Polls <- TwoPolls
    Undecodable <- NoJobs
    Disturbances <- Handover
SYMMETRY FullSymmetry
INVARIANTS
    SingleCustody
PROPERTIES
    RevocationTakesHold
