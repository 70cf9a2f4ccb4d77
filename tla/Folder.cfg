CONSTANTS
    Docs = {d1, d2}
    Uploads = {u1, u2}
    None = None
    Scan = Scan
    MaxSaves = 2
SPECIFICATION Spec
SYMMETRY Symmetry
INVARIANTS
    Inv
    NoEditHidden
    QuietScanIsComplete
PROPERTIES
    ImplementsReplace
