CONSTANTS
    n1 = n1
    n2 = n2
    dr = dr
    u1 = u1
    u2 = u2
    None = None
    Folders <- FourFolders
    Numbers = {n1, n2}
    Initials = {dr}
    Users = {u1, u2}
    Scans = {s1, s2}
    Runs = {r1, r2}
    NumberOf <- TheirNumbers
    InitialsOf <- TheirInitials
    HoldersOf <- TheHolders
SPECIFICATION Spec
SYMMETRY Symmetry
INVARIANTS Inv DoneIsComplete CreatedOnce
PROPERTIES ImplementsRegister
CHECK_DEADLOCK FALSE
