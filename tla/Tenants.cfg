CONSTANTS
    t1 = t1
    t2 = t2
    d1 = d1
    d2 = d2
    e1 = e1
    e2 = e2
    operator = operator
    ann = ann
    gia = gia
    u1 = u1
    u2 = u2
    u3 = u3
    m = m
    b1 = b1
    b2 = b2
    None = None
    Tenants <- TwoTenants
    Domains <- TwoDomains
    Directories <- TwoDirectories
    Persons <- People
    UserIds <- ThreeUsers
    Matters <- OneMatter
    Browsers <- TwoBrowsers
    PlatformAdmins <- Operators
    DomainOf <- Domain
    DirectoryOf <- Directory
    TenantOf <- Firm
    FirstTenant = t1
    FirstDomain = d1
SPECIFICATION Spec
SYMMETRY Symmetry
CONSTRAINT FewAtOnce
INVARIANTS
    Inv
    SessionIsOwn
    WallsHold
PROPERTIES
    OnlyNewcomersInsert
    ImplementsAccess
