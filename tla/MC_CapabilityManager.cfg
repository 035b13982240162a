CONSTANTS
    MaxTokens = 3
    c1 = c1
    c2 = c2
    a1 = a1
    READ = READ
    WRITE = WRITE
    None = None
    Containers <- MCContainers
    Apps <- MCApps
    PermBits <- MCPermBits
SPECIFICATION Spec
INVARIANTS
    TypeOK
    PoolInIssueOrder
    CopiesBoundToIssuance
PROPERTIES
    RevocationPermanent
    IssuedIdsIncrease
    ImplementsStore
