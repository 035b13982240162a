CONSTANTS
    MaxTokens = 2
    NvmeCapacity = 2
    c1 = c1
    a1 = a1
    READ = READ
    WRITE = WRITE
    None = None
    Containers <- MCContainers
    Apps <- MCApps
    PermBits <- MCPermBits
    ReadPerm <- READ
    WritePerm <- WRITE
SPECIFICATION NvmeSpec
INVARIANT
    NvmeTypeOK
PROPERTY
    ProbeOutcomeReflectsDriver
