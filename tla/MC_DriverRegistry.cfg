CONSTANTS
    MaxDrivers = 2
    DriverIds = {0, 1, 2, 3}
    Priorities = {5, 10, 20}
    None = None
SPECIFICATION Spec
INVARIANTS
    TypeOK
    RegistryCompact
    RegisteredUniqueAndValid
    BusyOnlyForLiveDriver
PROPERTIES
    ImplementsRegistrySet
