CONSTANTS
    MaxDrivers = 1
    DriverIds = {0, 1}
    Priorities = {5}
    None = None
    MaxDevices = 2
    DeviceIds = {1, 2}
SPECIFICATION ManagerSpec
INVARIANTS
    ManagerTypeOK
    DeviceFoundIffProbed
PROPERTIES
    DevicesAppendOnly
