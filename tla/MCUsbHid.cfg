CONSTANTS
    Devices <- MCDevices
    MaxAddr = 3
    MaxMice = 1
    StallLimit = 2
    FailMax = 2
    MaxFaults = 2
    MaxReports = 2
    NatSlots = 2
    NatReports = 2
    Machines <- MCMachines
    Reports <- MCReports
    KeySlots = 2
    QCap = 3
SPECIFICATION Spec
INVARIANTS
  NothingShared
  TogglesInStep
  KeysReachLoop
PROPERTIES
  KeyboardAvailable
CHECK_DEADLOCK FALSE
