CONSTANTS
    NRx = 3
    NTx = 2
    NUnits = 8
    Widths = {3, 4}
    StallLimit = 1
    MaxRx = 4
    MaxTx = 4
    MaxOut = 2
    Machines <- MCMachines
SPECIFICATION Spec
INVARIANTS
  RxInOrder
  TxFaithful
PROPERTIES
  RingsMoveOn
CHECK_DEADLOCK FALSE
