SPECIFICATION Spec
CONSTANTS
  Capacity = 2
  Values = {1, 2}
  IdxMod = 3
  MaxTimeouts = 1
INVARIANTS
  OkMeansOnDisk
