SPECIFICATION Spec
CONSTANTS
  Capacity = 2
  Values = {1, 2}
  IdxMod = 5
  MaxTimeouts = 2
INVARIANTS
  PromptOkOnDisk
  IdleMeansQuiet
PROPERTIES
  ImplementsSectorDisk
