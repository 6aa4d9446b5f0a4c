SPECIFICATION FairSpec
CONSTANTS
  Machines <- MCMachines
  SettingsVals <- MCSettings
  Chunk = 2
  EntrySectors = 2
  MaxFaults = 2
INVARIANTS
  CloneIsFaithful
  CleanCloneHasValidGpt
PROPERTIES
  SettingsKept
  InstallEnds
