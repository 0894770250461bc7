CONSTANTS
  Profiles <- MCProfiles
  Selections <- MCSelections
  Requests = {1, 2}
  Capacity = 20
  MaxConfigs = 2
  MaxSamples = 3
SPECIFICATION Spec
INVARIANTS
  TypeOK
  FramesExtracted
