CONSTANTS
  Profiles <- MCProfiles
  Selections <- MCSelections
  Wait = 45000
SPECIFICATION SensorsSpec
INVARIANTS
  SensorsTypeOK
  FreshSample
  ConfigKept
  RecordHonest
  Compensated
PROPERTY StartsAtRest
