CONSTANTS
  Profiles <- MCProfiles
  Selections <- MCSelections
SPECIFICATION Spec
INVARIANTS
  FatalIsFatal
