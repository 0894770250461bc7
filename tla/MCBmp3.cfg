CONSTANTS
  Profiles <- MCProfiles
  Selections <- MCSelections
SPECIFICATION Spec
INVARIANTS
  TypeOK
  ModeObeyed
  SettingsWritten
  ResetDone
