SPECIFICATION Spec
CONSTANTS
  MinBytes = 3
  Windows <- MCWindows
  WordBytes = 4
  MaxBytes = 22
  MaxReloads = 0
  MaxFailures = 0
INVARIANT
  DraftOfTrailingWindow
CHECK_DEADLOCK FALSE
