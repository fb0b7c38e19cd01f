SPECIFICATION Spec
CONSTANTS
  MinBytes = 3
  Windows <- MCWindows
  WordBytes = 4
  MaxBytes = 22
  MaxReloads = 2
  MaxFailures = 1
INVARIANT
  PreviewIsLastDecode
PROPERTY
  WindowSound
CHECK_DEADLOCK FALSE
