SPECIFICATION RotationSpec
CONSTANTS
  Workers = {w1}
  MaxBytes = 2
  BackupCount = 2
  Retention = 1
  Caps = {2}
  MaxLines = 5
  MaxDay = 2
  MaxCrashes = 0
INVARIANT OldestFirst
CHECK_DEADLOCK FALSE
