SPECIFICATION RotationSpec
CONSTANTS
  Workers = {w1}
  MaxBytes = 2
  BackupCount = 2
  Retention = 1
  Caps = {0, 2}
  MaxLines = 6
  MaxDay = 2
  MaxCrashes = 1
INVARIANT RetainedOrExpired
CHECK_DEADLOCK FALSE
