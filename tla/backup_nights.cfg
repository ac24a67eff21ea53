SPECIFICATION BackupSpec
CONSTANTS
  Nights = 2
  Tick <- Ticks
  RetentionNights = 0
  MaxRestarts = 1
  MaxFaults = 0
INVARIANTS
  BackupInv
PROPERTIES
  NewestGoodKept
  FreshShipped
CHECK_DEADLOCK FALSE
