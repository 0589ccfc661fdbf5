SPECIFICATION CollectorSpec
CONSTANTS
  b1 = b1 b2 = b2
  Blocks = {b1, b2}
  BlockTime <- MCBlockTime
  NumTxs <- MCNumTxs
  Slot <- MCSlot
  Minute = 1 PerHour = 2 Offset = 1 Grace = 0 Retention = 2 Queue = 1
  None = None
  MaxClock = 4 MaxRuns = 2 MaxMishaps = 1
INVARIANTS CountedOnce HoursAgree
PROPERTY HoursKept
CHECK_DEADLOCK FALSE
