SPECIFICATION Spec
CONSTANTS
  Total = 2
  Settings <- CutProfiles
  Found <- CleanAccount
INVARIANTS OrdersReconciled
CHECK_DEADLOCK FALSE
