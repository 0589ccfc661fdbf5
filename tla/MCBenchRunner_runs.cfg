SPECIFICATION FairSpec
CONSTANTS
  Total = 2
  Settings <- Profiles
  Found <- Accounts
INVARIANTS WholeAndInOrder  Reconciled
PROPERTY RunReturns
CHECK_DEADLOCK FALSE
