SPECIFICATION Spec
CONSTANTS
  a1 = a1 a2 = a2
  AccountList <- TwoAccounts
  Cooldown <- MCCooldown
  Modes <- MCModes
  Never = Never
  Amounts = {1} DailyCap = 2 Day = 1
  MaxTime = 2 MaxFaults = 1
INVARIANTS LossBounded CapRespected NothingForgotten
CHECK_DEADLOCK FALSE
