SPECIFICATION SupervisorSpec
CONSTANTS
  BaseDelay = 1 MaxDelay = 5 Span = 2
  MinRemaining = 1 ReserveTarget = 2 MaxReserveWeight = 3 Hour = 4
  Limits <- OperatorChoices
  Capacity = 1 MaxFailures = 3 MaxStarts = 2 MaxUnanswered = 2
PROPERTIES PurchasesBounded BacksOffAndGoesOn
