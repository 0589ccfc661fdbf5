SPECIFICATION PanelSpec
CONSTANTS
  Off = Off
  OutlierMin = 8
  Summaries <- MCSummaries
  Answers <- MCAnswers
  TrendStep = 2
  TrendWindow = 12
  TrendTarget = 5
  Intervals <- MCIntervals
  Radius = 3
  Pointers <- MCPointers
  TPSAnswers <- MCTPSAnswers
  Widths = {4, 7}
  Targets = {0, 1, 4, 5, 13}
  Rounds <- MCRounds
  Minute = 10
  RollingPoints = 3
INVARIANTS Ranked TrendTrue ThinnedTrue CostsTrue TooltipsCurrent SameInEveryForm
CHECK_DEADLOCK FALSE
