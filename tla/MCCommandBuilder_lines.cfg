SPECIFICATION FairSpec
CONSTANTS
  None = None
  Calls = {c1, c2}
  Programs = {p1, p2}
  MaxCloses = 1
INVARIANTS AnswersOwn NothingLeftRunning
PROPERTY BuildReturns
CHECK_DEADLOCK FALSE
