SPECIFICATION Spec
CONSTANTS
  c1 = c1 r1 = r1 r2 = r2 v1 = v1
  Clients = {c1}
  Requests = {r1, r2}
  Venues = {v1}
  Asks <- MCAsks
  Envs <- MCEnvs
  Attempts <- MCAttempts
  TTL = 1
  None = None
  MaxTime = 2
SYMMETRY MCSymmetry
INVARIANTS AnswersOwn EmptyNotKept
PROPERTY HiddenSoon
