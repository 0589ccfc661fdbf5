SPECIFICATION Spec
CONSTANTS
  Calls = {s1, s2}
  MaxConns = 2
  Settings <- Every
INVARIANTS AnswersOwn SocketKept
PROPERTY NobodyHeldUp
CHECK_DEADLOCK FALSE
