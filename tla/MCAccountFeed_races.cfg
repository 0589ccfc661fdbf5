SPECIFICATION Spec
CONSTANTS
  w1 = w1 w2 = w2 o1 = o1 o2 = o2 m1 = m1 m2 = m2
  None = None NoKey = NoKey
  Waiters = {w1, w2}
  Clients = {c1, c2}
  Orders = {o1, o2}
  Messages = {m1, m2}
  CancelWaiters = {w1}
  MsgIds <- MCMsgIds
  Need <- MCNeed
  Rejects <- MCRejects
  DialKeyOf <- SharedKey
  AuthLife = 1 AuthSkew = 0
  RecentLimit = 1 RecentAge = 0 StaleAfter = 0
  MaxTime = 2 MaxReads = 2
SYMMETRY ClientSymmetry
INVARIANTS AnsweredOnce NothingLeftBehind SocketsInHand
PROPERTY ImplementsConfirmations
CHECK_DEADLOCK FALSE
