-------------------------- MODULE AccountFeedProofs --------------------------
(* Theorems about AccountFeed, for every set of confirmations, connections  *)
(* and events, every buffer bound, and every clock.                         *)
EXTENDS AccountFeed, SequenceTheorems, FiniteSetTheorems, WellFoundedInduction, TLAPS

\* Trimming the replay buffer leaves a sequence of events.
LEMMA TrimmedType ==
  ASSUME NEW s \in Seq(Event), NEW t, NEW k \in DropCounts(s, t)
  PROVE  Trimmed(s, k) \in Seq(Event)
<1>1. k \in 0..Len(s) BY DEF DropCounts
<1>2. \A i \in (k + 1)..Len(s) : s[i] \in Event BY <1>1
<1> QED BY <1>1, <1>2, SubSeqProperties DEF Trimmed

\* Arithmetic on a length.
LEMMA LenOne == ASSUME NEW s, Len(s) \in Nat \ {0}, Len(s) <= 1 PROVE Len(s) = 1
<1> DEFINE n == Len(s)
<1>1. n \in Nat \ {0} /\ n <= 1 OBVIOUS
<1> HIDE DEF n
<1>2. n = 1 BY <1>1
<1> QED BY <1>2 DEF n

\* An error sent to a waiter is a result in its channel.
LEMMA SendType ==
  ASSUME TypeOK, NEW v \in Waiters, NEW kind \in Kinds,
         Send(v, Answer(kind, None))
  PROVE  ch' \in [Waiters -> Seq(Result)]
<1>1. Answer(kind, None) \in Result BY DEF Answer, Result
<1>2. Append(ch[v], Answer(kind, None)) \in Seq(Result)
  BY <1>1, AppendProperties DEF TypeOK
<1> QED BY <1>2 DEF Send, TypeOK

-----------------------------------------------------------------------------
(* Type correctness                                                        *)

\* The feed starts well typed.
LEMMA TypeInit == Init => TypeOK
BY FeedAssumption DEF Init, TypeOK, PCs, Result, Kinds, Answer

\* Every step of Ensure preserves the types.
LEMMA TypeEnsure ==
  ASSUME TypeOK, NEW w \in Waiters, EnsureStep(w)
  PROVE  TypeOK'
<1>1. CASE EnsureReady(w)
  BY <1>1 DEF EnsureReady, Ensured, TypeOK, PCs, feed, ensure, socket
<1>2. CASE EnsureExpired(w)
  BY <1>2 DEF EnsureExpired, EnsureFailed, TypeOK, PCs, Result, Kinds, Answer,
              feed, ensure, socket
<1>3. CASE EnsureLock(w)
  BY <1>3 DEF EnsureLock, TypeOK, PCs, feed, socket
<1>4. ASSUME NEW c \in Clients, DialOk(w, c) PROVE TypeOK'
  BY <1>4 DEF DialOk, TypeOK, PCs, feed
<1>5. CASE DialFail(w)
  BY <1>5 DEF DialFail, EnsureFailed, TypeOK, PCs, Result, Kinds, Answer,
              feed, socket
<1>6. CASE Swap(w)
  BY <1>6, FeedAssumption DEF Swap, TypeOK, PCs, Goroutines, socket
<1>7. CASE CloseOld(w)
  BY <1>7 DEF CloseOld, Closed, TypeOK, PCs, feed
<1>8. ASSUME NEW v \in Waiters, NotifyReconnect(w, v) PROVE TypeOK'
  <2>1. ch' \in [Waiters -> Seq(Result)]
    BY <1>8, SendType DEF NotifyReconnect, Kinds
  <2> QED BY <1>8, <2>1 DEF NotifyReconnect, TypeOK, Goroutines, feed, ensure,
                            caller, socket
<1>9. CASE StartReader(w)
  BY <1>9 DEF StartReader, Ensured, TypeOK, PCs, feed
<1> QED
  BY <1>1, <1>2, <1>3, <1>4, <1>5, <1>6, <1>7, <1>8, <1>9 DEF EnsureStep

\* Every step of Wait preserves the types.
LEMMA TypeWait ==
  ASSUME TypeOK, NEW w \in Waiters, WaitStep(w)
  PROVE  TypeOK'
<1>1. CASE WaitReplay(w)
  <2>1. PICK k \in DropCounts(recent, now) :
          /\ recent' = Trimmed(recent, k)
          /\ \E n \in 1..Len(Trimmed(recent, k)) :
               /\ outcome' = [outcome EXCEPT
                                ![w] = AnswerFor(w, Trimmed(recent, k)[n].msg)]
               /\ remaining' = [remaining EXCEPT
                                  ![w] = @ \ SeenUpTo(w, Trimmed(recent, k), n)]
    BY <1>1 DEF WaitReplay
  <2> PICK n \in 1..Len(Trimmed(recent, k)) :
        /\ outcome' = [outcome EXCEPT
                         ![w] = AnswerFor(w, Trimmed(recent, k)[n].msg)]
        /\ remaining' = [remaining EXCEPT
                           ![w] = @ \ SeenUpTo(w, Trimmed(recent, k), n)]
    BY <2>1
  <2>2. Trimmed(recent, k) \in Seq(Event) BY TrimmedType DEF TypeOK
  <2>3. Trimmed(recent, k)[n] \in Event BY <2>2
  <2>4. AnswerFor(w, Trimmed(recent, k)[n].msg) \in Result
    BY <2>3 DEF AnswerFor, Answer, Result, Kinds, Event
  <2> QED BY <1>1, <2>1, <2>2, <2>4 DEF WaitReplay, TypeOK, PCs, ensure, socket
<1>2. CASE WaitRegister(w)
  <2>1. PICK k \in DropCounts(recent, now) :
          /\ recent' = Trimmed(recent, k)
          /\ remaining' = [remaining EXCEPT ![w] =
               @ \ SeenUpTo(w, Trimmed(recent, k), Len(Trimmed(recent, k)))]
    BY <1>2 DEF WaitRegister
  <2>2. Trimmed(recent, k) \in Seq(Event) BY TrimmedType DEF TypeOK
  <2> QED BY <1>2, <2>1, <2>2 DEF WaitRegister, TypeOK, PCs, ensure, socket
<1>3. CASE WaitReceive(w)
  <2>1. Head(ch[w]) \in Result /\ Tail(ch[w]) \in Seq(Result)
    BY <1>3, HeadTailProperties DEF WaitReceive, TypeOK
  <2> QED BY <1>3, <2>1 DEF WaitReceive, TypeOK, PCs, feed, ensure, socket
<1>4. CASE WaitTimeout(w)
  <2>1. client' \in Clients \cup {None} /\ authUntil' \in Nat
        /\ lastRead' \in Nat /\ closing' \subseteq Clients
    BY <1>4 DEF WaitTimeout, Stale, TypeOK
  <2>2. outcome' \in [Waiters -> Result]
    BY <1>4 DEF WaitTimeout, TypeOK, Result, Kinds, Answer
  <2> QED BY <1>4, <2>1, <2>2 DEF WaitTimeout, TypeOK, PCs, ensure
<1> QED BY <1>1, <1>2, <1>3, <1>4 DEF WaitStep

\* Every step of a connection, its reader included, preserves the types.
LEMMA TypeReader ==
  ASSUME TypeOK, NEW c \in Clients, ReaderStep(c)
  PROVE  TypeOK'
<1>1. CASE Dispatch(c)
  <2> DEFINE e == hand[c][1]
  <2>1. e \in Event BY <1>1 DEF Dispatch, TypeOK
  <2>2. PICK k \in DropCounts(Append(recent, e), e.at) :
          recent' = Trimmed(Append(recent, e), k)
    BY <1>1 DEF Dispatch
  <2>3. recent' \in Seq(Event)
    BY <2>1, <2>2, TrimmedType, AppendProperties DEF TypeOK
  <2>4. \A w \in Waiters : AnswerFor(w, e.msg) \in Result
    BY <2>1 DEF AnswerFor, Answer, Result, Kinds, Event
  <2>5. ch' \in [Waiters -> Seq(Result)]
    BY <1>1, <2>4, AppendProperties DEF Dispatch, TypeOK
  <2>6. lastRead' \in Nat /\ log' \subseteq Event
    BY <1>1, <2>1 DEF Dispatch, TypeOK, Event
  <2>7. remaining' \in [Waiters -> SUBSET Orders] /\ waiters' \subseteq Waiters
    BY <1>1 DEF Dispatch, TypeOK
  <2>8. /\ hand' \in [Clients -> Seq(Event)]
        /\ rd' = [rd EXCEPT ![c] = "read"]
        /\ \A d \in Clients : rd'[d] = "got" => hand'[d] # <<>>
    BY <1>1 DEF Dispatch, TypeOK
  <2> QED BY <1>1, <2>3, <2>5, <2>6, <2>7, <2>8 DEF Dispatch, TypeOK, ensure, caller
<1>2. CASE FailStale(c)
  BY <1>2 DEF FailStale, Closed, TypeOK, feed, ensure, caller
<1>3. CASE FailCurrent(c)
  BY <1>3, FeedAssumption DEF FailCurrent, TypeOK, Goroutines, ensure, caller
<1>4. CASE FailClose(c)
  BY <1>4 DEF FailClose, Closed, TypeOK, feed, ensure, caller
<1>5. ASSUME NEW v \in Waiters, FailNotify(c, v) PROVE TypeOK'
  <2>1. ch' \in [Waiters -> Seq(Result)] BY <1>5, SendType DEF FailNotify, Kinds
  <2> QED BY <1>5, <2>1 DEF FailNotify, TypeOK, Goroutines, feed, ensure,
                            caller, socket
<1>6. CASE FailDone(c)
  BY <1>6 DEF FailDone, TypeOK, feed, ensure, caller
<1> QED BY <1>1, <1>2, <1>3, <1>4, <1>5, <1>6 DEF ReaderStep

\* Every step of the callers, the sockets and the clock preserves the types.
LEMMA TypeNext == TypeOK /\ [Next]_vars => TypeOK'
<1> SUFFICES ASSUME TypeOK, [Next]_vars PROVE TypeOK' OBVIOUS
<1>1. ASSUME NEW w \in Waiters, Prepare(w) PROVE TypeOK'
  BY <1>1, FeedAssumption DEF Prepare, TypeOK, PCs, feed, ensure, socket
<1>2. ASSUME NEW w \in Waiters, Submit(w) PROVE TypeOK'
  BY <1>2 DEF Submit, TypeOK, PCs, feed, ensure, socket
<1>3. ASSUME NEW w \in Waiters, EnsureStep(w) PROVE TypeOK'
  BY <1>3, TypeEnsure
<1>4. ASSUME NEW w \in Waiters, WaitStep(w) PROVE TypeOK'
  BY <1>4, TypeWait
<1>5. ASSUME NEW c \in Clients, NEW m \in Messages, ReadEvent(c, m) PROVE TypeOK'
  <2>1. [msg |-> m, at |-> now] \in Event BY DEF TypeOK, Event
  <2>2. <<[msg |-> m, at |-> now]>> \in Seq(Event) BY <2>1
  <2>3. hand' \in [Clients -> Seq(Event)] BY <1>5, <2>2 DEF ReadEvent, TypeOK
  <2>4. \A d \in Clients : rd'[d] = "got" => hand'[d] # <<>>
    BY <1>5 DEF ReadEvent, TypeOK
  <2> QED BY <1>5, <2>3, <2>4 DEF ReadEvent, TypeOK, feed, ensure, caller
<1>6. ASSUME NEW c \in Clients, ReadError(c) PROVE TypeOK'
  BY <1>6 DEF ReadError, TypeOK, feed, ensure, caller
<1>7. ASSUME NEW c \in Clients, ReaderStep(c) PROVE TypeOK'
  BY <1>7, TypeReader
<1>8. ASSUME NEW c \in Clients, AsyncClose(c) PROVE TypeOK'
  BY <1>8 DEF AsyncClose, Closed, TypeOK, feed, ensure, caller
<1>9. ASSUME NEW c \in Clients, ConnectionLost(c) PROVE TypeOK'
  BY <1>9 DEF ConnectionLost, Closed, TypeOK, feed, ensure, caller
<1>10. CASE Tick BY <1>10 DEF Tick, TypeOK, feed, ensure, caller, socket
<1>11. CASE UNCHANGED vars
  BY <1>11 DEF vars, TypeOK, feed, ensure, caller, socket
<1> QED BY <1>1, <1>2, <1>3, <1>4, <1>5, <1>6, <1>7, <1>8, <1>9, <1>10, <1>11
        DEF Next

\* The feed's state is well typed in every reachable state.
THEOREM TypeCorrect == Spec => []TypeOK
BY TypeInit, TypeNext, PTL DEF Spec

-----------------------------------------------------------------------------
(* Connections                                                             *)

\* No connection exists at the start.
LEMMA SocketInit == Init => SocketInv
BY FeedAssumption DEF Init, SocketInv, CurrentIsRead, NoSocketLeak

\* Ensure replaces the connection without leaking one.
LEMMA SocketEnsure ==
  ASSUME TypeOK, SocketInv, NEW w \in Waiters, EnsureStep(w)
  PROVE  SocketInv'
<1>1. CASE EnsureReady(w)
  BY <1>1, FeedAssumption DEF EnsureReady, Ensured, feed, ensure, socket, SocketInv,
      CurrentIsRead, NoSocketLeak, TypeOK
<1>2. CASE EnsureExpired(w)
  BY <1>2, FeedAssumption DEF EnsureExpired, EnsureFailed, feed, ensure, socket, SocketInv,
      CurrentIsRead, NoSocketLeak, TypeOK
<1>3. CASE EnsureLock(w)
  BY <1>3, FeedAssumption DEF EnsureLock, feed, socket, SocketInv,
      CurrentIsRead, NoSocketLeak, TypeOK
<1>4. ASSUME NEW c \in Clients, DialOk(w, c) PROVE SocketInv'
  BY <1>4, FeedAssumption DEF DialOk, feed, SocketInv,
      CurrentIsRead, NoSocketLeak, TypeOK
<1>5. CASE DialFail(w)
  BY <1>5, FeedAssumption DEF DialFail, EnsureFailed, feed, socket, SocketInv,
      CurrentIsRead, NoSocketLeak, TypeOK
<1>6. CASE Swap(w)
  BY <1>6, FeedAssumption DEF Swap, socket, SocketInv,
      CurrentIsRead, NoSocketLeak, TypeOK
<1>7. CASE CloseOld(w)
  BY <1>7, FeedAssumption DEF CloseOld, Closed, feed, SocketInv,
      CurrentIsRead, NoSocketLeak, TypeOK
<1>8. ASSUME NEW v \in Waiters, NotifyReconnect(w, v) PROVE SocketInv'
  BY <1>8, FeedAssumption DEF NotifyReconnect, feed, ensure, caller, socket, SocketInv,
      CurrentIsRead, NoSocketLeak, TypeOK
<1>9. CASE StartReader(w)
  BY <1>9, FeedAssumption DEF StartReader, Ensured, feed, SocketInv,
      CurrentIsRead, NoSocketLeak, TypeOK
<1> QED
  BY <1>1, <1>2, <1>3, <1>4, <1>5, <1>6, <1>7, <1>8, <1>9 DEF EnsureStep

\* So does Wait, whose timeout may hand the connection to an asynchronous Close.
LEMMA SocketWait ==
  ASSUME TypeOK, SocketInv, NEW w \in Waiters, WaitStep(w)
  PROVE  SocketInv'
<1>1. CASE WaitReplay(w)
  BY <1>1, FeedAssumption DEF WaitReplay, ensure, socket, SocketInv,
      CurrentIsRead, NoSocketLeak, TypeOK
<1>2. CASE WaitRegister(w)
  BY <1>2, FeedAssumption DEF WaitRegister, ensure, socket, SocketInv,
      CurrentIsRead, NoSocketLeak, TypeOK
<1>3. CASE WaitReceive(w)
  BY <1>3, FeedAssumption DEF WaitReceive, feed, ensure, socket, SocketInv,
      CurrentIsRead, NoSocketLeak, TypeOK
<1>4. CASE WaitTimeout(w)
  BY <1>4, FeedAssumption DEF WaitTimeout, Stale, ensure, SocketInv,
      CurrentIsRead, NoSocketLeak, TypeOK
<1> QED
  BY <1>1, <1>2, <1>3, <1>4 DEF WaitStep

\* So does a reader, whether its connection is current or has been replaced.
LEMMA SocketReader ==
  ASSUME TypeOK, SocketInv, NEW c \in Clients, ReaderStep(c)
  PROVE  SocketInv'
<1>1. CASE Dispatch(c)
  BY <1>1, FeedAssumption DEF Dispatch, ensure, caller, SocketInv,
      CurrentIsRead, NoSocketLeak, TypeOK
<1>2. CASE FailStale(c)
  BY <1>2, FeedAssumption DEF FailStale, Closed, feed, ensure, caller, SocketInv,
      CurrentIsRead, NoSocketLeak, TypeOK
<1>3. CASE FailCurrent(c)
  BY <1>3, FeedAssumption DEF FailCurrent, ensure, caller, SocketInv,
      CurrentIsRead, NoSocketLeak, TypeOK
<1>4. CASE FailClose(c)
  BY <1>4, FeedAssumption DEF FailClose, Closed, feed, ensure, caller, SocketInv,
      CurrentIsRead, NoSocketLeak, TypeOK
<1>5. ASSUME NEW v \in Waiters, FailNotify(c, v) PROVE SocketInv'
  BY <1>5, FeedAssumption DEF FailNotify, feed, ensure, caller, socket, SocketInv,
      CurrentIsRead, NoSocketLeak, TypeOK
<1>6. CASE FailDone(c)
  BY <1>6, FeedAssumption DEF FailDone, feed, ensure, caller, SocketInv,
      CurrentIsRead, NoSocketLeak, TypeOK
<1> QED
  BY <1>1, <1>2, <1>3, <1>4, <1>5, <1>6 DEF ReaderStep

\* Every step keeps every open connection in somebody's hands.
LEMMA SocketNext == TypeOK /\ SocketInv /\ [Next]_vars => SocketInv'
<1> SUFFICES ASSUME TypeOK, SocketInv, [Next]_vars PROVE SocketInv' OBVIOUS
<1>1. ASSUME NEW w \in Waiters, Prepare(w) PROVE SocketInv'
  BY <1>1, FeedAssumption DEF Prepare, feed, ensure, socket, SocketInv,
      CurrentIsRead, NoSocketLeak, TypeOK
<1>2. ASSUME NEW w \in Waiters, Submit(w) PROVE SocketInv'
  BY <1>2, FeedAssumption DEF Submit, feed, ensure, socket, SocketInv,
      CurrentIsRead, NoSocketLeak, TypeOK
<1>3. ASSUME NEW c \in Clients, NEW m \in Messages, ReadEvent(c, m) PROVE SocketInv'
  BY <1>3, FeedAssumption DEF ReadEvent, feed, ensure, caller, SocketInv,
      CurrentIsRead, NoSocketLeak, TypeOK
<1>4. ASSUME NEW c \in Clients, ReadError(c) PROVE SocketInv'
  BY <1>4, FeedAssumption DEF ReadError, feed, ensure, caller, SocketInv,
      CurrentIsRead, NoSocketLeak, TypeOK
<1>5. ASSUME NEW c \in Clients, AsyncClose(c) PROVE SocketInv'
  BY <1>5, FeedAssumption DEF AsyncClose, Closed, feed, ensure, caller, SocketInv,
      CurrentIsRead, NoSocketLeak, TypeOK
<1>6. ASSUME NEW c \in Clients, ConnectionLost(c) PROVE SocketInv'
  BY <1>6, FeedAssumption DEF ConnectionLost, Closed, feed, ensure, caller, SocketInv,
      CurrentIsRead, NoSocketLeak, TypeOK
<1>7. CASE Tick
  BY <1>7, FeedAssumption DEF Tick, feed, ensure, caller, socket, SocketInv,
      CurrentIsRead, NoSocketLeak, TypeOK
<1>8. CASE UNCHANGED vars
  BY <1>8, FeedAssumption DEF vars, feed, ensure, caller, socket, SocketInv,
      CurrentIsRead, NoSocketLeak, TypeOK
<1> QED
  BY SocketEnsure, SocketWait, SocketReader,
     <1>1, <1>2, <1>3, <1>4, <1>5, <1>6, <1>7, <1>8 DEF Next

\* Reconnects, stale failures and invalidations leave no open connection
\* without an owner, and never a current connection without a reader.
THEOREM SocketsOwned == Spec => []SocketsInHand
<1>1. Spec => []SocketInv
  BY TypeCorrect, SocketInit, SocketNext, PTL DEF Spec
<1>2. SocketInv => SocketsInHand BY DEF SocketInv, SocketsInHand
<1> QED BY <1>1, <1>2, PTL

-----------------------------------------------------------------------------
(* At most one answer                                                      *)

\* A step that touches neither the registrations, the detached waiters nor the
\* channels, moves no confirmation into the states where it may be owed an
\* answer, and takes no detached waiter from its holder, keeps AnswerInv.
LEMMA AnswerFrame ==
  ASSUME TypeOK, AnswerInv, UNCHANGED <<waiters, notify, ch>>,
         pc' \in [Waiters -> PCs],
         \A w \in Waiters : pc'[w] # pc[w] => pc[w] \notin {"blocked", "done"},
         \A w \in Waiters : pc[w] \in {"closeOld", "notify"} =>
           pc'[w] \in {"closeOld", "notify"} \/ notify[w] = {},
         \A c \in Clients : rd[c] \in {"close", "notify"} =>
           rd'[c] \in {"close", "notify"} \/ notify[c] = {}
  PROVE  AnswerInv'
<1>1. AnsweredOnce' BY DEF AnswerInv, AnsweredOnce
<1>2. \A w \in waiters' : pc'[w] = "blocked" BY DEF AnswerInv, TypeOK
<1>3. \A w \in Waiters : pc'[w] \notin {"blocked", "done"} =>
        ch'[w] = <<>> /\ \A g \in Goroutines : w \notin notify'[g]
  BY DEF AnswerInv
<1>4. \A w \in Waiters : pc'[w] \notin {"closeOld", "notify"} => notify'[w] = {}
  BY DEF AnswerInv
<1>5. \A c \in Clients : rd'[c] \notin {"close", "notify"} => notify'[c] = {}
  BY DEF AnswerInv
<1> QED BY <1>1, <1>2, <1>3, <1>4, <1>5 DEF AnswerInv

\* Sending an answer to a waiter this goroutine has detached discharges it.
LEMMA AnswerSend ==
  ASSUME TypeOK, AnswerInv, NEW g \in Goroutines, NEW v \in notify[g],
         NEW kind \in Kinds, Send(v, Answer(kind, None)),
         notify' = [notify EXCEPT ![g] = @ \ {v}],
         UNCHANGED <<waiters, pc, rd>>
  PROVE  AnswerInv'
<1>0. v \in Waiters BY DEF TypeOK
<1>1. Len(ch'[v]) = 1 /\ \A w \in Waiters : w # v => ch'[w] = ch[w]
  BY <1>0, AppendProperties DEF Send, TypeOK
<1>2. v \notin waiters' BY <1>0 DEF AnswerInv, AnsweredOnce
<1>3. \A h \in Goroutines : v \notin notify'[h]
  BY <1>0, FeedAssumption DEF AnswerInv, AnsweredOnce, TypeOK
<1>4. \A h \in Goroutines : notify'[h] \subseteq notify[h]
  BY DEF TypeOK
<1>5. pc[v] \in {"blocked", "done"} BY <1>0 DEF AnswerInv
<1>6. AnsweredOnce'
  <2> SUFFICES ASSUME NEW w \in Waiters
               PROVE  /\ Len(ch'[w]) <= 1
                      /\ w \in waiters' => ch'[w] = <<>> /\
                           \A h \in Goroutines : w \notin notify'[h]
                      /\ \A h, i \in Goroutines : w \in notify'[h] =>
                           ch'[w] = <<>> /\ (w \in notify'[i] => h = i)
    BY DEF AnsweredOnce
  <2>1. CASE w = v BY <2>1, <1>1, <1>2, <1>3
  <2>2. CASE w # v
    <3>1. ch'[w] = ch[w] BY <1>1, <2>2
    <3>2. \A h \in Goroutines : w \in notify'[h] => w \in notify[h] BY <1>4
    <3> QED BY <3>1, <3>2 DEF AnswerInv, AnsweredOnce
  <2> QED BY <2>1, <2>2
<1> QED BY <1>0, <1>1, <1>3, <1>4, <1>5, <1>6 DEF AnswerInv, TypeOK, Goroutines

\* Detaching every registered waiter into the hands of a goroutine that holds
\* none keeps the debts unique.
LEMMA AnswerDetach ==
  ASSUME TypeOK, AnswerInv, NEW g \in Goroutines, notify[g] = {},
         notify' = [notify EXCEPT ![g] = waiters], waiters' = {}, ch' = ch
  PROVE  /\ AnsweredOnce'
         /\ \A w \in Waiters : pc[w] \notin {"blocked", "done"} =>
              ch'[w] = <<>> /\ \A h \in Goroutines : w \notin notify'[h]
         /\ \A h \in Goroutines : h # g => notify'[h] = notify[h]
<1>1. \A h \in Goroutines : notify'[h] = IF h = g THEN waiters ELSE notify[h]
  BY DEF TypeOK
<1> QED BY <1>1 DEF AnswerInv, AnsweredOnce, TypeOK

\* Nothing is owed at the start.
LEMMA AnswerInit == Init => AnswerInv
BY DEF Init, AnswerInv, AnsweredOnce, Goroutines

\* Ensure keeps AnswerInv: it detaches at Swap and discharges by sending.
LEMMA AnswerEnsure ==
  ASSUME TypeOK, AnswerInv, SocketInv, NEW w \in Waiters, EnsureStep(w)
  PROVE  AnswerInv'
<1>0. TypeOK' BY TypeEnsure
<1>1. CASE EnsureReady(w)
  BY <1>0, <1>1, AnswerFrame DEF EnsureReady, Ensured, TypeOK, feed, socket
<1>2. CASE EnsureExpired(w)
  BY <1>0, <1>2, AnswerFrame DEF EnsureExpired, EnsureFailed, TypeOK, feed, socket
<1>3. CASE EnsureLock(w)
  BY <1>0, <1>3, AnswerFrame DEF EnsureLock, TypeOK, feed, socket
<1>4. ASSUME NEW c \in Clients, DialOk(w, c) PROVE AnswerInv'
  BY <1>0, <1>4, AnswerFrame DEF DialOk, TypeOK, feed
<1>5. CASE DialFail(w)
  BY <1>0, <1>5, AnswerFrame DEF DialFail, EnsureFailed, TypeOK, feed, socket
<1>6. CASE Swap(w)
  <2>1. notify[w] = {} BY <1>6 DEF Swap, AnswerInv
  <2>2. w \in Goroutines BY DEF Goroutines
  <2>3. /\ AnsweredOnce'
        /\ \A v \in Waiters : pc[v] \notin {"blocked", "done"} =>
             ch'[v] = <<>> /\ \A h \in Goroutines : v \notin notify'[h]
        /\ \A h \in Goroutines : h # w => notify'[h] = notify[h]
    BY <1>6, <2>1, <2>2, AnswerDetach DEF Swap
  <2>4. pc' = [pc EXCEPT ![w] = "closeOld"] /\ rd' = rd /\ waiters' = {}
    BY <1>6 DEF Swap, socket
  <2>5. \A c \in Clients : c # w BY FeedAssumption
  <2> QED BY <1>6, <2>3, <2>4, <2>5 DEF AnswerInv, TypeOK, Goroutines, Swap
<1>7. CASE CloseOld(w)
  BY <1>0, <1>7, AnswerFrame DEF CloseOld, TypeOK, feed
<1>8. ASSUME NEW v \in Waiters, NotifyReconnect(w, v) PROVE AnswerInv'
  BY <1>8, AnswerSend DEF NotifyReconnect, Kinds, Goroutines, feed, caller, socket
<1>9. CASE StartReader(w)
  <2>1. \A c \in Clients : rd[c] \in {"close", "notify"} =>
          rd'[c] \in {"close", "notify"} \/ notify[c] = {}
    BY <1>9 DEF StartReader, SocketInv, TypeOK
  <2> QED BY <1>0, <1>9, <2>1, AnswerFrame DEF StartReader, Ensured, TypeOK, feed
<1> QED
  BY <1>1, <1>2, <1>3, <1>4, <1>5, <1>6, <1>7, <1>8, <1>9 DEF EnsureStep

\* Wait registers a confirmation that was owed nothing, and forgets one that
\* has been answered or has timed out.
LEMMA AnswerWait ==
  ASSUME TypeOK, AnswerInv, NEW w \in Waiters, WaitStep(w)
  PROVE  AnswerInv'
<1>0. TypeOK' BY TypeWait
<1>1. CASE WaitReplay(w)
  BY <1>0, <1>1, AnswerFrame DEF WaitReplay, TypeOK, ensure, socket
<1>2. CASE WaitRegister(w)
  <2>1. /\ waiters' = waiters \cup {w} /\ pc[w] = "wait"
        /\ pc' = [pc EXCEPT ![w] = "blocked"]
        /\ UNCHANGED <<notify, ch, rd>>
    BY <1>2 DEF WaitRegister, socket
  <2>2. ch[w] = <<>> /\ \A g \in Goroutines : w \notin notify[g]
    BY <2>1 DEF AnswerInv
  <2>3. AnsweredOnce'
    BY <2>1, <2>2 DEF AnswerInv, AnsweredOnce
  <2>4. \A v \in Waiters : pc'[v] = IF v = w THEN "blocked" ELSE pc[v]
    BY <2>1 DEF TypeOK
  <2> QED BY <2>1, <2>2, <2>3, <2>4 DEF AnswerInv, TypeOK
<1>3. CASE WaitReceive(w)
  <2>1. ch[w] \in Seq(Result) /\ ch[w] # <<>> /\ Len(ch[w]) <= 1
    BY <1>3 DEF WaitReceive, AnswerInv, AnsweredOnce, TypeOK
  <2>2. Tail(ch[w]) = <<>>
    <3>0. Len(ch[w]) \in Nat \ {0} BY <2>1, EmptySeq
    <3>1. Len(ch[w]) = 1 BY <2>1, <3>0, LenOne
    <3>2. Tail(ch[w]) \in Seq(Result) /\ Len(Tail(ch[w])) = 0
      BY <2>1, <3>1, HeadTailProperties
    <3> QED BY <3>2, EmptySeq
  <2>3. ch' = [ch EXCEPT ![w] = <<>>] BY <1>3, <2>2 DEF WaitReceive
  <2> QED BY <1>3, <2>1, <2>3 DEF WaitReceive, AnswerInv, AnsweredOnce, TypeOK,
              feed, ensure, socket
<1>4. CASE WaitTimeout(w)
  BY <1>4 DEF WaitTimeout, AnswerInv, AnsweredOnce, TypeOK, ensure
<1> QED BY <1>1, <1>2, <1>3, <1>4 DEF WaitStep

\* A reader answers waiters it removes from the registrations in the same
\* step, and detaches or discharges the others.
LEMMA AnswerReader ==
  ASSUME TypeOK, AnswerInv, NEW c \in Clients, ReaderStep(c)
  PROVE  AnswerInv'
<1>0. TypeOK' BY TypeReader
<1>1. CASE Dispatch(c)
  <2> DEFINE S == Settled(hand[c][1])
  <2>1. S \subseteq waiters BY DEF Settled, Shown
  <2>2. \A w \in Waiters : w \in S => ch[w] = <<>> /\ Len(ch'[w]) = 1
    <3> SUFFICES ASSUME NEW w \in Waiters, w \in S
                 PROVE  ch[w] = <<>> /\ Len(ch'[w]) = 1
      OBVIOUS
    <3>1. ch[w] = <<>> BY <1>1 DEF Dispatch
    <3>2. ch'[w] = Append(<<>>, AnswerFor(w, hand[c][1].msg))
      BY <1>1, <3>1 DEF Dispatch
    <3> QED BY <3>1, <3>2
  <2>3. \A w \in Waiters : w \notin S => ch'[w] = ch[w]
    BY <1>1 DEF Dispatch
  <2>4. waiters' = waiters \ S /\ notify' = notify /\ pc' = pc
    BY <1>1 DEF Dispatch, caller
  <2>5. rd' = [rd EXCEPT ![c] = "read"] /\ rd[c] = "got"
    BY <1>1 DEF Dispatch
  <2> HIDE DEF S
  <2>6. AnsweredOnce'
    <3> SUFFICES ASSUME NEW w \in Waiters
                 PROVE  /\ Len(ch'[w]) <= 1
                        /\ w \in waiters' => ch'[w] = <<>> /\
                             \A h \in Goroutines : w \notin notify'[h]
                        /\ \A h, i \in Goroutines : w \in notify'[h] =>
                             ch'[w] = <<>> /\ (w \in notify'[i] => h = i)
      BY DEF AnsweredOnce
    <3>1. CASE w \in S
      <4>1. w \in waiters /\ w \notin waiters' BY <3>1, <2>1, <2>4
      <4>2. \A h \in Goroutines : w \notin notify'[h]
        BY <4>1, <2>4 DEF AnswerInv, AnsweredOnce
      <4>3. Len(ch'[w]) <= 1 BY <3>1, <2>2, 1 <= 1
      <4> QED BY <4>1, <4>2, <4>3
    <3>2. CASE w \notin S
      BY <3>2, <2>3, <2>4 DEF AnswerInv, AnsweredOnce
    <3> QED BY <3>1, <3>2
  <2>7. \A w \in Waiters : pc'[w] \notin {"blocked", "done"} => w \notin S
    BY <2>1, <2>4 DEF AnswerInv
  <2>8. \A d \in Clients : rd'[d] \notin {"close", "notify"} => notify[d] = {}
    BY <2>5 DEF AnswerInv, TypeOK
  <2> QED BY <2>3, <2>4, <2>6, <2>7, <2>8 DEF AnswerInv
<1>2. CASE FailStale(c)
  BY <1>0, <1>2, AnswerFrame DEF FailStale, AnswerInv, TypeOK, feed, caller
<1>3. CASE FailCurrent(c)
  <2>1. notify[c] = {} BY <1>3 DEF FailCurrent, AnswerInv
  <2>2. c \in Goroutines BY DEF Goroutines
  <2>3. /\ AnsweredOnce'
        /\ \A v \in Waiters : pc[v] \notin {"blocked", "done"} =>
             ch'[v] = <<>> /\ \A h \in Goroutines : v \notin notify'[h]
        /\ \A h \in Goroutines : h # c => notify'[h] = notify[h]
    BY <1>3, <2>1, <2>2, AnswerDetach DEF FailCurrent
  <2>4. pc' = pc /\ rd' = [rd EXCEPT ![c] = "close"] /\ waiters' = {}
    BY <1>3 DEF FailCurrent, caller
  <2>5. \A w \in Waiters : c # w BY FeedAssumption
  <2> QED BY <2>3, <2>4, <2>5 DEF AnswerInv, TypeOK, Goroutines
<1>4. CASE FailClose(c)
  BY <1>0, <1>4, AnswerFrame DEF FailClose, TypeOK, feed, caller
<1>5. ASSUME NEW v \in Waiters, FailNotify(c, v) PROVE AnswerInv'
  BY <1>5, AnswerSend DEF FailNotify, Kinds, Goroutines, feed, caller, socket
<1>6. CASE FailDone(c)
  BY <1>0, <1>6, AnswerFrame DEF FailDone, TypeOK, feed, caller
<1> QED BY <1>1, <1>2, <1>3, <1>4, <1>5, <1>6 DEF ReaderStep

\* Every step keeps what each confirmation is owed unique.
LEMMA AnswerNext == TypeOK /\ SocketInv /\ AnswerInv /\ [Next]_vars => AnswerInv'
<1> SUFFICES ASSUME TypeOK, SocketInv, AnswerInv, [Next]_vars
             PROVE  AnswerInv'
  OBVIOUS
<1>0. TypeOK' BY TypeNext
<1>1. ASSUME NEW w \in Waiters, Prepare(w) PROVE AnswerInv'
  BY <1>0, <1>1, AnswerFrame DEF Prepare, TypeOK, feed, socket
<1>2. ASSUME NEW w \in Waiters, Submit(w) PROVE AnswerInv'
  BY <1>0, <1>2, AnswerFrame DEF Submit, TypeOK, feed, socket
<1>3. ASSUME NEW c \in Clients, NEW m \in Messages, ReadEvent(c, m)
      PROVE  AnswerInv'
  BY <1>0, <1>3, AnswerFrame DEF ReadEvent, TypeOK, feed, caller
<1>4. ASSUME NEW c \in Clients, ReadError(c) PROVE AnswerInv'
  BY <1>0, <1>4, AnswerFrame DEF ReadError, TypeOK, feed, caller
<1>5. ASSUME NEW c \in Clients, AsyncClose(c) PROVE AnswerInv'
  BY <1>0, <1>5, AnswerFrame DEF AsyncClose, TypeOK, feed, caller
<1>6. ASSUME NEW c \in Clients, ConnectionLost(c) PROVE AnswerInv'
  BY <1>0, <1>6, AnswerFrame DEF ConnectionLost, TypeOK, feed, caller
<1>7. CASE Tick BY <1>0, <1>7, AnswerFrame DEF Tick, TypeOK, feed, caller, socket
<1>8. CASE UNCHANGED vars
  BY <1>0, <1>8, AnswerFrame DEF vars, TypeOK, feed, caller, socket
<1> QED
  BY AnswerEnsure, AnswerWait, AnswerReader,
     <1>1, <1>2, <1>3, <1>4, <1>5, <1>6, <1>7, <1>8 DEF Next

\* Every waiter is answered at most once, so no send on its channel blocks:
\* neither dispatch, which holds f.mu, nor Ensure, which holds connectMu.
THEOREM AnsweredAtMostOnce == Spec => []AnsweredOnce
<1>1. Spec => [](TypeOK /\ SocketInv)
  BY TypeCorrect, SocketInit, SocketNext, PTL DEF Spec
<1>2. Spec => []AnswerInv
  BY <1>1, AnswerInit, AnswerNext, PTL DEF Spec
<1>3. AnswerInv => AnsweredOnce BY DEF AnswerInv
<1> QED BY <1>2, <1>3, PTL

-----------------------------------------------------------------------------
(* Nothing that was read is left behind                                    *)

\* What trimming leaves are the last events of the buffer.
LEMMA TrimmedEvents ==
  ASSUME NEW s \in Seq(Event), NEW t, NEW k \in DropCounts(s, t)
  PROVE  /\ Trimmed(s, k) \in Seq(Event) /\ k \in Nat
         /\ \A i \in 1..Len(Trimmed(s, k)) :
              i + k \in 1..Len(s) /\ Trimmed(s, k)[i] = s[i + k]
<1>1. k \in 0..Len(s) BY DEF DropCounts
<1>2. Len(s) \in Nat BY LenProperties
<1>3. Len(Trimmed(s, k)) = Len(s) - k
  BY <1>1, <1>2, TrimmedType, SubSeqProperties DEF Trimmed
<1>4. \A i \in 1..(Len(s) - k) : Trimmed(s, k)[i] = s[i + k]
  BY <1>1, <1>2, SubSeqProperties DEF Trimmed
<1> QED BY <1>1, <1>2, <1>3, <1>4, TrimmedType

\* A set of naturals has a least element: the intervals that end in one of them
\* are well founded by inclusion.
LEMMA LeastNumber ==
  ASSUME NEW S \in SUBSET Nat, S # {}
  PROVE  \E m \in S : \A k \in S : m <= k
<1> DEFINE R == StrictSubsetOrdering(Nat)
           T == {0..n : n \in S}
<1>1. IsWellFoundedOn(R, FiniteSubsetsOf(Nat)) BY FS_StrictSubsetOrderingWellFounded
<1>2. T \subseteq FiniteSubsetsOf(Nat)
  <2>1. ASSUME NEW n \in S PROVE 0..n \in FiniteSubsetsOf(Nat)
    BY FS_Interval DEF FiniteSubsetsOf
  <2> QED BY <2>1
<1>3. T # {} OBVIOUS
<1> HIDE DEF R
<1>4. PICK t \in T : \A y \in T : ~(<<y, t>> \in R) BY <1>1, <1>2, <1>3, WFMin
<1>5. PICK m \in S : t = 0..m BY <1>4
<1>6. ASSUME NEW k \in S PROVE m <= k
  <2>1. ~(<<0..k, 0..m>> \in R) BY <1>4, <1>5
  <2>2. k \in Nat /\ m \in Nat OBVIOUS
  <2>3. 0..k \in SUBSET Nat /\ 0..m \in SUBSET Nat BY <2>2
  <2>4. ~(0..k \subseteq 0..m /\ 0..k # 0..m)
    BY <2>1, <2>3 DEF R, StrictSubsetOrdering
  <2>5. CASE k < m
    <3>1. 0..k \subseteq 0..m BY <2>5, <2>2
    <3>2. m \in 0..m /\ m \notin 0..k BY <2>5, <2>2
    <3> QED BY <2>4, <3>1, <3>2
  <2> QED BY <2>2, <2>5
<1> QED BY <1>5, <1>6

\* The fresh events of a buffer have been seen in full at the last of them.
LEMMA LastFresh ==
  ASSUME NEW w \in Waiters, NEW s \in Seq(Event), NEW n \in 1..Len(s),
         s[n].at >= start[w]
  PROVE  \E m \in 1..Len(s) :
           s[m].at >= start[w] /\ SeenUpTo(w, s, m) = SeenUpTo(w, s, Len(s))
<1> DEFINE L == Len(s)
           Back == {d \in Nat : d < L /\ s[L - d].at >= start[w]}
<1>1. L \in Nat BY LenProperties
<1>2. L - n \in Back
  <2>1. n \in 1..L OBVIOUS
  <2> HIDE DEF L
  <2>2. L - n \in Nat /\ L - n < L /\ L - (L - n) = n BY <1>1, <2>1
  <2> QED BY <2>2
<1>3. PICK d \in Back : \A x \in Back : d <= x
  BY <1>2, LeastNumber
<1>4. L - d \in 1..L /\ s[L - d].at >= start[w]
  <2> HIDE DEF L
  <2> QED BY <1>1, <1>3
<1>5. FreshUpTo(w, s, L - d) = FreshUpTo(w, s, L)
  <2>1. ASSUME NEW i \in 1..L, s[i].at >= start[w] PROVE i \in 1..(L - d)
    <3> HIDE DEF L
    <3>1. L - i \in Nat /\ L - i < L /\ L - (L - i) = i BY <1>1
    <3>2. L - i \in Back BY <3>1, <2>1
    <3>3. d \in Nat /\ d <= L - i BY <1>3, <3>2
    <3> QED BY <1>1, <3>1, <3>3
  <2>2. \A i \in 1..(L - d) : i \in 1..L
    <3> HIDE DEF L
    <3> QED BY <1>1, <1>3
  <2> QED BY <2>1, <2>2 DEF FreshUpTo
<1> QED BY <1>4, <1>5 DEF SeenUpTo

\* Nothing is crossed off at the start.
LEMMA ReplayInit == Init => ReplayInv
BY DEF Init, ReplayInv, NothingLeftBehind

\* A step that leaves the replay buffer alone, and the submission time and the
\* matcher of each confirmation that is registered or has not reached Wait.
LEMMA ReplayFrame ==
  ASSUME ReplayInv, recent' = recent, waiters' \subseteq waiters,
         waiters \subseteq Waiters, remaining' = remaining,
         \A w \in waiters : start'[w] = start[w],
         \A w \in Waiters :
           pc[w] \in {"blocked", "done"} => pc'[w] \in {"blocked", "done"}
  PROVE  ReplayInv'
<1>1. NothingLeftBehind' BY DEF ReplayInv, NothingLeftBehind, Settles
<1>2. \A w \in Waiters : pc'[w] \notin {"blocked", "done"} => remaining'[w] = Need[w]
  BY DEF ReplayInv
<1> QED BY <1>1, <1>2 DEF ReplayInv

\* Ensure does not touch the buffer or a matcher.
LEMMA ReplayEnsure ==
  ASSUME TypeOK, ReplayInv, NEW w \in Waiters, EnsureStep(w)
  PROVE  ReplayInv'
<1>1. /\ recent' = recent /\ start' = start /\ remaining' = remaining
      /\ waiters' \subseteq waiters
  BY DEF EnsureStep, EnsureReady, EnsureExpired, EnsureLock, DialOk, DialFail, Swap,
         CloseOld, NotifyReconnect, StartReader, feed, caller
<1>2. \A v \in Waiters : pc[v] \in {"blocked", "done"} => pc'[v] \in {"blocked", "done"}
  BY DEF EnsureStep, EnsureReady, EnsureExpired, EnsureLock, DialOk, DialFail, Swap,
         CloseOld, NotifyReconnect, StartReader, Ensured, EnsureFailed, caller, TypeOK
<1> QED BY <1>1, <1>2, ReplayFrame DEF TypeOK

\* The state of a registered confirmation follows from its not having been hit.
LEMMA RegisteredUnhit ==
  ASSUME NEW w \in Waiters, NEW s \in Seq(Event),
         \A n \in 1..Len(s) : ~Hit(w, s, n),
         NEW i \in 1..Len(s), s[i].at >= start[w]
  PROVE  /\ <<w, s[i].msg>> \notin Rejects
         /\ MsgIds[s[i].msg] \cap (Need[w] \ SeenUpTo(w, s, Len(s))) = {}
         /\ ~Settles(w, s[i].msg, Need[w] \ (Need[w] \ SeenUpTo(w, s, Len(s))))
<1>1. <<w, s[i].msg>> \notin Rejects BY DEF Hit
<1>2. i \in FreshUpTo(w, s, Len(s)) BY DEF FreshUpTo
<1>3. MsgIds[s[i].msg] \subseteq SeenUpTo(w, s, Len(s)) BY <1>2 DEF SeenUpTo
<1>4. CASE w \in CancelWaiters
  <2>1. PICK m \in 1..Len(s) : s[m].at >= start[w] /\ SeenUpTo(w, s, m) = SeenUpTo(w, s, Len(s))
    BY LastFresh
  <2>2. ~(Need[w] \subseteq SeenUpTo(w, s, Len(s))) BY <1>4, <2>1 DEF Hit, Settles
  <2> QED BY <1>1, <1>3, <1>4, <2>2 DEF Settles
<1>5. CASE w \notin CancelWaiters
  <2>1. Need[w] \cap MsgIds[s[i].msg] = {} BY <1>5 DEF Hit, Settles
  <2> QED BY <1>1, <1>3, <1>5, <2>1 DEF Settles
<1> QED BY <1>4, <1>5

\* Wait registers a confirmation only if the buffer does not settle it, in the
\* critical section in which it looks.
LEMMA ReplayWait ==
  ASSUME TypeOK, ReplayInv, AnswerInv, NEW w \in Waiters, WaitStep(w)
  PROVE  ReplayInv'
<1>1. ASSUME NEW k \in DropCounts(recent, now), recent' = Trimmed(recent, k),
             NEW v \in waiters, remaining'[v] = remaining[v], start' = start
      PROVE  \A i \in 1..Len(recent') : recent'[i].at >= start'[v] =>
               /\ <<v, recent'[i].msg>> \notin Rejects
               /\ MsgIds[recent'[i].msg] \cap remaining'[v] = {}
               /\ ~Settles(v, recent'[i].msg, Need[v] \ remaining'[v])
  <2>1. \A i \in 1..Len(recent') : i + k \in 1..Len(recent) /\ recent'[i] = recent[i + k]
    BY <1>1, TrimmedEvents DEF TypeOK
  <2> SUFFICES ASSUME NEW i \in 1..Len(recent'), recent'[i].at >= start'[v]
               PROVE  /\ <<v, recent'[i].msg>> \notin Rejects
                      /\ MsgIds[recent'[i].msg] \cap remaining'[v] = {}
                      /\ ~Settles(v, recent'[i].msg, Need[v] \ remaining'[v])
    OBVIOUS
  <2> DEFINE e == recent[i + k]
  <2>2. i + k \in 1..Len(recent) /\ recent'[i] = e BY <2>1
  <2>3. e.at >= start[v] BY <1>1, <2>2
  <2>4. /\ <<v, e.msg>> \notin Rejects
        /\ MsgIds[e.msg] \cap remaining[v] = {}
        /\ ~Settles(v, e.msg, Need[v] \ remaining[v])
    BY <2>2, <2>3 DEF ReplayInv, NothingLeftBehind
  <2> HIDE DEF e
  <2> QED BY <1>1, <2>2, <2>4 DEF Settles
<1>2. CASE WaitReplay(w)
  <2>1. PICK k \in DropCounts(recent, now) : recent' = Trimmed(recent, k)
    BY <1>2 DEF WaitReplay
  <2>2. /\ start' = start /\ waiters' = waiters /\ pc[w] = "wait"
        /\ pc' = [pc EXCEPT ![w] = "done"]
        /\ \A v \in Waiters \ {w} : remaining'[v] = remaining[v]
    BY <1>2 DEF WaitReplay, TypeOK
  <2>3. \A v \in waiters : v # w BY <2>2 DEF AnswerInv
  <2>4. NothingLeftBehind' BY <1>1, <2>1, <2>2, <2>3 DEF NothingLeftBehind, TypeOK
  <2> QED BY <2>2, <2>4 DEF ReplayInv, TypeOK
<1>3. CASE WaitRegister(w)
  <2>1. PICK k \in DropCounts(recent, now) :
          /\ recent' = Trimmed(recent, k)
          /\ \A n \in 1..Len(recent') : ~Hit(w, recent', n)
          /\ remaining' = [remaining EXCEPT ![w] = @ \ SeenUpTo(w, recent', Len(recent'))]
    BY <1>3 DEF WaitRegister
  <2>2. /\ start' = start /\ waiters' = waiters \cup {w} /\ pc[w] = "wait"
        /\ pc' = [pc EXCEPT ![w] = "blocked"]
        /\ \A v \in Waiters \ {w} : remaining'[v] = remaining[v]
    BY <1>3 DEF WaitRegister, TypeOK
  <2>3. recent' \in Seq(Event) BY <2>1, TrimmedEvents DEF TypeOK
  <2>4. remaining'[w] = Need[w] \ SeenUpTo(w, recent', Len(recent'))
    BY <2>1, <2>2 DEF ReplayInv, TypeOK
  <2>5. \A i \in 1..Len(recent') : recent'[i].at >= start'[w] =>
          /\ <<w, recent'[i].msg>> \notin Rejects
          /\ MsgIds[recent'[i].msg] \cap remaining'[w] = {}
          /\ ~Settles(w, recent'[i].msg, Need[w] \ remaining'[w])
    <3> SUFFICES ASSUME NEW i \in 1..Len(recent'), recent'[i].at >= start[w]
                 PROVE  /\ <<w, recent'[i].msg>> \notin Rejects
                        /\ MsgIds[recent'[i].msg] \cap remaining'[w] = {}
                        /\ ~Settles(w, recent'[i].msg, Need[w] \ remaining'[w])
      BY <2>2
    <3>1. \A n \in 1..Len(recent') : ~Hit(w, recent', n) BY <2>1
    <3> QED BY <3>1, <2>3, <2>4, RegisteredUnhit
  <2>6. \A v \in waiters : v # w BY <2>2 DEF AnswerInv
  <2>7. NothingLeftBehind'
    <3>1. \A v \in waiters : v \in Waiters /\ remaining'[v] = remaining[v]
      BY <2>2, <2>6 DEF TypeOK
    <3>2. \A v \in waiters : \A i \in 1..Len(recent') : recent'[i].at >= start'[v] =>
            /\ <<v, recent'[i].msg>> \notin Rejects
            /\ MsgIds[recent'[i].msg] \cap remaining'[v] = {}
            /\ ~Settles(v, recent'[i].msg, Need[v] \ remaining'[v])
      BY <1>1, <2>1, <2>2, <3>1
    <3> QED BY <2>2, <2>5, <3>2 DEF NothingLeftBehind
  <2> QED BY <2>2, <2>7 DEF ReplayInv, TypeOK
<1>4. CASE WaitReceive(w)
  BY <1>4, ReplayFrame DEF WaitReceive, feed, TypeOK
<1>5. CASE WaitTimeout(w)
  BY <1>5, ReplayFrame DEF WaitTimeout, TypeOK
<1> QED BY <1>2, <1>3, <1>4, <1>5 DEF WaitStep

\* A reader shows what it buffers, in one critical section, to everybody who is
\* registered; whoever stays registered has not been settled by it.
LEMMA ReplayReader ==
  ASSUME TypeOK, ReplayInv, AnswerInv, NEW c \in Clients, ReaderStep(c)
  PROVE  ReplayInv'
<1>1. CASE Dispatch(c)
  <2> DEFINE e == hand[c][1]
             all == Append(recent, e)
  <2>1. e \in Event BY <1>1 DEF Dispatch, TypeOK
  <2>2. /\ waiters' = waiters \ Settled(e) /\ start' = start /\ pc' = pc
        /\ \A w \in Waiters : remaining'[w] =
             IF w \in Shown(e) THEN remaining[w] \ MsgIds[e.msg] ELSE remaining[w]
    BY <1>1 DEF Dispatch, caller
  <2>3. PICK k \in DropCounts(all, e.at) : recent' = Trimmed(all, k)
    BY <1>1 DEF Dispatch
  <2> HIDE DEF e
  <2>4. /\ all \in Seq(Event) /\ Len(all) = Len(recent) + 1 /\ Len(recent) \in Nat
        /\ \A i \in 1..Len(recent) : all[i] = recent[i]
        /\ all[Len(recent) + 1] = e
    BY <2>1, AppendProperties, LenProperties DEF TypeOK
  <2>5. \A i \in 1..Len(recent') : recent'[i] = e \/ \E j \in 1..Len(recent) : recent'[i] = recent[j]
    <3> HIDE DEF all
    <3> SUFFICES ASSUME NEW i \in 1..Len(recent')
                 PROVE  recent'[i] = e \/ \E j \in 1..Len(recent) : recent'[i] = recent[j]
      OBVIOUS
    <3>1. i + k \in 1..Len(all) /\ recent'[i] = all[i + k]
      BY <2>3, <2>4, TrimmedEvents
    <3>2. i + k = Len(recent) + 1 \/ i + k \in 1..Len(recent) BY <3>1, <2>4
    <3> QED BY <3>1, <3>2, <2>4
  <2>6. NothingLeftBehind'
    <3> SUFFICES ASSUME NEW w \in waiters', NEW i \in 1..Len(recent'), recent'[i].at >= start[w]
                 PROVE  /\ <<w, recent'[i].msg>> \notin Rejects
                        /\ MsgIds[recent'[i].msg] \cap remaining'[w] = {}
                        /\ ~Settles(w, recent'[i].msg, Need[w] \ remaining'[w])
      BY <2>2 DEF NothingLeftBehind
    <3>1. w \in waiters /\ w \in Waiters /\ w \notin Settled(e) BY <2>2 DEF TypeOK
    <3>2. \A j \in 1..Len(recent) : recent[j].at >= start[w] =>
            /\ <<w, recent[j].msg>> \notin Rejects
            /\ MsgIds[recent[j].msg] \cap remaining[w] = {}
            /\ ~Settles(w, recent[j].msg, Need[w] \ remaining[w])
      BY <3>1 DEF ReplayInv, NothingLeftBehind
    <3>3. CASE w \in Shown(e)
      <4>1. /\ <<w, e.msg>> \notin Rejects
            /\ ~Settles(w, e.msg, (Need[w] \ remaining[w]) \cup MsgIds[e.msg])
        BY <3>1, <3>3 DEF Settled, SeenWith
      <4>2. remaining'[w] = remaining[w] \ MsgIds[e.msg] BY <2>2, <3>1, <3>3
      <4>3. CASE recent'[i] = e
        BY <4>1, <4>2, <4>3 DEF Settles
      <4>4. CASE \E j \in 1..Len(recent) : recent'[i] = recent[j]
        BY <3>2, <4>1, <4>2, <4>4 DEF Settles
      <4> QED BY <2>5, <4>3, <4>4
    <3>4. CASE w \notin Shown(e)
      <4>1. ~(e.at >= start[w]) BY <3>1, <3>4 DEF Shown
      <4>2. remaining'[w] = remaining[w] BY <2>2, <3>1, <3>4
      <4>3. \E j \in 1..Len(recent) : recent'[i] = recent[j] BY <2>5, <4>1
      <4> QED BY <3>2, <4>2, <4>3 DEF Settles
    <3> QED BY <3>3, <3>4
  <2>7. \A w \in Waiters : pc[w] \notin {"blocked", "done"} => remaining'[w] = remaining[w]
    BY <2>2 DEF Shown, AnswerInv
  <2> QED BY <2>2, <2>6, <2>7 DEF ReplayInv
<1>2. CASE FailStale(c)
  BY <1>2, ReplayFrame DEF FailStale, feed, caller, TypeOK
<1>3. CASE FailCurrent(c)
  BY <1>3, ReplayFrame DEF FailCurrent, caller, TypeOK
<1>4. CASE FailClose(c)
  BY <1>4, ReplayFrame DEF FailClose, feed, caller, TypeOK
<1>5. ASSUME NEW v \in Waiters, FailNotify(c, v) PROVE ReplayInv'
  BY <1>5, ReplayFrame DEF FailNotify, feed, caller, TypeOK
<1>6. CASE FailDone(c)
  BY <1>6, ReplayFrame DEF FailDone, feed, caller, TypeOK
<1> QED BY <1>1, <1>2, <1>3, <1>4, <1>5, <1>6 DEF ReaderStep

\* Every step leaves nothing behind.
LEMMA ReplayNext == TypeOK /\ AnswerInv /\ ReplayInv /\ [Next]_vars => ReplayInv'
<1> SUFFICES ASSUME TypeOK, AnswerInv, ReplayInv, [Next]_vars
             PROVE  ReplayInv'
  OBVIOUS
<1>1. ASSUME NEW w \in Waiters, Prepare(w) PROVE ReplayInv'
  BY <1>1, ReplayFrame DEF Prepare, feed, TypeOK
<1>2. ASSUME NEW w \in Waiters, Submit(w) PROVE ReplayInv'
  <2>1. w \notin waiters BY <1>2 DEF Submit, AnswerInv
  <2> QED BY <1>2, <2>1, ReplayFrame DEF Submit, feed, TypeOK
<1>3. ASSUME NEW c \in Clients, NEW m \in Messages, ReadEvent(c, m)
      PROVE  ReplayInv'
  BY <1>3, ReplayFrame DEF ReadEvent, feed, caller, TypeOK
<1>4. ASSUME NEW c \in Clients, ReadError(c) PROVE ReplayInv'
  BY <1>4, ReplayFrame DEF ReadError, feed, caller, TypeOK
<1>5. ASSUME NEW c \in Clients, AsyncClose(c) PROVE ReplayInv'
  BY <1>5, ReplayFrame DEF AsyncClose, feed, caller, TypeOK
<1>6. ASSUME NEW c \in Clients, ConnectionLost(c) PROVE ReplayInv'
  BY <1>6, ReplayFrame DEF ConnectionLost, feed, caller, TypeOK
<1>7. CASE Tick BY <1>7, ReplayFrame DEF Tick, feed, caller, TypeOK
<1>8. CASE UNCHANGED vars
  BY <1>8, ReplayFrame DEF vars, feed, caller, TypeOK
<1> QED
  BY ReplayEnsure, ReplayWait, ReplayReader,
     <1>1, <1>2, <1>3, <1>4, <1>5, <1>6, <1>7, <1>8 DEF Next

\* Whatever a connection delivers between a submission and Wait, and after it, a
\* confirmation that is still registered has been shown it and is not settled by
\* it: the buffer is searched and the waiter registered under one lock.
THEOREM NothingIsMissed == Spec => []NothingLeftBehind
<1>1. Spec => [](TypeOK /\ SocketInv)
  BY TypeCorrect, SocketInit, SocketNext, PTL DEF Spec
<1>2. Spec => []AnswerInv
  BY <1>1, AnswerInit, AnswerNext, PTL DEF Spec
<1>3. Spec => []ReplayInv
  BY <1>1, <1>2, ReplayInit, ReplayNext, PTL DEF Spec
<1>4. ReplayInv => NothingLeftBehind BY DEF ReplayInv
<1> QED BY <1>3, <1>4, PTL


-----------------------------------------------------------------------------
(* The feed implements Confirmations                                       *)

\* More events account for no less.
LEMMA MoreEvidence ==
  ASSUME NEW w, NEW r, NEW S, NEW T, S \subseteq T
  PROVE  /\ IdsOf(S) \subseteq IdsOf(T)
         /\ Justified(w, r, S) => Justified(w, r, T)
<1>1. IdsOf(S) \subseteq IdsOf(T) BY DEF IdsOf
<1> QED BY <1>1 DEF Justified, Settles

\* What a matcher has been shown is in the log.
LEMMA SeenObserved ==
  ASSUME NEW w \in Waiters, NEW s \in Seq(Event), NEW n \in 1..Len(s),
         \A i \in 1..Len(s) : s[i] \in log
  PROVE  SeenUpTo(w, s, n) \subseteq IdsOf(Observed(w))
<1>1. \A i \in 1..n : i \in 1..Len(s) BY LenProperties
<1> QED BY <1>1 DEF SeenUpTo, FreshUpTo, IdsOf, Observed

\* An error sent to a detached waiter needs no evidence.
LEMMA SendJustified ==
  ASSUME TypeOK, EvidenceInv, NEW v \in Waiters,
         NEW kind \in {"conn", "reconnecting"}, Send(v, Answer(kind, None)),
         UNCHANGED <<log, start>>
  PROVE  \A w \in Waiters : \A k \in 1..Len(ch'[w]) :
           Justified(w, ch'[w][k], Observed(w)')
<1>1. ch'[v] = Append(<<>>, Answer(kind, None)) /\ \A w \in Waiters \ {v} : ch'[w] = ch[w]
  BY DEF Send, TypeOK
<1>2. Len(ch'[v]) = 1 /\ ch'[v][1] = Answer(kind, None) BY <1>1
<1>3. Justified(v, Answer(kind, None), Observed(v)') BY DEF Justified, Answer
<1>4. \A w \in Waiters : Observed(w)' = Observed(w) BY DEF Observed
<1> QED BY <1>1, <1>2, <1>3, <1>4 DEF EvidenceInv

\* A step that adds nothing to the log, the buffer, a matcher or a channel.
LEMMA EvidenceFrame ==
  ASSUME TypeOK, EvidenceInv, UNCHANGED <<recent, log, remaining, ch, start, round>>,
         \A w \in Waiters :
           \/ pc'[w] = pc[w]
           \/ pc'[w] \notin {"idle", "submit", "wait", "blocked"}
           \/ (pc'[w] = "submit" /\ round[w] = 1)
           \/ (pc'[w] = "wait" /\ round[w] = 2)
  PROVE  EvidenceInv'
<1>1. \A w \in Waiters : Observed(w)' = Observed(w) BY DEF Observed
<1> QED BY <1>1 DEF EvidenceInv

\* There is nothing to account for at the start.
LEMMA EvidenceInit == Init => EvidenceInv
BY FeedAssumption DEF Init, EvidenceInv

\* Ensure answers only with errors.
LEMMA EvidenceEnsure ==
  ASSUME TypeOK, EvidenceInv, NEW w \in Waiters, EnsureStep(w)
  PROVE  EvidenceInv'
<1>1. CASE EnsureReady(w)
  BY <1>1, EvidenceFrame DEF EnsureReady, Ensured, TypeOK, feed
<1>2. CASE EnsureExpired(w)
  BY <1>2, EvidenceFrame DEF EnsureExpired, EnsureFailed, TypeOK, feed
<1>3. CASE EnsureLock(w)
  BY <1>3, EvidenceFrame DEF EnsureLock, TypeOK, feed
<1>4. ASSUME NEW c \in Clients, DialOk(w, c) PROVE EvidenceInv'
  BY <1>4, EvidenceFrame DEF DialOk, TypeOK, feed
<1>5. CASE DialFail(w)
  BY <1>5, EvidenceFrame DEF DialFail, EnsureFailed, TypeOK, feed
<1>6. CASE Swap(w)
  BY <1>6, EvidenceFrame DEF Swap, TypeOK
<1>7. CASE CloseOld(w)
  BY <1>7, EvidenceFrame DEF CloseOld, TypeOK, feed
<1>8. ASSUME NEW v \in Waiters, NotifyReconnect(w, v) PROVE EvidenceInv'
  <2>1. UNCHANGED <<recent, log, remaining, start, round, pc>>
    BY <1>8 DEF NotifyReconnect, feed, caller
  <2>2. \A u \in Waiters : \A k \in 1..Len(ch'[u]) : Justified(u, ch'[u][k], Observed(u)')
    BY <1>8, <2>1, SendJustified DEF NotifyReconnect
  <2>3. \A u \in Waiters : Observed(u)' = Observed(u) BY <2>1 DEF Observed
  <2> QED BY <2>1, <2>2, <2>3 DEF EvidenceInv
<1>9. CASE StartReader(w)
  BY <1>9, EvidenceFrame DEF StartReader, Ensured, TypeOK, feed
<1> QED
  BY <1>1, <1>2, <1>3, <1>4, <1>5, <1>6, <1>7, <1>8, <1>9 DEF EnsureStep

\* Trimming takes nothing into the buffer.
LEMMA TrimmedFromLog ==
  ASSUME TypeOK, EvidenceInv, NEW k \in DropCounts(recent, now)
  PROVE  /\ Trimmed(recent, k) \in Seq(Event)
         /\ \A i \in 1..Len(Trimmed(recent, k)) : Trimmed(recent, k)[i] \in log
<1>1. recent \in Seq(Event) BY DEF TypeOK
<1> QED BY <1>1, TrimmedEvents DEF EvidenceInv

\* Wait crosses off what it finds in the buffer.
LEMMA EvidenceWait ==
  ASSUME TypeOK, AnswerInv, EvidenceInv, NEW w \in Waiters, WaitStep(w)
  PROVE  EvidenceInv'
<1>1. ASSUME NEW k \in DropCounts(recent, now), recent' = Trimmed(recent, k),
             NEW n \in 1..Len(recent'),
             remaining' = [remaining EXCEPT ![w] = @ \ SeenUpTo(w, recent', n)]
      PROVE  /\ \A i \in 1..Len(recent') : recent'[i] \in log
             /\ \A v \in Waiters : Need[v] \ remaining'[v] \subseteq IdsOf(Observed(v))
  <2>1. recent' \in Seq(Event) /\ \A i \in 1..Len(recent') : recent'[i] \in log
    BY <1>1, TrimmedFromLog
  <2>2. SeenUpTo(w, recent', n) \subseteq IdsOf(Observed(w)) BY <2>1, SeenObserved
  <2> QED BY <1>1, <2>1, <2>2 DEF EvidenceInv, TypeOK
<1>2. CASE WaitReplay(w)
  <2>1. PICK k \in DropCounts(recent, now) :
          /\ recent' = Trimmed(recent, k)
          /\ \E n \in 1..Len(recent') :
               remaining' = [remaining EXCEPT ![w] = @ \ SeenUpTo(w, recent', n)]
    BY <1>2 DEF WaitReplay
  <2>2. /\ \A i \in 1..Len(recent') : recent'[i] \in log
        /\ \A v \in Waiters : Need[v] \ remaining'[v] \subseteq IdsOf(Observed(v))
    BY <1>1, <2>1
  <2>3. UNCHANGED <<log, start, round, ch>> /\ pc' = [pc EXCEPT ![w] = "done"]
    BY <1>2 DEF WaitReplay
  <2>4. \A v \in Waiters : Observed(v)' = Observed(v) BY <2>3 DEF Observed
  <2> QED BY <2>2, <2>3, <2>4 DEF EvidenceInv, TypeOK
<1>3. CASE WaitRegister(w)
  <2>1. PICK k \in DropCounts(recent, now) :
          /\ recent' = Trimmed(recent, k)
          /\ remaining' = [remaining EXCEPT ![w] = @ \ SeenUpTo(w, recent', Len(recent'))]
    BY <1>3 DEF WaitRegister
  <2>2. /\ \A i \in 1..Len(recent') : recent'[i] \in log
        /\ \A v \in Waiters : Need[v] \ remaining'[v] \subseteq IdsOf(Observed(v))
    <3>0. recent' \in Seq(Event) BY <2>1, TrimmedFromLog
    <3>1. CASE recent' = <<>>
      <4>1. SeenUpTo(w, recent', Len(recent')) = {} BY <3>1 DEF SeenUpTo, FreshUpTo
      <4>2. remaining' = remaining BY <2>1, <4>1 DEF TypeOK
      <4> QED BY <3>1, <4>2 DEF EvidenceInv
    <3>2. CASE recent' # <<>>
      <4>1. Len(recent') \in 1..Len(recent') BY <3>0, <3>2, EmptySeq, LenProperties
      <4> QED BY <1>1, <2>1, <4>1
    <3> QED BY <3>1, <3>2
  <2>3. UNCHANGED <<log, start, round, ch>> /\ pc[w] = "wait"
        /\ pc' = [pc EXCEPT ![w] = "blocked"]
    BY <1>3 DEF WaitRegister
  <2>4. \A v \in Waiters : Observed(v)' = Observed(v) BY <2>3 DEF Observed
  <2> QED BY <2>2, <2>3, <2>4 DEF EvidenceInv, TypeOK
<1>4. CASE WaitReceive(w)
  <2>1. /\ UNCHANGED <<recent, log, start, round, remaining>>
        /\ pc' = [pc EXCEPT ![w] = "done"] /\ ch' = [ch EXCEPT ![w] = Tail(@)]
    BY <1>4 DEF WaitReceive, feed
  <2>2. ch[w] \in Seq(Result) /\ ch[w] # <<>> /\ Len(ch[w]) <= 1
    BY <1>4 DEF WaitReceive, AnswerInv, AnsweredOnce, TypeOK
  <2>3. Len(Tail(ch[w])) = 0
    <3>1. Len(ch[w]) \in Nat \ {0} BY <2>2, EmptySeq
    <3>2. Len(ch[w]) = 1 BY <2>2, <3>1, LenOne
    <3> QED BY <2>2, <3>2, HeadTailProperties
  <2>4. \A v \in Waiters : Observed(v)' = Observed(v) BY <2>1 DEF Observed
  <2>5. \A v \in Waiters : Len(ch'[v]) = 0 \/ ch'[v] = ch[v]
    BY <2>1, <2>3 DEF TypeOK
  <2>6. \A v \in Waiters : \A k \in 1..Len(ch'[v]) : Justified(v, ch'[v][k], Observed(v))
    <3> SUFFICES ASSUME NEW v \in Waiters, NEW k \in 1..Len(ch'[v])
                 PROVE  Justified(v, ch'[v][k], Observed(v))
      OBVIOUS
    <3>1. CASE Len(ch'[v]) = 0 BY <3>1
    <3>2. CASE ch'[v] = ch[v] BY <3>2 DEF EvidenceInv
    <3> QED BY <2>5, <3>1, <3>2
  <2> QED BY <2>1, <2>4, <2>6 DEF EvidenceInv, TypeOK
<1>5. CASE WaitTimeout(w)
  BY <1>5, EvidenceFrame DEF WaitTimeout, TypeOK
<1> QED BY <1>2, <1>3, <1>4, <1>5 DEF WaitStep

\* What a reader answers a waiter with, and crosses off, it has just logged.
LEMMA EvidenceDispatch ==
  ASSUME TypeOK, EvidenceInv, NEW c \in Clients, Dispatch(c)
  PROVE  EvidenceInv'
<1> DEFINE e == hand[c][1]
           all == Append(recent, e)
<1>1. e \in Event BY DEF Dispatch, TypeOK
<1>2. /\ log' = log \cup {e} /\ UNCHANGED <<start, pc, round>>
      /\ \A w \in Waiters : remaining'[w] =
           IF w \in Shown(e) THEN remaining[w] \ MsgIds[e.msg] ELSE remaining[w]
      /\ \A w \in Waiters : ch'[w] =
           IF w \in Settled(e) THEN Append(ch[w], AnswerFor(w, e.msg)) ELSE ch[w]
      /\ \A w \in Settled(e) : ch[w] = <<>>
  BY DEF Dispatch, caller
<1>3. PICK k \in DropCounts(all, e.at) : recent' = Trimmed(all, k)
  BY DEF Dispatch
<1> HIDE DEF e
<1>4. /\ all \in Seq(Event) /\ Len(all) = Len(recent) + 1 /\ Len(recent) \in Nat
      /\ \A i \in 1..Len(recent) : all[i] = recent[i]
      /\ all[Len(recent) + 1] = e
  BY <1>1, AppendProperties, LenProperties DEF TypeOK
<1>5. \A i \in 1..Len(recent') : recent'[i] \in log'
  <2> HIDE DEF all
  <2> SUFFICES ASSUME NEW i \in 1..Len(recent') PROVE recent'[i] \in log'
    OBVIOUS
  <2>1. i + k \in 1..Len(all) /\ recent'[i] = all[i + k] BY <1>3, <1>4, TrimmedEvents
  <2>2. i + k = Len(recent) + 1 \/ i + k \in 1..Len(recent) BY <2>1, <1>4
  <2> QED BY <1>2, <1>4, <2>1, <2>2 DEF EvidenceInv
<1>6. ASSUME NEW w \in Waiters
      PROVE  /\ Observed(w) \subseteq Observed(w)'
             /\ IdsOf(Observed(w)) \subseteq IdsOf(Observed(w)')
             /\ w \in Shown(e) => e \in Observed(w)' /\ MsgIds[e.msg] \subseteq IdsOf(Observed(w)')
  <2>1. Observed(w) \subseteq Observed(w)' BY <1>2 DEF Observed
  <2>2. w \in Shown(e) => e \in Observed(w)' BY <1>2 DEF Observed, Shown
  <2>3. e \in Observed(w)' => MsgIds[e.msg] \subseteq IdsOf(Observed(w)') BY DEF IdsOf
  <2> QED BY <2>1, <2>2, <2>3, MoreEvidence
<1>7. \A w \in Waiters : Need[w] \ remaining'[w] \subseteq IdsOf(Observed(w)')
  BY <1>2, <1>6 DEF EvidenceInv
<1>8. ASSUME NEW w \in Waiters, NEW j \in 1..Len(ch'[w])
      PROVE  Justified(w, ch'[w][j], Observed(w)')
  <2>1. CASE w \in Settled(e)
    <3>1. ch'[w] = Append(<<>>, AnswerFor(w, e.msg)) BY <1>2, <2>1
    <3>2. j = 1 /\ ch'[w][1] = AnswerFor(w, e.msg) BY <3>1
    <3>3. w \in Shown(e) BY <2>1 DEF Settled
    <3>4. e \in Observed(w)' BY <1>6, <3>3
    <3>5. SeenWith(w, e) \subseteq IdsOf(Observed(w)')
      BY <1>6, <3>3 DEF SeenWith, EvidenceInv
    <3>6. <<w, e.msg>> \in Rejects \/ Settles(w, e.msg, IdsOf(Observed(w)'))
      BY <2>1, <3>5 DEF Settled, Settles
    <3> QED BY <3>2, <3>4, <3>6 DEF Justified, AnswerFor, Answer
  <2>2. CASE w \notin Settled(e)
    <3>1. ch'[w] = ch[w] BY <1>2, <2>2
    <3>2. Justified(w, ch[w][j], Observed(w)) BY <3>1 DEF EvidenceInv
    <3> QED BY <3>1, <3>2, <1>6, MoreEvidence
  <2> QED BY <2>1, <2>2
<1> QED BY <1>2, <1>5, <1>7, <1>8 DEF EvidenceInv

\* Every step accounts for what it answers.
LEMMA EvidenceNext ==
  TypeOK /\ AnswerInv /\ ReplayInv /\ EvidenceInv /\ [Next]_vars => EvidenceInv'
<1> SUFFICES ASSUME TypeOK, AnswerInv, ReplayInv, EvidenceInv, [Next]_vars
             PROVE  EvidenceInv'
  OBVIOUS
<1>1. ASSUME NEW w \in Waiters, Prepare(w) PROVE EvidenceInv'
  BY <1>1, EvidenceFrame DEF Prepare, feed, TypeOK
<1>2. ASSUME NEW w \in Waiters, Submit(w) PROVE EvidenceInv'
  <2>1. /\ UNCHANGED <<recent, log, remaining, ch>> /\ pc[w] = "submit"
        /\ pc' = [pc EXCEPT ![w] = "ensure"] /\ round' = [round EXCEPT ![w] = 2]
        /\ \A v \in Waiters \ {w} : start'[v] = start[v]
    BY <1>2 DEF Submit, feed, TypeOK
  <2>2. remaining[w] = Need[w] /\ ch[w] = <<>> BY <2>1 DEF ReplayInv, AnswerInv
  <2>3. \A v \in Waiters \ {w} : Observed(v)' = Observed(v) BY <2>1 DEF Observed
  <2> QED BY <2>1, <2>2, <2>3 DEF EvidenceInv, TypeOK
<1>3. ASSUME NEW c \in Clients, NEW m \in Messages, ReadEvent(c, m)
      PROVE  EvidenceInv'
  BY <1>3, EvidenceFrame DEF ReadEvent, feed, caller, TypeOK
<1>4. ASSUME NEW c \in Clients, ReadError(c) PROVE EvidenceInv'
  BY <1>4, EvidenceFrame DEF ReadError, feed, caller, TypeOK
<1>5. ASSUME NEW c \in Clients, AsyncClose(c) PROVE EvidenceInv'
  BY <1>5, EvidenceFrame DEF AsyncClose, feed, caller, TypeOK
<1>6. ASSUME NEW c \in Clients, ConnectionLost(c) PROVE EvidenceInv'
  BY <1>6, EvidenceFrame DEF ConnectionLost, feed, caller, TypeOK
<1>7. CASE Tick BY <1>7, EvidenceFrame DEF Tick, feed, caller, TypeOK
<1>8. CASE UNCHANGED vars
  BY <1>8, EvidenceFrame DEF vars, feed, caller, TypeOK
<1>9. ASSUME NEW c \in Clients, ReaderStep(c) PROVE EvidenceInv'
  <2>1. CASE FailStale(c)
    BY <2>1, EvidenceFrame DEF FailStale, feed, caller, TypeOK
  <2>2. CASE FailCurrent(c)
    BY <2>2, EvidenceFrame DEF FailCurrent, caller, TypeOK
  <2>3. CASE FailClose(c)
    BY <2>3, EvidenceFrame DEF FailClose, feed, caller, TypeOK
  <2>4. ASSUME NEW v \in Waiters, FailNotify(c, v) PROVE EvidenceInv'
    <3>1. UNCHANGED <<recent, log, remaining, start, round, pc>>
      BY <2>4 DEF FailNotify, feed, caller
    <3>2. \A u \in Waiters : \A k \in 1..Len(ch'[u]) : Justified(u, ch'[u][k], Observed(u)')
      BY <2>4, <3>1, SendJustified DEF FailNotify
    <3>3. \A u \in Waiters : Observed(u)' = Observed(u) BY <3>1 DEF Observed
    <3> QED BY <3>1, <3>2, <3>3 DEF EvidenceInv
  <2>5. CASE FailDone(c)
    BY <2>5, EvidenceFrame DEF FailDone, feed, caller, TypeOK
  <2> QED BY <1>9, EvidenceDispatch, <2>1, <2>2, <2>3, <2>4, <2>5 DEF ReaderStep
<1> QED
  BY EvidenceEnsure, EvidenceWait,
     <1>1, <1>2, <1>3, <1>4, <1>5, <1>6, <1>7, <1>8, <1>9 DEF Next

\* A step that neither submits nor answers leaves Confirmations as it was.
LEMMA StageSame ==
  ASSUME TypeOK, UNCHANGED <<start, outcome, log, round>>,
         \A w \in Waiters : pc'[w] = "done" <=> pc[w] = "done"
  PROVE  UNCHANGED Promise!vars
<1>1. Stage' = Stage BY DEF Stage
<1> QED BY <1>1 DEF Promise!vars

\* The step that answers w concludes it.
LEMMA StageAnswered ==
  ASSUME TypeOK, NEW w \in Waiters, NEW kind, NEW m,
         UNCHANGED <<start, log, round>>, pc' = [pc EXCEPT ![w] = "done"],
         outcome' = [outcome EXCEPT ![w] = Answer(kind, m)]
  PROVE  Promise!Conclude(w, kind, m)
<1>1. Stage' = [Stage EXCEPT ![w] = "answered"] BY DEF Stage, TypeOK
<1> QED BY <1>1 DEF Promise!Conclude, Answer

\* An answer the log accounts for is one that Confirmations gives.
LEMMA AnswerAllowed ==
  ASSUME NEW w \in Waiters, NEW r \in Result, Stage[w] = "submitted",
         Justified(w, r, Observed(w)), Promise!Conclude(w, r.kind, r.msg)
  PROVE  Promise!Next
<1>1. Promise!Evidence(w) = Observed(w) BY DEF Promise!Evidence, Observed
<1>2. CASE r.kind \in {"conn", "reconnecting"} /\ r.msg = None
  BY <1>2 DEF Promise!Next, Promise!Fail, Promise!Errors
<1>3. CASE r.kind = "match" /\ \E e \in Observed(w) : r.msg = e.msg /\ <<w, e.msg>> \in Rejects
  <2>1. Promise!Refuse(w) BY <1>1, <1>3 DEF Promise!Refuse
  <2> QED BY <2>1 DEF Promise!Next
<1>4. CASE r.kind = "ok" /\ \E e \in Observed(w) :
             r.msg = e.msg /\ Settles(w, e.msg, IdsOf(Observed(w)))
  <2>1. \A e \in Observed(w) : Settles(w, e.msg, IdsOf(Observed(w))) => Promise!Covers(w, e)
    BY <1>1 DEF Settles, IdsOf, Promise!Covers
  <2>2. Promise!Confirm(w) BY <1>1, <1>4, <2>1 DEF Promise!Confirm
  <2> QED BY <2>2 DEF Promise!Next
<1> QED BY <1>2, <1>3, <1>4 DEF Justified

\* A feed that has not started has promised nothing yet.
LEMMA PromiseInit == Init => Promise!Init
BY DEF Init, Promise!Init, Promise!NoAnswer, Stage, Answer

\* Ensure gives up on a confirmation, before its submission or after it.
LEMMA PromiseEnsureFailed ==
  ASSUME TypeOK, NEW w \in Waiters, pc[w] \in {"ensure", "dial"},
         EnsureFailed(w), UNCHANGED <<start, log, round>>
  PROVE  Promise!Next
<1>1. Promise!Conclude(w, "ensure", None) BY StageAnswered DEF EnsureFailed
<1>2. Stage[w] \in {"idle", "submitted"} BY DEF Stage
<1>3. Promise!Abandon(w) \/ Promise!Fail(w)
  BY <1>1, <1>2 DEF Promise!Abandon, Promise!Fail, Promise!Errors
<1> QED BY <1>3 DEF Promise!Next

\* Ensure answers a confirmation only when it fails.
LEMMA PromiseEnsure ==
  ASSUME TypeOK, NEW w \in Waiters, EnsureStep(w)
  PROVE  Promise!Next \/ UNCHANGED Promise!vars
<1>1. CASE EnsureReady(w)
  BY <1>1, StageSame DEF EnsureReady, Ensured, TypeOK
<1>2. CASE EnsureExpired(w)
  BY <1>2, PromiseEnsureFailed DEF EnsureExpired
<1>3. CASE EnsureLock(w)
  BY <1>3, StageSame DEF EnsureLock, TypeOK
<1>4. ASSUME NEW c \in Clients, DialOk(w, c) PROVE UNCHANGED Promise!vars
  BY <1>4, StageSame DEF DialOk, TypeOK
<1>5. CASE DialFail(w)
  BY <1>5, PromiseEnsureFailed DEF DialFail
<1>6. CASE Swap(w)
  BY <1>6, StageSame DEF Swap, TypeOK
<1>7. CASE CloseOld(w)
  BY <1>7, StageSame DEF CloseOld, TypeOK
<1>8. ASSUME NEW v \in Waiters, NotifyReconnect(w, v) PROVE UNCHANGED Promise!vars
  BY <1>8, StageSame DEF NotifyReconnect, caller, TypeOK
<1>9. CASE StartReader(w)
  BY <1>9, StageSame DEF StartReader, Ensured, TypeOK
<1> QED
  BY <1>1, <1>2, <1>3, <1>4, <1>5, <1>6, <1>7, <1>8, <1>9 DEF EnsureStep

\* Wait answers by what the log holds, by an error of the reader, or by a timeout.
LEMMA PromiseWait ==
  ASSUME TypeOK, AnswerInv, EvidenceInv, NEW w \in Waiters, WaitStep(w)
  PROVE  Promise!Next \/ UNCHANGED Promise!vars
<1>1. CASE WaitReplay(w)
  <2>1. PICK k \in DropCounts(recent, now) :
          \E n \in 1..Len(Trimmed(recent, k)) :
            /\ Hit(w, Trimmed(recent, k), n)
            /\ outcome' = [outcome EXCEPT ![w] = AnswerFor(w, Trimmed(recent, k)[n].msg)]
    BY <1>1 DEF WaitReplay
  <2> DEFINE s == Trimmed(recent, k)
  <2>2. s \in Seq(Event) /\ \A i \in 1..Len(s) : s[i] \in log BY TrimmedFromLog
  <2> HIDE DEF s
  <2>3. PICK n \in 1..Len(s) :
          Hit(w, s, n) /\ outcome' = [outcome EXCEPT ![w] = AnswerFor(w, s[n].msg)]
    BY <2>1 DEF s
  <2> DEFINE r == AnswerFor(w, s[n].msg)
  <2>4. s[n] \in Event /\ s[n] \in Observed(w) BY <2>2, <2>3 DEF Hit, Observed
  <2>5. SeenUpTo(w, s, n) \subseteq IdsOf(Observed(w)) BY <2>2, SeenObserved
  <2>6. <<w, s[n].msg>> \in Rejects \/ Settles(w, s[n].msg, IdsOf(Observed(w)))
    BY <2>3, <2>5 DEF Hit, Settles
  <2>7. Justified(w, r, Observed(w))
    BY <2>4, <2>6 DEF Justified, AnswerFor, Answer
  <2>8. r \in Result /\ r = Answer(r.kind, r.msg)
    BY <2>4 DEF AnswerFor, Answer, Result, Kinds, Event
  <2>9. pc[w] = "wait" /\ UNCHANGED <<start, log, round>> /\ pc' = [pc EXCEPT ![w] = "done"]
    BY <1>1 DEF WaitReplay
  <2> HIDE DEF r
  <2>10. Promise!Conclude(w, r.kind, r.msg) BY <2>3, <2>8, <2>9, StageAnswered DEF r
  <2>11. Stage[w] = "submitted" BY <2>9 DEF Stage, EvidenceInv
  <2> QED BY <2>7, <2>8, <2>10, <2>11, AnswerAllowed
<1>2. CASE WaitRegister(w)
  BY <1>2, StageSame DEF WaitRegister, TypeOK
<1>3. CASE WaitReceive(w)
  <2> DEFINE r == Head(ch[w])
  <2>1. ch[w] \in Seq(Result) /\ ch[w] # <<>> BY <1>3 DEF WaitReceive, TypeOK
  <2>2. r \in Result /\ 1 \in 1..Len(ch[w]) /\ r = ch[w][1]
    BY <2>1, HeadTailProperties, EmptySeq, LenProperties
  <2>3. Justified(w, r, Observed(w)) BY <2>2 DEF EvidenceInv
  <2>4. /\ pc[w] = "blocked" /\ UNCHANGED <<start, log, round>>
        /\ pc' = [pc EXCEPT ![w] = "done"] /\ outcome' = [outcome EXCEPT ![w] = r]
    BY <1>3 DEF WaitReceive
  <2> HIDE DEF r
  <2>5. r = Answer(r.kind, r.msg) BY <2>2 DEF Answer, Result
  <2>6. Promise!Conclude(w, r.kind, r.msg) BY <2>4, <2>5, StageAnswered
  <2>7. Stage[w] = "submitted" BY <2>4 DEF Stage, EvidenceInv
  <2> QED BY <2>2, <2>3, <2>6, <2>7, AnswerAllowed
<1>4. CASE WaitTimeout(w)
  <2>1. Promise!Conclude(w, "timeout", None)
    BY <1>4, StageAnswered DEF WaitTimeout
  <2>2. Stage[w] = "submitted" BY <1>4 DEF WaitTimeout, Stage, EvidenceInv
  <2>3. Promise!Fail(w) BY <2>1, <2>2 DEF Promise!Fail, Promise!Errors
  <2> QED BY <2>3 DEF Promise!Next
<1> QED BY <1>1, <1>2, <1>3, <1>4 DEF WaitStep

\* A reader observes an event, and answers nobody but through a channel.
LEMMA PromiseReader ==
  ASSUME TypeOK, NEW c \in Clients, ReaderStep(c)
  PROVE  Promise!Next \/ UNCHANGED Promise!vars
<1>1. CASE Dispatch(c)
  <2>1. hand[c][1] \in Event BY <1>1 DEF Dispatch, TypeOK
  <2>2. log' = log \cup {hand[c][1]} /\ UNCHANGED <<pc, round, start, outcome>>
    BY <1>1 DEF Dispatch, caller
  <2>3. Stage' = Stage BY <2>2 DEF Stage
  <2>4. Promise!Observe BY <2>1, <2>2, <2>3 DEF Promise!Observe, Promise!Event, Event
  <2> QED BY <2>4 DEF Promise!Next
<1>2. CASE ~Dispatch(c)
  <2>1. UNCHANGED <<caller, outcome, log>>
    BY <1>2 DEF ReaderStep, FailStale, FailCurrent, FailClose, FailNotify, FailDone
  <2> QED BY <2>1, StageSame DEF caller
<1> QED BY <1>1, <1>2

\* Every step of the feed is a step of Confirmations, or none.
LEMMA PromiseNext ==
  TypeOK /\ AnswerInv /\ EvidenceInv /\ [Next]_vars => [Promise!Next]_(Promise!vars)
<1> SUFFICES ASSUME TypeOK, AnswerInv, EvidenceInv, [Next]_vars
             PROVE  Promise!Next \/ UNCHANGED Promise!vars
  OBVIOUS
<1>1. ASSUME NEW w \in Waiters, Prepare(w) PROVE UNCHANGED Promise!vars
  BY <1>1, StageSame DEF Prepare, TypeOK
<1>2. ASSUME NEW w \in Waiters, Submit(w) PROVE Promise!Next
  <2>1. Stage[w] = "idle" BY <1>2 DEF Submit, Stage, EvidenceInv
  <2>2. Stage' = [Stage EXCEPT ![w] = "submitted"]
    <3>1. pc'[w] # "done" /\ round'[w] # 1 BY <1>2 DEF Submit, TypeOK
    <3>2. \A v \in Waiters \ {w} : pc'[v] = pc[v] /\ round'[v] = round[v]
      BY <1>2 DEF Submit, TypeOK
    <3> QED BY <3>1, <3>2 DEF Stage
  <2>3. start'[w] \in Nat /\ start' = [start EXCEPT ![w] = start'[w]]
    BY <1>2 DEF Submit, TypeOK
  <2>4. Promise!Submit(w)
    BY <1>2, <2>1, <2>2, <2>3 DEF Submit, Promise!Submit
  <2> QED BY <2>4 DEF Promise!Next
<1>3. ASSUME NEW c \in Clients,
             \/ \E m \in Messages : ReadEvent(c, m)
             \/ ReadError(c) \/ AsyncClose(c) \/ ConnectionLost(c)
      PROVE  UNCHANGED Promise!vars
  <2>1. UNCHANGED <<caller, outcome, log>>
    BY <1>3 DEF ReadEvent, ReadError, AsyncClose, ConnectionLost
  <2> QED BY <2>1, StageSame DEF caller
<1>4. CASE Tick \/ UNCHANGED vars
  <2>1. UNCHANGED <<caller, outcome, log>> BY <1>4 DEF Tick, vars
  <2> QED BY <2>1, StageSame DEF caller
<1> QED BY PromiseEnsure, PromiseWait, PromiseReader, <1>1, <1>2, <1>3, <1>4 DEF Next

\* A confirmation is answered once; it succeeds, or is rejected, only on events
\* that the feed dispatched and that were read at or after its own submission,
\* whether it found them in the buffer, was shown them while it waited, or both.
THEOREM FeedImplementsConfirmations == Spec => ImplementsConfirmations
<1>1. Spec => [](TypeOK /\ SocketInv)
  BY TypeCorrect, SocketInit, SocketNext, PTL DEF Spec
<1>2. Spec => []AnswerInv
  BY <1>1, AnswerInit, AnswerNext, PTL DEF Spec
<1>3. Spec => []ReplayInv
  BY <1>1, <1>2, ReplayInit, ReplayNext, PTL DEF Spec
<1>4. Spec => []EvidenceInv
  BY <1>1, <1>2, <1>3, EvidenceInit, EvidenceNext, PTL DEF Spec
<1>5. Spec => Promise!Spec
  BY <1>1, <1>2, <1>4, PromiseInit, PromiseNext, PTL DEF Spec, Promise!Spec
<1> QED BY <1>5 DEF ImplementsConfirmations
=============================================================================
