----------------------------- MODULE AccountFeed -----------------------------
(***************************************************************************)
(* The shared account feed of internal/accountfeed/feed.go: one websocket  *)
(* per account, one reader goroutine per connection, and many concurrent   *)
(* confirmations that block in Wait until a pushed account event settles   *)
(* them, the connection is lost, or their context expires.                 *)
(*                                                                         *)
(* A confirmation w is one bench.Confirmation built by                     *)
(* NewPersistentConfirmation: Ensure at preparation, the submission, then  *)
(* Ensure again and Wait.  f.mu is held for exactly one action here, so    *)
(* every action that touches client, waiters, recent, authUntil, dialKey   *)
(* or lastRead is atomic; everything the code does after unlocking f.mu    *)
(* (closing sockets, sending on waiter channels, starting the reader) is   *)
(* an action of its own.  connectMu is a real lock: its holder may be      *)
(* anywhere between dialling and handing the connection to its reader.     *)
(*                                                                         *)
(* Closing a connection makes its pending read fail.  That Close sets      *)
(* Client.conn to nil without a lock is left out.                          *)
(***************************************************************************)
EXTENDS Integers, Sequences

CONSTANTS
  Waiters,      \* confirmations, each a call of Wait
  Clients,      \* supply of websocket connections that Dial can return
  Orders,       \* client order ids
  Messages,     \* account events a venue can push
  MsgIds,       \* [Messages -> SUBSET Orders]: the orders an event settles
  Need,         \* [Waiters -> SUBSET Orders]: the ids a confirmation looks for
  CancelWaiters,\* confirmations of a cancel: every id is needed, not any
  Rejects,      \* pairs <<w, m>> for which match returns an error
  DialKeyOf,    \* [Waiters -> DialKeys]
  NoKey,        \* the empty DialKey
  AuthLife,     \* lifetime of a freshly built auth token; 0: no expiry
  AuthSkew,     \* feedAuthSkew
  RecentLimit,  \* feedRecentLimit
  RecentAge,    \* feedRecentAge
  StaleAfter,   \* feedStaleAfter
  None,         \* nil
  MaxTime,      \* bound on the clock
  MaxReads      \* bound on the events read from all connections together

ASSUME FeedAssumption ==
  /\ AuthLife \in Nat /\ AuthSkew \in Nat
  /\ RecentLimit \in Nat \ {0} /\ RecentAge \in Nat /\ StaleAfter \in Nat
  /\ MaxTime \in Nat \ {0} /\ MaxReads \in Nat
  /\ MsgIds \in [Messages -> SUBSET Orders]
  /\ Need \in [Waiters -> SUBSET Orders]
  /\ CancelWaiters \subseteq Waiters
  /\ Rejects \subseteq Waiters \X Messages
  /\ None \notin Waiters \cup Clients \cup Messages
  /\ Waiters \cap Clients = {}

VARIABLES
  client, authUntil, dialKey, lastRead, waiters, recent,  \* Feed, under f.mu
  connectMu,  \* the confirmation inside Ensure's slow path, or None
  fresh,      \* the connection it has dialled
  old,        \* the connection it has replaced and must still close
  notify,     \* detached waiters a goroutine must still send an error to
  pc,         \* where each confirmation is
  round,      \* its first (preparation) or second (Wait) call of Ensure
  opts,       \* FeedOptions.AuthUntil of its plan; 0: zero time
  start,      \* the write-complete time of its submission
  remaining,  \* ids its cancel matcher has not seen yet
  ch,         \* feedWaiter.ch
  outcome,    \* what Wait returned
  conn,       \* state of each connection's socket
  rd,         \* state of each connection's readLoop
  hand,       \* the event readLoop has read and not yet dispatched
  closing,    \* connections with a pending asynchronous Close
  now, reads, \* clock, and count of reads (bounds)
  log         \* history: every event ever dispatched

feed == <<client, authUntil, dialKey, lastRead, waiters, recent>>
ensure == <<connectMu, fresh, old>>
caller == <<pc, round, opts, start>>
socket == <<conn, rd, hand, closing>>
vars == <<feed, ensure, notify, caller, remaining, ch, outcome, socket,
          now, reads, log>>

Event == [msg : Messages, at : Nat]
Kinds == {"none", "ok", "match", "conn", "reconnecting", "timeout", "ensure"}
Result == [kind : Kinds, msg : Messages \cup {None}]
Answer(kind, m) == [kind |-> kind, msg |-> m]
Goroutines == Waiters \cup Clients
PCs == {"idle", "ensure", "dial", "swap", "closeOld", "notify", "submit",
        "wait", "blocked", "done"}

Init ==
  /\ client = None /\ authUntil = 0 /\ dialKey = NoKey /\ lastRead = 0
  /\ waiters = {} /\ recent = <<>>
  /\ connectMu = None /\ fresh = None /\ old = None
  /\ notify = [g \in Goroutines |-> {}]
  /\ pc = [w \in Waiters |-> "idle"]
  /\ round = [w \in Waiters |-> 1]
  /\ opts = [w \in Waiters |-> 0]
  /\ start = [w \in Waiters |-> 0]
  /\ remaining = Need
  /\ ch = [w \in Waiters |-> <<>>]
  /\ outcome = [w \in Waiters |-> Answer("none", None)]
  /\ conn = [c \in Clients |-> "unused"]
  /\ rd = [c \in Clients |-> "none"]
  /\ hand = [c \in Clients |-> <<>>]
  /\ closing = {}
  /\ now = 1 /\ reads = 0 /\ log = {}

-----------------------------------------------------------------------------
(* Matching.  seen is the set of ids carried by the fresh events the       *)
(* matcher has been shown so far, this one included.                       *)

Settles(w, m, seen) ==
  IF w \in CancelWaiters THEN Need[w] \subseteq seen
                         ELSE Need[w] \cap MsgIds[m] # {}

AnswerFor(w, m) ==
  IF <<w, m>> \in Rejects THEN Answer("match", m) ELSE Answer("ok", m)

\* trimRecentLocked drops the first k events: those over the limit, then
\* the leading ones older than the age; it stops at the first young one.
DropCounts(s, t) ==
  {k \in 0..Len(s) :
     /\ k >= Len(s) - RecentLimit
     /\ \A i \in 1..k : i <= Len(s) - RecentLimit \/ s[i].at < t - RecentAge
     /\ k = Len(s) \/ s[k + 1].at >= t - RecentAge}

Trimmed(s, k) == SubSeq(s, k + 1, Len(s))

-----------------------------------------------------------------------------
(* Ensure                                                                  *)

\* The plan is decoded: its auth token, if any, expires AuthLife from now.
Prepare(w) ==
  /\ pc[w] = "idle"
  /\ pc' = [pc EXCEPT ![w] = "ensure"]
  /\ opts' = [opts EXCEPT ![w] = IF AuthLife = 0 THEN 0 ELSE now + AuthLife]
  /\ UNCHANGED <<feed, ensure, notify, round, start, remaining, ch, outcome,
                 socket, now, reads, log>>

\* Ensure returns nil: to the submission, or on to Wait.
Ensured(w) ==
  pc' = [pc EXCEPT ![w] = IF round[w] = 1 THEN "submit" ELSE "wait"]

\* Ensure returns an error: the confirmation is over.
EnsureFailed(w) ==
  /\ pc' = [pc EXCEPT ![w] = "done"]
  /\ outcome' = [outcome EXCEPT ![w] = Answer("ensure", None)]

Ready(w) ==
  /\ client # None
  /\ DialKeyOf[w] = NoKey \/ dialKey = DialKeyOf[w]
  /\ authUntil = 0 \/ authUntil - now > AuthSkew

AuthExpired(w) == opts[w] # 0 /\ opts[w] <= now

EnsureReady(w) ==
  /\ pc[w] = "ensure" /\ connectMu = None
  /\ Ready(w)
  /\ Ensured(w)
  /\ UNCHANGED <<feed, ensure, notify, round, opts, start, remaining, ch,
                 outcome, socket, now, reads, log>>

EnsureExpired(w) ==
  /\ pc[w] = "ensure" /\ connectMu = None
  /\ ~Ready(w) /\ AuthExpired(w)
  /\ EnsureFailed(w)
  /\ UNCHANGED <<feed, ensure, notify, round, opts, start, remaining, ch,
                 socket, now, reads, log>>

EnsureLock(w) ==
  /\ pc[w] = "ensure" /\ connectMu = None
  /\ ~Ready(w) /\ ~AuthExpired(w)
  /\ connectMu' = w
  /\ pc' = [pc EXCEPT ![w] = "dial"]
  /\ UNCHANGED <<feed, fresh, old, notify, round, opts, start, remaining, ch,
                 outcome, socket, now, reads, log>>

DialOk(w, c) ==
  /\ pc[w] = "dial" /\ conn[c] = "unused"
  /\ conn' = [conn EXCEPT ![c] = "open"]
  /\ fresh' = c
  /\ pc' = [pc EXCEPT ![w] = "swap"]
  /\ UNCHANGED <<feed, connectMu, old, notify, round, opts, start, remaining,
                 ch, outcome, rd, hand, closing, now, reads, log>>

DialFail(w) ==
  /\ pc[w] = "dial"
  /\ connectMu' = None
  /\ EnsureFailed(w)
  /\ UNCHANGED <<feed, fresh, old, notify, round, opts, start, remaining, ch,
                 socket, now, reads, log>>

\* Under f.mu: install the new connection and detach the old one's waiters.
Swap(w) ==
  /\ pc[w] = "swap"
  /\ old' = client
  /\ client' = fresh
  /\ authUntil' = opts[w]
  /\ dialKey' = DialKeyOf[w]
  /\ lastRead' = now
  /\ notify' = [notify EXCEPT ![w] = waiters]
  /\ waiters' = {}
  /\ pc' = [pc EXCEPT ![w] = "closeOld"]
  /\ UNCHANGED <<recent, connectMu, fresh, round, opts, start, remaining, ch,
                 outcome, socket, now, reads, log>>

Closed(c) == IF c = None THEN conn ELSE [conn EXCEPT ![c] = "closed"]

CloseOld(w) ==
  /\ pc[w] = "closeOld"
  /\ conn' = Closed(old)
  /\ old' = None
  /\ pc' = [pc EXCEPT ![w] = "notify"]
  /\ UNCHANGED <<feed, connectMu, fresh, notify, round, opts, start,
                 remaining, ch, outcome, rd, hand, closing, now, reads, log>>

\* waiter.ch <- feedResult{...}: the channel holds one result, so a send to
\* a full channel blocks.
Send(v, r) ==
  /\ ch[v] = <<>>
  /\ ch' = [ch EXCEPT ![v] = Append(@, r)]

NotifyReconnect(w, v) ==
  /\ pc[w] = "notify" /\ v \in notify[w]
  /\ Send(v, Answer("reconnecting", None))
  /\ notify' = [notify EXCEPT ![w] = @ \ {v}]
  /\ UNCHANGED <<feed, ensure, caller, remaining, outcome, socket, now,
                 reads, log>>

\* go f.readLoop(client); the deferred unlock of connectMu.
StartReader(w) ==
  /\ pc[w] = "notify" /\ notify[w] = {}
  /\ rd' = [rd EXCEPT ![fresh] = "read"]
  /\ connectMu' = None
  /\ fresh' = None
  /\ Ensured(w)
  /\ UNCHANGED <<feed, old, notify, round, opts, start, remaining, ch,
                 outcome, conn, hand, closing, now, reads, log>>

-----------------------------------------------------------------------------
(* Wait                                                                    *)

\* The order (or cancel) is written to the venue; Confirm.Wait begins with
\* another Ensure.
Submit(w) ==
  /\ pc[w] = "submit"
  /\ start' = [start EXCEPT ![w] = now]
  /\ round' = [round EXCEPT ![w] = 2]
  /\ pc' = [pc EXCEPT ![w] = "ensure"]
  /\ UNCHANGED <<feed, ensure, notify, opts, remaining, ch, outcome, socket,
                 now, reads, log>>

FreshUpTo(w, s, n) == {i \in 1..n : s[i].at >= start[w]}
SeenUpTo(w, s, n) == UNION {MsgIds[s[i].msg] : i \in FreshUpTo(w, s, n)}
Hit(w, s, n) ==
  /\ s[n].at >= start[w]
  /\ \/ <<w, s[n].msg>> \in Rejects
     \/ Settles(w, s[n].msg, SeenUpTo(w, s, n))

\* Under f.mu: trim the buffer and show its fresh events to the matcher, in
\* order; the first one that settles the confirmation is its answer.
WaitReplay(w) ==
  /\ pc[w] = "wait"
  /\ \E k \in DropCounts(recent, now) :
       LET s == Trimmed(recent, k) IN
       /\ recent' = s
       /\ \E n \in 1..Len(s) :
            /\ Hit(w, s, n)
            /\ \A i \in 1..(n - 1) : ~Hit(w, s, i)
            /\ outcome' = [outcome EXCEPT ![w] = AnswerFor(w, s[n].msg)]
            /\ remaining' = [remaining EXCEPT ![w] = @ \ SeenUpTo(w, s, n)]
  /\ pc' = [pc EXCEPT ![w] = "done"]
  /\ UNCHANGED <<client, authUntil, dialKey, lastRead, waiters, ensure,
                 notify, round, opts, start, ch, socket, now, reads, log>>

\* Mutant of WaitRegister: the buffer is not searched first.
WaitRegisterBlind(w) ==
  /\ pc[w] = "wait"
  /\ waiters' = waiters \cup {w}
  /\ pc' = [pc EXCEPT ![w] = "blocked"]
  /\ UNCHANGED <<client, authUntil, dialKey, lastRead, recent, ensure, notify,
                 round, opts, start, remaining, ch, outcome, socket, now, reads, log>>

\* ... and in the same critical section, register if none of them does.
WaitRegister(w) ==
  /\ pc[w] = "wait"
  /\ \E k \in DropCounts(recent, now) :
       LET s == Trimmed(recent, k) IN
       /\ recent' = s
       /\ \A n \in 1..Len(s) : ~Hit(w, s, n)
       /\ remaining' = [remaining EXCEPT ![w] = @ \ SeenUpTo(w, s, Len(s))]
  /\ waiters' = waiters \cup {w}
  /\ pc' = [pc EXCEPT ![w] = "blocked"]
  /\ UNCHANGED <<client, authUntil, dialKey, lastRead, ensure, notify, round,
                 opts, start, ch, outcome, socket, now, reads, log>>

\* case result := <-waiter.ch
WaitReceive(w) ==
  /\ pc[w] = "blocked" /\ ch[w] # <<>>
  /\ outcome' = [outcome EXCEPT ![w] = Head(ch[w])]
  /\ ch' = [ch EXCEPT ![w] = Tail(@)]
  /\ pc' = [pc EXCEPT ![w] = "done"]
  /\ UNCHANGED <<feed, ensure, notify, round, opts, start, remaining, socket,
                 now, reads, log>>

Stale(w) ==
  LET read == IF lastRead = 0 THEN start[w] ELSE lastRead
  IN  client # None /\ (read < start[w] \/ now - read > StaleAfter)

\* case <-ctx.Done(): deregister, and drop a connection that has delivered
\* nothing since the submission.  select may take this case even when a
\* result is already in the channel.
WaitTimeout(w) ==
  /\ pc[w] = "blocked"
  /\ waiters' = waiters \ {w}
  /\ IF Stale(w)
     THEN /\ client' = None /\ authUntil' = 0 /\ lastRead' = 0
          /\ closing' = closing \cup {client}
     ELSE UNCHANGED <<client, authUntil, lastRead, closing>>
  /\ outcome' = [outcome EXCEPT ![w] = Answer("timeout", None)]
  /\ pc' = [pc EXCEPT ![w] = "done"]
  /\ UNCHANGED <<dialKey, recent, ensure, notify, round, opts, start,
                 remaining, ch, conn, rd, hand, now, reads, log>>

\* go func() { client.Close() }() of invalidateStaleLocked
AsyncClose(c) ==
  /\ c \in closing
  /\ closing' = closing \ {c}
  /\ conn' = Closed(c)
  /\ UNCHANGED <<feed, ensure, notify, caller, remaining, ch, outcome, rd,
                 hand, now, reads, log>>

-----------------------------------------------------------------------------
(* readLoop                                                                *)

ReadEvent(c, m) ==
  /\ rd[c] = "read" /\ conn[c] = "open" /\ reads < MaxReads
  /\ hand' = [hand EXCEPT ![c] = <<[msg |-> m, at |-> now]>>]
  /\ rd' = [rd EXCEPT ![c] = "got"]
  /\ reads' = reads + 1
  /\ UNCHANGED <<feed, ensure, notify, caller, remaining, ch, outcome, conn,
                 closing, now, log>>

\* A read fails on a closed socket, and on an event over the read limit.
ReadError(c) ==
  /\ rd[c] = "read"
  /\ rd' = [rd EXCEPT ![c] = "err"]
  /\ UNCHANGED <<feed, ensure, notify, caller, remaining, ch, outcome, conn,
                 hand, closing, now, reads, log>>

\* Mutant of Shown: events older than the submission count too.
ShownAny(e) == waiters

Shown(e) == {w \in waiters : e.at >= start[w]}
SeenWith(w, e) == (Need[w] \ remaining[w]) \cup MsgIds[e.msg]
Settled(e) ==
  {w \in Shown(e) : \/ <<w, e.msg>> \in Rejects
                    \/ Settles(w, e.msg, SeenWith(w, e))}

\* Under f.mu: buffer the event, show it to every registered waiter whose
\* submission precedes it, answer and remove the ones it settles.
Dispatch(c) ==
  /\ rd[c] = "got"
  /\ LET e == hand[c][1] IN
     /\ \A w \in Settled(e) : ch[w] = <<>>
     /\ \E k \in DropCounts(Append(recent, e), e.at) :
          recent' = Trimmed(Append(recent, e), k)
     /\ lastRead' = e.at
     /\ remaining' = [w \in Waiters |->
          IF w \in Shown(e) THEN remaining[w] \ MsgIds[e.msg] ELSE remaining[w]]
     /\ ch' = [w \in Waiters |->
          IF w \in Settled(e) THEN Append(ch[w], AnswerFor(w, e.msg)) ELSE ch[w]]
     /\ waiters' = waiters \ Settled(e)
     /\ log' = log \cup {e}
  /\ hand' = [hand EXCEPT ![c] = <<>>]
  /\ rd' = [rd EXCEPT ![c] = "read"]
  /\ UNCHANGED <<client, authUntil, dialKey, ensure, notify, caller, outcome,
                 conn, closing, now, reads>>

\* fail(client, err) of a connection that is no longer current: close it.
FailStale(c) ==
  /\ rd[c] = "err" /\ client # c
  /\ conn' = Closed(c)
  /\ rd' = [rd EXCEPT ![c] = "done"]
  /\ UNCHANGED <<feed, ensure, notify, caller, remaining, ch, outcome, hand,
                 closing, now, reads, log>>

\* Mutants of FailCurrent: the waiters stay registered; the connection stays the
\* feed's; any failing connection clears the client.
FailKeepsWaiters(c) ==
  /\ rd[c] = "err" /\ client = c
  /\ client' = None /\ authUntil' = 0 /\ lastRead' = 0
  /\ notify' = [notify EXCEPT ![c] = waiters]
  /\ rd' = [rd EXCEPT ![c] = "close"]
  /\ UNCHANGED <<waiters, dialKey, recent, ensure, caller, remaining, ch,
                 outcome, conn, hand, closing, now, reads, log>>

FailKeepsClient(c) ==
  /\ rd[c] = "err" /\ client = c
  /\ notify' = [notify EXCEPT ![c] = waiters]
  /\ waiters' = {}
  /\ rd' = [rd EXCEPT ![c] = "close"]
  /\ UNCHANGED <<client, authUntil, lastRead, dialKey, recent, ensure, caller,
                 remaining, ch, outcome, conn, hand, closing, now, reads, log>>

FailAnyClient(c) ==
  /\ rd[c] = "err"
  /\ client' = None /\ authUntil' = 0 /\ lastRead' = 0
  /\ notify' = [notify EXCEPT ![c] = waiters]
  /\ waiters' = {}
  /\ rd' = [rd EXCEPT ![c] = "close"]
  /\ UNCHANGED <<dialKey, recent, ensure, caller, remaining, ch, outcome,
                 conn, hand, closing, now, reads, log>>

\* fail(client, err) of the current one: clear it and detach its waiters ...
FailCurrent(c) ==
  /\ rd[c] = "err" /\ client = c
  /\ client' = None /\ authUntil' = 0 /\ lastRead' = 0
  /\ notify' = [notify EXCEPT ![c] = waiters]
  /\ waiters' = {}
  /\ rd' = [rd EXCEPT ![c] = "close"]
  /\ UNCHANGED <<dialKey, recent, ensure, caller, remaining, ch, outcome,
                 conn, hand, closing, now, reads, log>>

\* ... then, with f.mu released, close the socket ...
FailClose(c) ==
  /\ rd[c] = "close"
  /\ conn' = Closed(c)
  /\ rd' = [rd EXCEPT ![c] = "notify"]
  /\ UNCHANGED <<feed, ensure, notify, caller, remaining, ch, outcome, hand,
                 closing, now, reads, log>>

\* ... and send the error to each detached waiter.
FailNotify(c, v) ==
  /\ rd[c] = "notify" /\ v \in notify[c]
  /\ Send(v, Answer("conn", None))
  /\ notify' = [notify EXCEPT ![c] = @ \ {v}]
  /\ UNCHANGED <<feed, ensure, caller, remaining, outcome, socket, now,
                 reads, log>>

FailDone(c) ==
  /\ rd[c] = "notify" /\ notify[c] = {}
  /\ rd' = [rd EXCEPT ![c] = "done"]
  /\ UNCHANGED <<feed, ensure, notify, caller, remaining, ch, outcome, conn,
                 hand, closing, now, reads, log>>

-----------------------------------------------------------------------------
(* Environment: the peer or a failed ping closes the socket; time passes.  *)

ConnectionLost(c) ==
  /\ conn[c] = "open"
  /\ conn' = Closed(c)
  /\ UNCHANGED <<feed, ensure, notify, caller, remaining, ch, outcome, rd,
                 hand, closing, now, reads, log>>

Tick ==
  /\ now < MaxTime
  /\ now' = now + 1
  /\ UNCHANGED <<feed, ensure, notify, caller, remaining, ch, outcome,
                 socket, reads, log>>

EnsureStep(w) ==
  \/ EnsureReady(w) \/ EnsureExpired(w) \/ EnsureLock(w)
  \/ (\E c \in Clients : DialOk(w, c)) \/ DialFail(w)
  \/ Swap(w) \/ CloseOld(w)
  \/ (\E v \in Waiters : NotifyReconnect(w, v)) \/ StartReader(w)

WaitStep(w) ==
  WaitReplay(w) \/ WaitRegister(w) \/ WaitReceive(w) \/ WaitTimeout(w)

ReaderStep(c) ==
  \/ Dispatch(c)
  \/ FailStale(c) \/ FailCurrent(c) \/ FailClose(c)
  \/ (\E v \in Waiters : FailNotify(c, v)) \/ FailDone(c)

Next ==
  \/ \E w \in Waiters :
       Prepare(w) \/ Submit(w) \/ EnsureStep(w) \/ WaitStep(w)
  \/ \E c \in Clients :
       \/ \E m \in Messages : ReadEvent(c, m)
       \/ ReadError(c) \/ ReaderStep(c) \/ AsyncClose(c) \/ ConnectionLost(c)
  \/ Tick

Spec == Init /\ [][Next]_vars

-----------------------------------------------------------------------------
(* Properties                                                              *)

\* Types of the feed's fields and of the goroutines' local state.
TypeOK ==
  /\ client \in Clients \cup {None}
  /\ authUntil \in Nat /\ lastRead \in Nat
  /\ waiters \subseteq Waiters /\ recent \in Seq(Event)
  /\ connectMu \in Waiters \cup {None}
  /\ fresh \in Clients \cup {None} /\ old \in Clients \cup {None}
  /\ notify \in [Goroutines -> SUBSET Waiters]
  /\ pc \in [Waiters -> PCs] /\ round \in [Waiters -> 1..2]
  /\ opts \in [Waiters -> Nat] /\ start \in [Waiters -> Nat]
  /\ remaining \in [Waiters -> SUBSET Orders]
  /\ ch \in [Waiters -> Seq(Result)]
  /\ outcome \in [Waiters -> Result]
  /\ conn \in [Clients -> {"unused", "open", "closed"}]
  /\ rd \in [Clients -> {"none", "read", "got", "err", "close", "notify",
                         "done"}]
  /\ hand \in [Clients -> Seq(Event)]
  /\ \A c \in Clients : rd[c] = "got" => hand[c] # <<>>
  /\ closing \subseteq Clients
  /\ now \in Nat /\ reads \in Nat /\ log \subseteq Event

\* A waiter is owed at most one result: it is registered, or detached by one
\* goroutine, or answered, never two of these.  Its channel holds one result
\* and dispatch sends while holding f.mu, so a second send would stop the
\* whole feed (feed.go:152, 242, 264).
AnsweredOnce ==
  \A w \in Waiters :
    /\ Len(ch[w]) <= 1
    /\ w \in waiters => ch[w] = <<>> /\ \A g \in Goroutines : w \notin notify[g]
    /\ \A g, h \in Goroutines :
         w \in notify[g] => ch[w] = <<>> /\ (w \in notify[h] => g = h)

\* While a confirmation is registered, no fresh event in the replay buffer
\* rejects it, settles it, or carries an id it has not crossed off: an event
\* that arrives between the submission and Wait is never lost (feed.go:171-193).
NothingLeftBehind ==
  \A w \in waiters : \A i \in 1..Len(recent) :
    recent[i].at >= start[w] =>
      /\ <<w, recent[i].msg>> \notin Rejects
      /\ MsgIds[recent[i].msg] \cap remaining[w] = {}
      /\ ~Settles(w, recent[i].msg, Need[w] \ remaining[w])

\* The connection readyLockedTime reports ready has a reader, or the holder of
\* connectMu is about to start it: no confirmation waits on a connection that
\* nobody reads while Ensure believes it healthy (feed.go:154, 248-255).
CurrentIsRead ==
  client # None => rd[client] \in {"read", "got", "err"} \/ fresh = client

\* Every open connection other than the current one is in the hands of a
\* goroutine that will close it: reconnects, stale failures and invalidations
\* leak no socket however they interleave (feed.go:148, 250-253, 283).
NoSocketLeak ==
  \A c \in Clients :
    conn[c] = "open" /\ client # c =>
      fresh = c \/ old = c \/ c \in closing \/ rd[c] \in {"err", "close"}

\* Every connection is in somebody's hand: the one that Ensure reports ready is
\* read, and every other open one is about to be closed.
SocketsInHand == CurrentIsRead /\ NoSocketLeak

\* The feed implements Confirmations.  A submission is what Submit records;
\* the answer is what Wait, or a failed Ensure, returns.
Stage == [w \in Waiters |->
  IF pc[w] = "done" THEN "answered"
  ELSE IF round[w] = 1 THEN "idle" ELSE "submitted"]

Promise == INSTANCE Confirmations WITH
  stage <- Stage, since <- start, answer <- outcome, observed <- log

\* Every confirmation is answered once, and never confirmed or rejected but by
\* events read at or after its own submission (feed.go:173-186, 236-245).
ImplementsConfirmations == Promise!Spec

\* The inductive form of AnsweredOnce: only a blocked confirmation is
\* registered, one that has not reached Wait is owed nothing, and a goroutine
\* holds detached waiters only between detaching them and its last send.
AnswerInv ==
  /\ AnsweredOnce
  /\ \A w \in waiters : pc[w] = "blocked"
  /\ \A w \in Waiters : pc[w] \notin {"blocked", "done"} =>
       ch[w] = <<>> /\ \A g \in Goroutines : w \notin notify[g]
  /\ \A w \in Waiters : pc[w] \notin {"closeOld", "notify"} => notify[w] = {}
  /\ \A c \in Clients : rd[c] \notin {"close", "notify"} => notify[c] = {}

\* The inductive form of CurrentIsRead and NoSocketLeak: who holds connectMu,
\* what it holds, and what became of the connection it installed.
SocketInv ==
  /\ CurrentIsRead /\ NoSocketLeak
  /\ \A c \in Clients : conn[c] = "unused" =>
       rd[c] = "none" /\ client # c /\ fresh # c /\ old # c /\ c \notin closing
  /\ \A c \in Clients : conn[c] # "unused" /\ rd[c] = "none" => fresh = c
  /\ fresh # None => rd[fresh] = "none" /\ conn[fresh] # "unused"
  /\ \A w \in Waiters :
       (connectMu = w) <=> pc[w] \in {"dial", "swap", "closeOld", "notify"}
  /\ connectMu = None => fresh = None /\ old = None
  /\ \A w \in Waiters :
       /\ pc[w] \in {"swap", "closeOld", "notify"} => fresh # None
       /\ pc[w] = "dial" => fresh = None
       /\ pc[w] \in {"dial", "swap", "notify"} => old = None
       /\ pc[w] = "swap" => client # fresh
       /\ pc[w] \in {"closeOld", "notify"} =>
            client = fresh \/ fresh \in closing \/ conn[fresh] = "closed"

\* The inductive form of NothingLeftBehind: before Wait nothing is crossed off.
ReplayInv ==
  /\ NothingLeftBehind
  /\ \A w \in Waiters : pc[w] \notin {"blocked", "done"} => remaining[w] = Need[w]

\* What the log holds for a confirmation, and the ids that it settles.
Observed(w) == {e \in log : e.at >= start[w]}
IdsOf(events) == UNION {MsgIds[e.msg] : e \in events}

\* An answer that these events account for, or an error.
Justified(w, r, events) ==
  \/ r.kind \in {"conn", "reconnecting"} /\ r.msg = None
  \/ r.kind = "match" /\ \E e \in events : r.msg = e.msg /\ <<w, e.msg>> \in Rejects
  \/ r.kind = "ok" /\ \E e \in events : r.msg = e.msg /\ Settles(w, e.msg, IdsOf(events))

\* What ImplementsConfirmations needs of a state: the replay buffer and what has
\* been crossed off come from the log, and so does an answer in a channel.
EvidenceInv ==
  /\ \A i \in 1..Len(recent) : recent[i] \in log
  /\ \A w \in Waiters :
       /\ pc[w] \in {"wait", "blocked"} => round[w] = 2
       /\ pc[w] \in {"idle", "submit"} => round[w] = 1
       /\ Need[w] \ remaining[w] \subseteq IdsOf(Observed(w))
       /\ \A k \in 1..Len(ch[w]) : Justified(w, ch[w][k], Observed(w))
=============================================================================
