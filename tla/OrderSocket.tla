----------------------------- MODULE OrderSocket -----------------------------
(***************************************************************************)
(* netlatency.WebSocketClient (internal/netlatency/websocket.go): the one  *)
(* connection over which the samples of a websocket run send their orders, *)
(* and a venue's cleanups their requests.  A sample makes it ready when it *)
(* is prepared and again when it is sent; c.mu is held over the whole of   *)
(* both, also while the answer is waited for.  An answer is the next       *)
(* message of the connection: there are no request ids.  An idle           *)
(* connection is tried with a message of the venue's, or with a control    *)
(* frame that a goroutine of the connection sends as well.                 *)
(*                                                                         *)
(* The venue answers what it is sent with one message each, late or never. *)
(* gorilla/websocket and coder/websocket are one here.                     *)
(***************************************************************************)
EXTENDS Integers, Sequences

CONSTANTS
  Calls,      \* samples and cleanups that use this client
  MaxConns,   \* bound on the connections dialled
  Settings    \* of a client, and whether its callers' contexts have a deadline

ASSUME SocketAssumption ==
  /\ MaxConns \in Nat
  /\ Calls \cap {"nobody", "nothing", "error", "hello", "beat"} = {}
  /\ Settings \subseteq [timed : BOOLEAN, greets : BOOLEAN, beat : {"none", "message", "control"}]

VARIABLES
  cfg,
  mu,         \* the call that holds c.mu
  pc, phase,  \* where a call is, in EnsureConnected ("ensure") or in Do
  got,        \* what it returned
  conn,       \* c.conn, or c.coderConn
  dialled,    \* a connection before it becomes c.conn
  idle,       \* whether lastIO is IdleAfter ago
  beating,    \* whose loop heartbeatCancel stops
  loop,       \* the heartbeat loop of each connection, and
  stopped,    \* whether its context is cancelled
  sock,       \* the socket of each connection,
  owed,       \* what the venue has read of it and not answered,
  inbox,      \* and the messages that have come back
  shut        \* Venue.Close, CommandAdapter.Close

calls == <<mu, pc, phase, got>>
client == <<conn, dialled, idle, beating, loop, stopped>>
net == <<sock, owed, inbox>>
vars == <<cfg, calls, client, net, shut>>

Conns == 1..MaxConns
None == 0
Nobody == "nobody"

Init ==
  /\ cfg \in Settings /\ mu = Nobody /\ shut = FALSE
  /\ pc = [d \in Calls |-> "idle"] /\ phase = [d \in Calls |-> "ensure"]
  /\ got = [d \in Calls |-> "nothing"]
  /\ conn = None /\ dialled = None /\ idle = FALSE /\ beating = None
  /\ loop = [c \in Conns |-> "none"] /\ stopped = [c \in Conns |-> FALSE]
  /\ sock = [c \in Conns |-> "fresh"] /\ owed = [c \in Conns |-> <<>>] /\ inbox = [c \in Conns |-> <<>>]

-----------------------------------------------------------------------------
(* closeLocked, and how a call ends                                        *)

\* Mutant of CloseLocked: the connection is forgotten, not closed.
CloseLockedForgets ==
  /\ stopped' = IF beating = None THEN stopped ELSE [stopped EXCEPT ![beating] = TRUE]
  /\ conn' = None /\ beating' = None /\ idle' = TRUE /\ UNCHANGED <<dialled, loop, net>>

CloseLocked ==
  /\ stopped' = IF beating = None THEN stopped ELSE [stopped EXCEPT ![beating] = TRUE]
  /\ sock' = IF conn = None THEN sock ELSE [sock EXCEPT ![conn] = "closed"]
  /\ conn' = None /\ beating' = None /\ idle' = TRUE /\ UNCHANGED <<dialled, loop, owed, inbox>>

Ends(d, result) ==
  /\ mu' = Nobody /\ pc' = [pc EXCEPT ![d] = "done"] /\ got' = [got EXCEPT ![d] = result]
  /\ UNCHANGED phase

Goes(d, where) == pc' = [pc EXCEPT ![d] = where] /\ UNCHANGED <<mu, phase, got>>

-----------------------------------------------------------------------------
(* ensureReadyLocked                                                       *)

Begin(d) ==
  /\ pc[d] \in {"idle", "between"} /\ ~shut
  /\ pc' = [pc EXCEPT ![d] = "want"]
  /\ phase' = [phase EXCEPT ![d] = IF pc[d] = "idle" THEN "ensure" ELSE "do"]
  /\ UNCHANGED <<cfg, mu, got, client, net, shut>>

Lock(d) ==
  /\ pc[d] = "want" /\ mu = Nobody
  /\ mu' = d /\ pc' = [pc EXCEPT ![d] = "ready"]
  /\ UNCHANGED <<cfg, phase, got, client, net, shut>>

Dial(d, c) ==
  /\ pc[d] = "ready" /\ conn = None /\ sock[c] = "fresh" /\ Goes(d, "greet")
  /\ dialled' = c /\ sock' = [sock EXCEPT ![c] = "open"]
  /\ owed' = [owed EXCEPT ![c] = IF cfg.greets THEN <<"hello">> ELSE <<>>]
  /\ UNCHANGED <<cfg, conn, idle, beating, loop, stopped, inbox, shut>>

DialFails(d) ==
  /\ pc[d] = "ready" /\ conn = None /\ Ends(d, "error")
  /\ UNCHANGED <<cfg, client, net, shut>>

\* Some venues say hello first (readInitial); then the loop is started.  The
\* connection has just been used: no heartbeat is due.
Install(d) ==
  /\ pc[d] = "greet" /\ (cfg.greets => inbox[dialled] # <<>>) /\ Goes(d, "ensured")
  /\ inbox' = IF cfg.greets THEN [inbox EXCEPT ![dialled] = Tail(@)] ELSE inbox
  /\ conn' = dialled /\ dialled' = None /\ idle' = FALSE
  /\ IF cfg.beat = "control" /\ beating = None
     THEN beating' = dialled /\ loop' = [loop EXCEPT ![dialled] = "asleep"]
     ELSE UNCHANGED <<beating, loop>>
  /\ UNCHANGED <<cfg, stopped, sock, owed, shut>>

\* A read fails when the connection does, or at the deadline if there is one.
CannotRead(c) == cfg.timed \/ (sock[c] = "dead" /\ inbox[c] = <<>>)

GreetFails(d) ==
  /\ pc[d] = "greet" /\ cfg.greets /\ CannotRead(dialled) /\ Ends(d, "error")
  /\ sock' = [sock EXCEPT ![dialled] = "closed"] /\ dialled' = None
  /\ UNCHANGED <<cfg, conn, idle, beating, loop, stopped, owed, inbox, shut>>

MustBeat == idle /\ cfg.beat # "none"

\* A write to a socket that has died may still succeed.
Written(what) == owed' = IF sock[conn] = "open" THEN [owed EXCEPT ![conn] = Append(@, what)] ELSE owed

Beat(d) ==
  /\ pc[d] = "ready" /\ conn # None /\ MustBeat /\ cfg.beat = "message" /\ Goes(d, "beat")
  /\ Written("beat")
  /\ UNCHANGED <<cfg, client, sock, inbox, shut>>

BeatAnswered(d) ==
  /\ pc[d] = "beat" /\ inbox[conn] # <<>> /\ Goes(d, "ensured")
  /\ inbox' = [inbox EXCEPT ![conn] = Tail(@)] /\ idle' = FALSE
  /\ UNCHANGED <<cfg, conn, dialled, beating, loop, stopped, sock, owed, shut>>

ControlBeat(d) ==
  /\ pc[d] = "ready" /\ conn # None /\ MustBeat /\ cfg.beat = "control" /\ Goes(d, "ensured")
  /\ idle' = FALSE
  /\ UNCHANGED <<cfg, conn, dialled, beating, loop, stopped, net, shut>>

\* Heartbeats have a deadline of their own.  The next connection is dialled.
BeatFails(d) ==
  /\ pc[d] = "beat" \/ (pc[d] = "ready" /\ conn # None /\ MustBeat)
  /\ Goes(d, "ready") /\ CloseLocked
  /\ UNCHANGED <<cfg, shut>>

Ready(d) == pc[d] = "ensured" \/ (pc[d] = "ready" /\ conn # None /\ ~MustBeat)

Ensured(d) ==
  /\ Ready(d) /\ phase[d] = "ensure"
  /\ mu' = Nobody /\ pc' = [pc EXCEPT ![d] = "between"]
  /\ UNCHANGED <<cfg, phase, got, client, net, shut>>

-----------------------------------------------------------------------------
(* Do                                                                      *)

Write(d) ==
  /\ Ready(d) /\ phase[d] = "do" /\ Goes(d, "reading")
  /\ Written(d) /\ idle' = FALSE
  /\ UNCHANGED <<cfg, conn, dialled, beating, loop, stopped, sock, inbox, shut>>

WriteFails(d) ==
  /\ Ready(d) /\ phase[d] = "do" /\ Ends(d, "error") /\ CloseLocked
  /\ UNCHANGED <<cfg, shut>>

\* A message over the read limit is an error, and the connection stays.
Read(d) ==
  /\ pc[d] = "reading" /\ inbox[conn] # <<>>
  /\ \E long \in BOOLEAN : Ends(d, IF long THEN "error" ELSE Head(inbox[conn])) /\ idle' = (long /\ idle)
  /\ inbox' = [inbox EXCEPT ![conn] = Tail(@)]
  /\ UNCHANGED <<cfg, conn, dialled, beating, loop, stopped, sock, owed, shut>>

\* Mutant of ReadFails: the connection is kept after a timeout.
ReadFailsKeeps(d) ==
  /\ pc[d] = "reading" /\ CannotRead(conn) /\ Ends(d, "error")
  /\ UNCHANGED <<cfg, client, net, shut>>

\* Mutant of ReadFails: the deadline is set for the write only.
ReadFailsLate(d) ==
  /\ pc[d] = "reading" /\ sock[conn] = "dead" /\ inbox[conn] = <<>> /\ Ends(d, "error") /\ CloseLocked
  /\ UNCHANGED <<cfg, shut>>

ReadFails(d) ==
  /\ pc[d] = "reading" /\ CannotRead(conn) /\ Ends(d, "error") /\ CloseLocked
  /\ UNCHANGED <<cfg, shut>>

-----------------------------------------------------------------------------
(* controlHeartbeatLoop, and Close                                         *)

LoopTick(c) ==
  /\ loop[c] = "asleep" /\ loop' = [loop EXCEPT ![c] = "want"]
  /\ UNCHANGED <<cfg, calls, conn, dialled, idle, beating, stopped, net, shut>>

LoopEnds(c) ==
  /\ loop[c] = "asleep" /\ stopped[c] /\ loop' = [loop EXCEPT ![c] = "ended"]
  /\ UNCHANGED <<cfg, calls, conn, dialled, idle, beating, stopped, net, shut>>

\* With the lock: the context again, and whether there was traffic.
LoopSkips(c) ==
  /\ loop[c] = "want" /\ mu = Nobody /\ (stopped[c] \/ ~idle)
  /\ loop' = [loop EXCEPT ![c] = IF stopped[c] THEN "ended" ELSE "asleep"]
  /\ UNCHANGED <<cfg, calls, conn, dialled, idle, beating, stopped, net, shut>>

LoopBeats(c) ==
  /\ loop[c] = "want" /\ mu = Nobody /\ ~stopped[c] /\ idle
  /\ loop' = [loop EXCEPT ![c] = "asleep"] /\ idle' = FALSE
  /\ UNCHANGED <<cfg, calls, conn, dialled, beating, stopped, net, shut>>

\* The loop goes to its select with its own context cancelled.
LoopFails(c) ==
  /\ loop[c] = "want" /\ mu = Nobody /\ ~stopped[c] /\ idle
  /\ stopped' = IF beating = None THEN stopped ELSE [stopped EXCEPT ![beating] = TRUE]
  /\ sock' = IF conn = None THEN sock ELSE [sock EXCEPT ![conn] = "closed"]
  /\ conn' = None /\ beating' = None /\ idle' = TRUE /\ loop' = [loop EXCEPT ![c] = "asleep"]
  /\ UNCHANGED <<cfg, calls, dialled, owed, inbox, shut>>

\* Run closes the venue when every sample has returned.
Close ==
  /\ ~shut /\ mu = Nobody /\ (\A d \in Calls : pc[d] \in {"idle", "between", "done"})
  /\ shut' = TRUE /\ CloseLocked
  /\ UNCHANGED <<cfg, calls>>

-----------------------------------------------------------------------------
(* The venue, and time                                                     *)

Answer(c) ==
  /\ sock[c] = "open" /\ owed[c] # <<>>
  /\ inbox' = [inbox EXCEPT ![c] = Append(@, Head(owed[c]))] /\ owed' = [owed EXCEPT ![c] = Tail(@)]
  /\ UNCHANGED <<cfg, calls, client, sock, shut>>

Die(c) ==
  /\ sock[c] = "open" /\ sock' = [sock EXCEPT ![c] = "dead"]
  /\ UNCHANGED <<cfg, calls, client, owed, inbox, shut>>

Idle ==
  /\ conn # None /\ ~idle /\ idle' = TRUE
  /\ UNCHANGED <<cfg, calls, conn, dialled, beating, loop, stopped, net, shut>>

Held(d) ==
  \/ (\E c \in Conns : Dial(d, c)) \/ DialFails(d) \/ Install(d) \/ GreetFails(d)
  \/ Beat(d) \/ BeatAnswered(d) \/ ControlBeat(d) \/ BeatFails(d) \/ Ensured(d)
  \/ Write(d) \/ WriteFails(d) \/ Read(d) \/ ReadFails(d)

LoopStep(c) == LoopEnds(c) \/ LoopSkips(c) \/ LoopBeats(c) \/ LoopFails(c)

Next ==
  \/ \E d \in Calls : Begin(d) \/ Lock(d) \/ Held(d)
  \/ \E c \in Conns : LoopTick(c) \/ LoopStep(c) \/ Answer(c) \/ Die(c)
  \/ Close \/ Idle

\* Goroutines go on, c.mu is handed to one that starves, and tickers tick;
\* nothing is assumed of the venue, and a connection need not go idle.
Fairness ==
  /\ \A d \in Calls : WF_vars(Held(d)) /\ SF_vars(Lock(d))
  /\ \A c \in Conns : WF_vars(LoopTick(c)) /\ SF_vars(LoopStep(c))

Spec == Init /\ [][Next]_vars /\ Fairness

-----------------------------------------------------------------------------
(* Properties                                                              *)

TypeOK ==
  /\ cfg \in Settings /\ mu \in Calls \union {Nobody} /\ shut \in BOOLEAN /\ idle \in BOOLEAN
  /\ pc \in [Calls -> {"idle", "want", "ready", "greet", "beat", "ensured", "reading", "between", "done"}]
  /\ phase \in [Calls -> {"ensure", "do"}]
  /\ got \in [Calls -> Calls \union {"nothing", "error"}]
  /\ {conn, dialled, beating} \subseteq Conns \union {None}
  /\ loop \in [Conns -> {"none", "asleep", "want", "ended"}] /\ stopped \in [Conns -> BOOLEAN]
  /\ sock \in [Conns -> {"fresh", "open", "dead", "closed"}]
  /\ {owed, inbox} \subseteq [Conns -> Seq(Calls \union {"hello", "beat"})]

\* Without request ids, whoever sends gets the answer to what it sent, or an
\* error: no answer, greeting or heartbeat of before is left on a connection
\* that is used again.
AnswersOwn == \A d \in Calls : pc[d] = "done" => got[d] \in {d, "error"}

\* The connection in use has the one heartbeat loop that is not stopped, if it
\* is to have one,
OneHeartbeat ==
  LET live == {c \in Conns : loop[c] \in {"asleep", "want"} /\ ~stopped[c]}
  IN  live = IF cfg.beat = "control" /\ conn # None THEN {conn} ELSE {}

\* and a socket that nobody holds any more is closed:
NoSocketLeft == \A c \in Conns : sock[c] \in {"open", "dead"} => c \in {conn, dialled}

\* however calls, closings, replaced connections and failures of their loops
\* cross, a connection and its loop come and go together.
SocketKept == OneHeartbeat /\ NoSocketLeft

\* With a deadline a call that waits for c.mu gets it, and returns, whatever the
\* venue and the connection do,
CallsReturn ==
  \A d \in Calls : cfg.timed /\ pc[d] = "want" ~> pc[d] \in {"between", "done"}

\* and a loop whose connection is gone, which needs c.mu to find out, ends.
LoopsEnd == \A c \in Conns : cfg.timed /\ stopped[c] ~> loop[c] = "ended"

\* The lock, which is held while the venue is waited for, holds up nobody for ever.
NobodyHeldUp == CallsReturn /\ LoopsEnd

\* What the lock is worth: who holds it is the one between Lock and Ends, and what
\* it holds meanwhile.
LockInv ==
  /\ \A d \in Calls : mu = d <=> pc[d] \in {"ready", "greet", "beat", "ensured", "reading"}
  /\ \A d \in Calls :
       /\ pc[d] \in {"beat", "ensured", "reading"} => conn # None
       /\ pc[d] = "greet" => dialled # None
  /\ dialled # None => conn = None /\ mu # Nobody /\ pc[mu] = "greet"

Quiet(c) == owed[c] = <<>> /\ inbox[c] = <<>>
Carries(c, message) ==
  Quiet(c) \/ (owed[c] = <<message>> /\ inbox[c] = <<>>) \/ (owed[c] = <<>> /\ inbox[c] = <<message>>)

\* The inductive form of AnswersOwn: what is under way on the connection is at
\* most the one answer that the holder of the lock waits for.
LineInv ==
  /\ AnswersOwn
  /\ \A c \in Conns : sock[c] = "fresh" => Quiet(c)
  /\ conn # None /\ ~(mu # Nobody /\ pc[mu] \in {"beat", "reading"}) => Quiet(conn)
  /\ \A d \in Calls : /\ pc[d] = "beat" => Carries(conn, "beat")
                      /\ pc[d] = "reading" => Carries(conn, d)
                      /\ pc[d] = "greet" => IF cfg.greets THEN Carries(dialled, "hello") ELSE Quiet(dialled)

\* The inductive form of SocketKept: a loop begins with its connection, which no
\* loop had before, and is cancelled with it.
ConnInv ==
  /\ SocketKept
  /\ beating = IF cfg.beat = "control" THEN conn ELSE None
  /\ \A c \in Conns : c \in {conn, dialled} => sock[c] # "fresh"
  /\ \A c \in Conns : sock[c] = "fresh" \/ c = dialled => loop[c] = "none" /\ ~stopped[c]
=============================================================================
