---------------------------- MODULE CommandBuilder ----------------------------
(***************************************************************************)
(* PersistentCommandBuilder of internal/payload/command.go: one builder    *)
(* program, kept running and shared by every payload and cleanup build of  *)
(* a venue.  A Build writes one request line to the program and reads one  *)
(* response line, under b.mu; its timeout runs from before it has b.mu.    *)
(* The line is read by a goroutine of its own, which loads b.stdout        *)
(* without the lock when it first runs.  A timed-out or failed Build kills *)
(* the program, and the next one starts a new one.                         *)
(*                                                                         *)
(* The program (a python script under internal/venues) is the environment: *)
(* it answers each request with one line, in order, well formed or not;    *)
(* it may hang, and it may exit.  A request fits the pipe, so that the     *)
(* write, which no timeout bounds, does not wait for the program.          *)
(***************************************************************************)
EXTENDS Integers, Sequences

CONSTANTS
  Calls,     \* calls of Build
  Programs,  \* supply of builder processes
  None,
  MaxCloses  \* bound on calls of Close

ASSUME BuilderAssumption ==
  /\ None \notin Calls \cup Programs /\ Calls \cap Programs = {} /\ MaxCloses \in Nat
  /\ Programs \cap {"none", "spawned", "done"} = {}

VARIABLES
  mu,       \* the Build that holds b.mu
  cur,      \* b.cmd, b.stdin and b.stdout: set and cleared together
  pc,       \* where each Build is
  expired,  \* Builds whose context has ended
  reader,   \* each Build's reader goroutine: not there, not yet run, done,
            \* or the program it reads from
  done,     \* its channel: a line, as the request it answers, or an error
  result,   \* what each Build returned
  state,    \* each program: "unused", "live", "exited" or "killed"
  in, out,  \* requests and responses in the pipes of each program
  closes,
  panicked  \* a reader called ReadBytes on a nil b.stdout

builder == <<mu, cur, closes>>
build == <<pc, expired, result>>
readers == <<reader, done, panicked>>
program == <<state, in, out>>
vars == <<builder, build, readers, program>>

Error == [line |-> None]
Line(c) == [line |-> c]

Init ==
  /\ mu = None /\ cur = None /\ closes = 0
  /\ pc = [c \in Calls |-> "idle"] /\ expired = {}
  /\ reader = [c \in Calls |-> "none"] /\ done = [c \in Calls |-> <<>>]
  /\ result = [c \in Calls |-> <<>>]
  /\ state = [p \in Programs |-> "unused"]
  /\ in = [p \in Programs |-> <<>>] /\ out = [p \in Programs |-> <<>>]
  /\ panicked = FALSE

-----------------------------------------------------------------------------
(* Build                                                                   *)

At(c, place) == ~panicked /\ pc[c] = place
Goto(c, place) == pc' = [pc EXCEPT ![c] = place]

Call(c) ==
  /\ At(c, "idle") /\ Goto(c, "lock")
  /\ UNCHANGED <<builder, expired, result, readers, program>>

\* context.WithTimeout: nobody looks at it before the select.
Deadline(c) ==
  /\ ~panicked /\ pc[c] \notin {"idle", "returned"} /\ c \notin expired
  /\ expired' = expired \cup {c}
  /\ UNCHANGED <<builder, pc, result, readers, program>>

Lock(c) ==
  /\ At(c, "lock") /\ mu = None
  /\ mu' = c /\ Goto(c, "start")
  /\ UNCHANGED <<cur, closes, expired, result, readers, program>>

\* The deferred unlock and cancel.
Return(c, r) ==
  /\ Goto(c, "returned") /\ expired' = expired \ {c}
  /\ result' = [result EXCEPT ![c] = <<r>>]
  /\ mu' = None

Dead(p) == IF p # None /\ state[p] = "live" THEN [state EXCEPT ![p] = "killed"] ELSE state

\* Mutant of CloseLocked: the process is let go, not killed.
CloseLockedOnly == cur' = None /\ UNCHANGED state

\* closeLocked
CloseLocked == cur' = None /\ state' = Dead(cur)

\* ensureStartedLocked: a process that has exited still counts as started.
Started(c) ==
  /\ At(c, "start") /\ cur # None
  /\ Goto(c, "write")
  /\ UNCHANGED <<builder, expired, result, readers, program>>

StartProgram(c, p) ==
  /\ At(c, "start") /\ cur = None /\ state[p] = "unused"
  /\ cur' = p /\ state' = [state EXCEPT ![p] = "live"]
  /\ Goto(c, "write")
  /\ UNCHANGED <<mu, closes, expired, result, readers, in, out>>

StartFails(c) ==
  /\ At(c, "start") /\ cur = None
  /\ Return(c, Error)
  /\ UNCHANGED <<cur, closes, readers, program>>

\* The request is in the pipe; then readLineLocked starts its goroutine.
Write(c) ==
  /\ At(c, "write") /\ state[cur] = "live"
  /\ in' = [in EXCEPT ![cur] = Append(@, c)]
  /\ reader' = [reader EXCEPT ![c] = "spawned"]
  /\ Goto(c, "select")
  /\ UNCHANGED <<builder, expired, result, done, panicked, state, out>>

WriteFails(c) ==
  /\ At(c, "write") /\ state[cur] # "live"
  /\ CloseLocked
  /\ Return(c, Error)
  /\ UNCHANGED <<closes, readers, in, out>>

\* Mutant of SelectTimeout: the program is left running for the next Build.
SelectTimeoutKeeps(c) ==
  /\ At(c, "select") /\ c \in expired
  /\ Return(c, Error)
  /\ UNCHANGED <<cur, closes, readers, program>>

\* Mutant of SelectTimeout: the context is not looked at.
SelectTimeoutNever(c) == FALSE /\ UNCHANGED vars

\* case <-ctx.Done(), taken or not when the line is there too.
SelectTimeout(c) ==
  /\ At(c, "select") /\ c \in expired
  /\ CloseLocked
  /\ Return(c, Error)
  /\ UNCHANGED <<closes, readers, in, out>>

\* case result := <-done: a line that does not decode is an error of this
\* Build alone.
SelectLine(c) ==
  /\ At(c, "select") /\ done[c] # <<>> /\ done[c][1] # Error
  /\ \E r \in {done[c][1], Error} : Return(c, r)
  /\ done' = [done EXCEPT ![c] = <<>>]
  /\ UNCHANGED <<cur, closes, reader, panicked, program>>

SelectError(c) ==
  /\ At(c, "select") /\ done[c] = <<Error>>
  /\ CloseLocked
  /\ Return(c, Error)
  /\ done' = [done EXCEPT ![c] = <<>>]
  /\ UNCHANGED <<closes, reader, panicked, in, out>>

\* Close, of the adapter or of the venue.
Close ==
  /\ ~panicked /\ mu = None /\ closes < MaxCloses
  /\ CloseLocked
  /\ closes' = closes + 1
  /\ UNCHANGED <<mu, build, readers, in, out>>

-----------------------------------------------------------------------------
(* The reader goroutine                                                    *)

\* b.stdout is loaded here: it may have been cleared, or be a newer program's.
ReaderRuns(c) ==
  /\ ~panicked /\ reader[c] = "spawned"
  /\ IF cur = None THEN panicked' = TRUE /\ UNCHANGED reader
     ELSE reader' = [reader EXCEPT ![c] = cur] /\ UNCHANGED panicked
  /\ UNCHANGED <<builder, build, done, program>>

ReaderSends(c, r) ==
  /\ done' = [done EXCEPT ![c] = <<r>>]
  /\ reader' = [reader EXCEPT ![c] = "done"]

ReadLine(c) ==
  /\ ~panicked /\ reader[c] \in Programs
  /\ LET p == reader[c] IN
     /\ out[p] # <<>>
     /\ ReaderSends(c, Line(Head(out[p])))
     /\ out' = [out EXCEPT ![p] = Tail(@)]
  /\ UNCHANGED <<builder, build, panicked, state, in>>

\* End of file: cmd.Wait closes the pipe when the process has ended, whether
\* or not everything in it has been read.
ReadFails(c) ==
  /\ ~panicked /\ reader[c] \in Programs /\ state[reader[c]] # "live"
  /\ ReaderSends(c, Error)
  /\ UNCHANGED <<builder, build, panicked, program>>

-----------------------------------------------------------------------------
(* The program                                                             *)

Respond(p) ==
  /\ ~panicked /\ state[p] = "live" /\ in[p] # <<>>
  /\ in' = [in EXCEPT ![p] = Tail(@)]
  /\ out' = [out EXCEPT ![p] = Append(@, Head(in[p]))]
  /\ UNCHANGED <<builder, build, readers, state>>

Exit(p) ==
  /\ ~panicked /\ state[p] = "live"
  /\ state' = [state EXCEPT ![p] = "exited"]
  /\ UNCHANGED <<builder, build, readers, in, out>>

BuildStep(c) ==
  \/ Lock(c) \/ Started(c) \/ (\E p \in Programs : StartProgram(c, p)) \/ StartFails(c)
  \/ Write(c) \/ WriteFails(c) \/ SelectTimeout(c) \/ SelectLine(c) \/ SelectError(c)

ReaderStep(c) == ReaderRuns(c) \/ ReadLine(c) \/ ReadFails(c)

Next ==
  \/ \E c \in Calls : Call(c) \/ Deadline(c) \/ BuildStep(c) \/ ReaderStep(c)
  \/ \E p \in Programs : Respond(p) \/ Exit(p)
  \/ Close

Spec == Init /\ [][Next]_vars

\* b.mu is handed over in turn (sync.Mutex does not starve), goroutines that
\* can run do, and time passes; nothing is assumed of the program.
FairSpec ==
  /\ Spec
  /\ \A c \in Calls :
       /\ SF_vars(Lock(c)) /\ WF_vars(BuildStep(c)) /\ WF_vars(ReaderStep(c))
       /\ WF_vars(Deadline(c))

-----------------------------------------------------------------------------
(* Properties                                                              *)

\* Types of the builder, its calls, their readers and the programs.
TypeOK ==
  /\ mu \in Calls \cup {None} /\ cur \in Programs \cup {None}
  /\ pc \in [Calls -> {"idle", "lock", "start", "write", "select", "returned"}]
  /\ \A c \in Calls : pc[c] \in {"write", "select"} => cur # None
  /\ expired \subseteq Calls
  /\ reader \in [Calls -> {"none", "spawned", "done"} \cup Programs]
  /\ done \in [Calls -> Seq([line : Calls \cup {None}])]
  /\ result \in [Calls -> Seq([line : Calls \cup {None}])]
  /\ state \in [Programs -> {"unused", "live", "exited", "killed"}]
  /\ in \in [Programs -> Seq(Calls)] /\ out \in [Programs -> Seq(Calls)]
  /\ closes \in Nat /\ panicked \in BOOLEAN

\* No Build is given another one's payload: signed orders do not slip by one
\* after a timeout, a stale reader or a restart (command.go:103-118).
AnswersOwn == \A c \in Calls : result[c] # <<>> => result[c][1] \in {Line(c), Error}

\* However Builds end, no program is left behind but the one the next Build
\* will use, and that one owes nothing (command.go:103, 109, 164).
NothingLeftRunning ==
  \A p \in Programs : state[p] = "live" =>
    /\ p = cur
    /\ mu = None => in[p] = <<>> /\ out[p] = <<>>

\* The Build between its lock and its return is the one that holds b.mu.
HoldsLock == \A c \in Calls : (mu = c) <=> pc[c] \in {"start", "write", "select"}

\* No process runs but the current one, which has been started; a process
\* that has not been has empty pipes.
OnlyCurrent ==
  /\ \A p \in Programs : state[p] = "live" => p = cur
  /\ cur # None => state[cur] # "unused"
  /\ \A p \in Programs : state[p] = "unused" => in[p] = <<>> /\ out[p] = <<>>

\* A Build has no reader before its select, and its channel is empty until
\* the reader has sent.
ReaderOfBuild == \A c \in Calls :
  /\ pc[c] \in {"idle", "lock", "start", "write"} => reader[c] = "none"
  /\ pc[c] # "returned" /\ reader[c] # "done" => done[c] = <<>>
  /\ pc[c] = "select" => reader[c] \in {"spawned", cur, "done"}

\* What the current program's pipes hold besides the Build at its select.
Owes(c) ==
  \/ in[cur] = <<>> /\ out[cur] = <<>>
  \/ in[cur] = <<c>> /\ out[cur] = <<>> /\ done[c] # <<Line(c)>>
  \/ in[cur] = <<>> /\ out[cur] = <<c>> /\ done[c] # <<Line(c)>>

\* The Build at its select is the only one the current program owes a line,
\* and the line it has been sent is its own.
LineAtSelect == \A c \in Calls : pc[c] = "select" =>
  done[c] \in {<<>>, <<Line(c)>>, <<Error>>} /\ Owes(c)

\* A program that no Build waits for owes nothing.
PipesEmpty ==
  cur # None /\ (\A c \in Calls : pc[c] # "select") => in[cur] = <<>> /\ out[cur] = <<>>

\* The inductive form of AnswersOwn and NothingLeftRunning.
BuilderInv == AnswersOwn /\ OnlyCurrent /\ ReaderOfBuild /\ LineAtSelect /\ PipesEmpty

\* A Build returns, also with a program that hangs: nobody holds b.mu past its
\* deadline (command.go:87-91, 162-165), unless the process has gone down.
BuildReturns == \A c \in Calls : pc[c] = "lock" ~> (pc[c] = "returned" \/ panicked)

\* "keeps a live benchmark collector process alive across retryable run,
\* cleanup, retention, or write failures" (CONTEXT.md:23-26): a Build that
\* times out is such a failure, and does not take the process down.
StaysAlive == ~panicked
=============================================================================
