------------------------- MODULE CommandBuilderProofs -------------------------
(***************************************************************************)
(* TLAPS proofs about CommandBuilder, for any number of Builds, builder    *)
(* processes and Closes: its types, and that however Builds time out and   *)
(* fail and programs exit, none is given the payload of another and no     *)
(* program is left running.  BuilderInv is the inductive invariant.        *)
(***************************************************************************)
EXTENDS CommandBuilder, TLAPS

\* A line is not an error: None is not a call.
LEMMA LineIsNoError == \A c \in Calls : Line(c) # Error
BY BuilderAssumption DEF Line, Error

\* A sequence that is not empty has a first element, of its type.
LEMMA FirstIn == ASSUME NEW S, NEW s \in Seq(S), s # <<>> PROVE s[1] \in S
OBVIOUS

\* The initial state is well typed.
LEMMA TypeInit == Init => TypeOK
<1> SUFFICES ASSUME Init PROVE TypeOK
  OBVIOUS
<1>1. /\ <<>> \in Seq([line : Calls \cup {None}])
      /\ <<>> \in Seq(Calls)
  OBVIOUS
<1>2. /\ done \in [Calls -> Seq([line : Calls \cup {None}])]
      /\ result \in [Calls -> Seq([line : Calls \cup {None}])]
      /\ in \in [Programs -> Seq(Calls)] /\ out \in [Programs -> Seq(Calls)]
  BY <1>1 DEF Init
<1>3. panicked \in BOOLEAN
  BY DEF Init
<1> QED
  BY <1>2, <1>3 DEF Init, TypeOK

\* What a Build returns is well typed.
LEMMA ReturnType ==
  ASSUME TypeOK, NEW c \in Calls, NEW r \in [line : Calls \cup {None}], Return(c, r)
  PROVE  /\ result' \in [Calls -> Seq([line : Calls \cup {None}])]
         /\ pc' = [pc EXCEPT ![c] = "returned"]
         /\ expired' \subseteq Calls /\ mu' = None
<1>1. <<r>> \in Seq([line : Calls \cup {None}])
  OBVIOUS
<1> QED
  BY <1>1 DEF TypeOK, Return, Goto

\* An error is a result.
LEMMA ErrorType == Error \in [line : Calls \cup {None}]
BY DEF Error

\* Every step of the builder, its readers and its programs keeps the types
\* and the lock.
LEMMA TypeNext == TypeOK /\ HoldsLock /\ [Next]_vars => TypeOK' /\ HoldsLock'
<1> SUFFICES ASSUME TypeOK, HoldsLock, [Next]_vars PROVE TypeOK' /\ HoldsLock'
  OBVIOUS
<1> USE BuilderAssumption DEF TypeOK, HoldsLock, builder, build, readers, program, At, Goto
<1>1. CASE UNCHANGED vars
  BY <1>1 DEF vars
<1>2. ASSUME NEW c \in Calls, Call(c) PROVE TypeOK' /\ HoldsLock'
  BY <1>2 DEF Call
<1>3. ASSUME NEW c \in Calls, Deadline(c) PROVE TypeOK' /\ HoldsLock'
  BY <1>3 DEF Deadline
<1>4. ASSUME NEW c \in Calls, Lock(c) PROVE TypeOK' /\ HoldsLock'
  BY <1>4 DEF Lock
<1>5. ASSUME NEW c \in Calls, Started(c) PROVE TypeOK' /\ HoldsLock'
  BY <1>5 DEF Started
<1>6. ASSUME NEW c \in Calls, NEW p \in Programs, StartProgram(c, p) PROVE TypeOK' /\ HoldsLock'
  BY <1>6 DEF StartProgram
<1>7. ASSUME NEW c \in Calls, StartFails(c) PROVE TypeOK' /\ HoldsLock'
  <2>1. Return(c, Error) /\ mu = c
    BY <1>7 DEF StartFails
  <2>2. /\ result' \in [Calls -> Seq([line : Calls \cup {None}])]
        /\ pc' = [pc EXCEPT ![c] = "returned"] /\ mu' = None /\ expired' \subseteq Calls
    BY <2>1, ErrorType, ReturnType
  <2> QED
    BY <1>7, <2>1, <2>2 DEF StartFails
<1>8. ASSUME NEW c \in Calls, Write(c) PROVE TypeOK' /\ HoldsLock'
  <2>1. cur \in Programs /\ Append(in[cur], c) \in Seq(Calls)
    BY <1>8 DEF Write
  <2> QED
    BY <1>8, <2>1 DEF Write
<1>9. ASSUME NEW c \in Calls, WriteFails(c) PROVE TypeOK' /\ HoldsLock'
  <2>1. Return(c, Error) /\ mu = c
    BY <1>9 DEF WriteFails
  <2>2. /\ result' \in [Calls -> Seq([line : Calls \cup {None}])]
        /\ pc' = [pc EXCEPT ![c] = "returned"] /\ mu' = None /\ expired' \subseteq Calls
    BY <2>1, ErrorType, ReturnType
  <2> QED
    BY <1>9, <2>1, <2>2 DEF WriteFails, CloseLocked, Dead
<1>10. ASSUME NEW c \in Calls, SelectTimeout(c) PROVE TypeOK' /\ HoldsLock'
  <2>1. Return(c, Error) /\ mu = c
    BY <1>10 DEF SelectTimeout
  <2>2. /\ result' \in [Calls -> Seq([line : Calls \cup {None}])]
        /\ pc' = [pc EXCEPT ![c] = "returned"] /\ mu' = None /\ expired' \subseteq Calls
    BY <2>1, ErrorType, ReturnType
  <2> QED
    BY <1>10, <2>1, <2>2 DEF SelectTimeout, CloseLocked, Dead
<1>11. ASSUME NEW c \in Calls, SelectLine(c) PROVE TypeOK' /\ HoldsLock'
  <2>1. done[c] \in Seq([line : Calls \cup {None}]) /\ done[c] # <<>> /\ mu = c
    BY <1>11 DEF SelectLine
  <2>2. done[c][1] \in [line : Calls \cup {None}]
    BY <2>1, FirstIn
  <2>3. PICK r \in {done[c][1], Error} : Return(c, r)
    BY <1>11 DEF SelectLine
  <2>4. r \in [line : Calls \cup {None}]
    BY <2>2, <2>3, ErrorType
  <2>5. <<>> \in Seq([line : Calls \cup {None}])
    OBVIOUS
  <2>6. done' \in [Calls -> Seq([line : Calls \cup {None}])]
    BY <1>11, <2>5 DEF SelectLine
  <2>7. /\ result' \in [Calls -> Seq([line : Calls \cup {None}])]
        /\ pc' = [pc EXCEPT ![c] = "returned"] /\ mu' = None /\ expired' \subseteq Calls
    BY <2>3, <2>4, ReturnType
  <2> QED
    BY <1>11, <2>1, <2>6, <2>7 DEF SelectLine
<1>12. ASSUME NEW c \in Calls, SelectError(c) PROVE TypeOK' /\ HoldsLock'
  <2>1. Return(c, Error) /\ mu = c
    BY <1>12 DEF SelectError
  <2>2. <<>> \in Seq([line : Calls \cup {None}])
    OBVIOUS
  <2>3. done' \in [Calls -> Seq([line : Calls \cup {None}])]
    BY <1>12, <2>2 DEF SelectError
  <2>4. /\ result' \in [Calls -> Seq([line : Calls \cup {None}])]
        /\ pc' = [pc EXCEPT ![c] = "returned"] /\ mu' = None /\ expired' \subseteq Calls
    BY <2>1, ErrorType, ReturnType
  <2> QED
    BY <1>12, <2>1, <2>3, <2>4 DEF SelectError, CloseLocked, Dead
<1>13. ASSUME NEW c \in Calls, ReaderRuns(c) PROVE TypeOK' /\ HoldsLock'
  BY <1>13 DEF ReaderRuns
<1>14. ASSUME NEW c \in Calls, ReadLine(c) PROVE TypeOK' /\ HoldsLock'
  <2> DEFINE p == reader[c]
  <2>1. p \in Programs /\ out[p] \in Seq(Calls) /\ out[p] # <<>>
    BY <1>14 DEF ReadLine
  <2>2. Tail(out[p]) \in Seq(Calls) /\ Head(out[p]) \in Calls
    BY <2>1
  <2>3. <<Line(Head(out[p]))>> \in Seq([line : Calls \cup {None}])
    BY <2>2 DEF Line
  <2>4. /\ done' \in [Calls -> Seq([line : Calls \cup {None}])]
        /\ reader' \in [Calls -> {"none", "spawned", "done"} \cup Programs]
        /\ out' \in [Programs -> Seq(Calls)]
    BY <1>14, <2>2, <2>3 DEF ReadLine, ReaderSends
  <2> QED
    BY <1>14, <2>4 DEF ReadLine
<1>15. ASSUME NEW c \in Calls, ReadFails(c) PROVE TypeOK' /\ HoldsLock'
  <2>1. <<Error>> \in Seq([line : Calls \cup {None}])
    BY ErrorType
  <2>2. /\ done' \in [Calls -> Seq([line : Calls \cup {None}])]
        /\ reader' \in [Calls -> {"none", "spawned", "done"} \cup Programs]
    BY <1>15, <2>1 DEF ReadFails, ReaderSends
  <2> QED
    BY <1>15, <2>2 DEF ReadFails
<1>16. ASSUME NEW p \in Programs, Respond(p) PROVE TypeOK' /\ HoldsLock'
  <2>1. in[p] \in Seq(Calls) /\ in[p] # <<>> /\ out[p] \in Seq(Calls)
    BY <1>16 DEF Respond
  <2>2. Tail(in[p]) \in Seq(Calls) /\ Append(out[p], Head(in[p])) \in Seq(Calls)
    BY <2>1
  <2> QED
    BY <1>16, <2>2 DEF Respond
<1>17. ASSUME NEW p \in Programs, Exit(p) PROVE TypeOK' /\ HoldsLock'
  BY <1>17 DEF Exit
<1>18. CASE Close
  <2>1. \A c \in Calls : pc[c] \notin {"write", "select"}
    BY <1>18 DEF Close
  <2>2. cur' = None /\ state' \in [Programs -> {"unused", "live", "exited", "killed"}]
    BY <1>18 DEF Close, CloseLocked, Dead
  <2>3. closes' \in Nat
    BY <1>18 DEF Close
  <2> QED
    BY <1>18, <2>1, <2>2, <2>3 DEF Close
<1> QED
  BY <1>1, <1>2, <1>3, <1>4, <1>5, <1>6, <1>7, <1>8, <1>9, <1>10, <1>11, <1>12,
     <1>13, <1>14, <1>15, <1>16, <1>17, <1>18 DEF Next, BuildStep, ReaderStep

\* The builder's state keeps its types.
THEOREM TypeCorrect == Spec => []TypeOK
<1>1. Init => HoldsLock
  BY BuilderAssumption DEF Init, HoldsLock
<1> QED
  BY <1>1, TypeInit, TypeNext, PTL DEF Spec

\* Every step keeps the inductive invariant: the one that could break it is a
\* stale reader, and all it can do is to take the line of a Build that will
\* then time out.
LEMMA BuilderNext ==
  TypeOK /\ HoldsLock /\ BuilderInv /\ [Next]_vars => BuilderInv'
<1> SUFFICES ASSUME TypeOK, HoldsLock, BuilderInv, [Next]_vars,
                    TypeOK', HoldsLock'
             PROVE  BuilderInv'
  BY TypeNext
<1> USE BuilderAssumption, LineIsNoError
    DEF BuilderInv, AnswersOwn, OnlyCurrent, ReaderOfBuild, LineAtSelect, Owes, PipesEmpty,
        HoldsLock, TypeOK, builder, build, readers, program, At, Goto
<1>1. CASE UNCHANGED vars
  BY <1>1 DEF vars
<1>2. ASSUME NEW c \in Calls, Call(c) PROVE BuilderInv'
  BY <1>2 DEF Call
<1>3. ASSUME NEW c \in Calls, Deadline(c) PROVE BuilderInv'
  BY <1>3 DEF Deadline
<1>4. ASSUME NEW c \in Calls, Lock(c) PROVE BuilderInv'
  BY <1>4 DEF Lock
<1>5. ASSUME NEW c \in Calls, Started(c) PROVE BuilderInv'
  BY <1>5 DEF Started
<1>6. ASSUME NEW c \in Calls, NEW p \in Programs, StartProgram(c, p) PROVE BuilderInv'
  BY <1>6 DEF StartProgram
<1>7. ASSUME NEW c \in Calls, StartFails(c) PROVE BuilderInv'
  BY <1>7 DEF StartFails, Return
<1>8. ASSUME NEW c \in Calls, Write(c) PROVE BuilderInv'
  <2>1. mu = c /\ in[cur] = <<>> /\ out[cur] = <<>> /\ Append(<<>>, c) = <<c>>
    BY <1>8 DEF Write
  <2>2. AnswersOwn'
    BY <1>8, <2>1 DEF Write
  <2>3. OnlyCurrent'
    BY <1>8, <2>1 DEF Write
  <2>4. ReaderOfBuild'
    BY <1>8, <2>1 DEF Write
  <2>5. LineAtSelect'
    <3>1. \A d \in Calls : pc'[d] = "select" => d = c
      BY <1>8, <2>1 DEF Write
    <3>2. done[c] = <<>> /\ done' = done /\ cur' = cur /\ out' = out /\ cur \in Programs
      BY <1>8 DEF Write
    <3>3. in'[cur] = <<c>>
      BY <1>8, <2>1, <3>2 DEF Write
    <3>4. <<>> # <<Line(c)>>
      OBVIOUS
    <3> QED
      BY <2>1, <3>1, <3>2, <3>3, <3>4
  <2>6. PipesEmpty'
    BY <1>8, <2>1 DEF Write
  <2> QED
    BY <2>2, <2>3, <2>4, <2>5, <2>6
<1>9. ASSUME NEW c \in Calls, WriteFails(c) PROVE BuilderInv'
  BY <1>9 DEF WriteFails, Return, CloseLocked, Dead
<1>10. ASSUME NEW c \in Calls, SelectTimeout(c) PROVE BuilderInv'
  BY <1>10 DEF SelectTimeout, Return, CloseLocked, Dead
<1>11. ASSUME NEW c \in Calls, SelectLine(c) PROVE BuilderInv'
  <2>1. done[c] = <<Line(c)>> /\ in[cur] = <<>> /\ out[cur] = <<>> /\ mu = c
    <3>1. mu = c /\ done[c] \in {<<>>, <<Line(c)>>, <<Error>>} /\ done[c] # <<>> /\ done[c][1] # Error
      BY <1>11 DEF SelectLine
    <3>2. <<Error>>[1] = Error
      OBVIOUS
    <3>3. done[c] = <<Line(c)>>
      BY <3>1, <3>2
    <3> QED
      BY <1>11, <3>1, <3>3 DEF SelectLine
  <2>2. AnswersOwn'
    BY <1>11, <2>1 DEF SelectLine, Return
  <2>3. OnlyCurrent'
    BY <1>11, <2>1 DEF SelectLine, Return
  <2>4. ReaderOfBuild'
    BY <1>11, <2>1 DEF SelectLine, Return
  <2>5. LineAtSelect'
    BY <1>11, <2>1 DEF SelectLine, Return
  <2>6. PipesEmpty'
    BY <1>11, <2>1 DEF SelectLine, Return
  <2> QED
    BY <2>2, <2>3, <2>4, <2>5, <2>6
<1>12. ASSUME NEW c \in Calls, SelectError(c) PROVE BuilderInv'
  BY <1>12 DEF SelectError, Return, CloseLocked, Dead
<1>13. ASSUME NEW c \in Calls, ReaderRuns(c) PROVE BuilderInv'
  BY <1>13 DEF ReaderRuns
<1>14. ASSUME NEW c \in Calls, ReadLine(c) PROVE BuilderInv'
  <2>2. AnswersOwn'
    BY <1>14 DEF ReadLine, ReaderSends
  <2>3. OnlyCurrent'
    BY <1>14 DEF ReadLine, ReaderSends
  <2>4. ReaderOfBuild'
    BY <1>14 DEF ReadLine, ReaderSends
  <2>5. LineAtSelect'
    <3> SUFFICES ASSUME NEW d \in Calls, pc'[d] = "select"
                 PROVE  done'[d] \in {<<>>, <<Line(d)>>, <<Error>>} /\ Owes(d)'
      OBVIOUS
    <3>1. CASE reader[c] # cur
      <4>1. d # c /\ pc[d] = "select" /\ cur \in Programs
        BY <1>14, <3>1 DEF ReadLine
      <4>2. /\ done'[d] = done[d] /\ cur' = cur
            /\ in'[cur] = in[cur] /\ out'[cur] = out[cur]
        BY <1>14, <3>1, <4>1 DEF ReadLine, ReaderSends
      <4> QED
        BY <4>1, <4>2
    <3>2. CASE reader[c] = cur
      <4>1. in[cur] = <<>> /\ out[cur] = <<d>> /\ done[d] # <<Line(d)>>
        BY <1>14, <3>2 DEF ReadLine
      <4>2. Tail(<<d>>) = <<>> /\ Head(<<d>>) = d
        OBVIOUS
      <4>3. /\ in'[cur] = <<>> /\ out'[cur] = <<>> /\ cur' = cur
            /\ done' = [done EXCEPT ![c] = <<Line(d)>>]
        BY <1>14, <3>2, <4>1, <4>2 DEF ReadLine, ReaderSends
      <4> QED
        BY <1>14, <3>2, <4>3 DEF ReadLine
    <3> QED
      BY <3>1, <3>2
  <2>6. PipesEmpty'
    BY <1>14 DEF ReadLine, ReaderSends
  <2> QED
    BY <2>2, <2>3, <2>4, <2>5, <2>6
<1>15. ASSUME NEW c \in Calls, ReadFails(c) PROVE BuilderInv'
  <2>1. <<Error>> # <<>> /\ <<Error>> # <<Line(c)>>
    OBVIOUS
  <2>2. AnswersOwn'
    BY <1>15, <2>1 DEF ReadFails, ReaderSends
  <2>3. OnlyCurrent'
    BY <1>15, <2>1 DEF ReadFails, ReaderSends
  <2>4. ReaderOfBuild'
    BY <1>15, <2>1 DEF ReadFails, ReaderSends
  <2>5. LineAtSelect'
    BY <1>15, <2>1 DEF ReadFails, ReaderSends
  <2>6. PipesEmpty'
    BY <1>15, <2>1 DEF ReadFails, ReaderSends
  <2> QED
    BY <2>2, <2>3, <2>4, <2>5, <2>6
<1>16. ASSUME NEW p \in Programs, Respond(p) PROVE BuilderInv'
  <2>2. AnswersOwn'
    BY <1>16 DEF Respond
  <2>3. OnlyCurrent'
    BY <1>16 DEF Respond
  <2>4. ReaderOfBuild'
    BY <1>16 DEF Respond
  <2>5. LineAtSelect'
    <3>1. CASE p # cur
      BY <1>16, <3>1 DEF Respond
    <3>2. CASE p = cur
      <4> SUFFICES ASSUME NEW d \in Calls, pc'[d] = "select"
                   PROVE  done'[d] \in {<<>>, <<Line(d)>>, <<Error>>} /\ Owes(d)'
        OBVIOUS
      <4>1. in[p] = <<d>> /\ out[p] = <<>> /\ done[d] # <<Line(d)>>
        BY <1>16, <3>2 DEF Respond
      <4>2. Tail(<<d>>) = <<>> /\ Head(<<d>>) = d /\ Append(<<>>, d) = <<d>>
        OBVIOUS
      <4>3. in'[p] = <<>> /\ out'[p] = <<d>> /\ done' = done /\ cur' = cur
        BY <1>16, <4>1, <4>2 DEF Respond
      <4> QED
        BY <1>16, <3>2, <4>1, <4>3 DEF Respond
    <3> QED
      BY <3>1, <3>2
  <2>6. PipesEmpty'
    BY <1>16 DEF Respond
  <2> QED
    BY <2>2, <2>3, <2>4, <2>5, <2>6
<1>17. ASSUME NEW p \in Programs, Exit(p) PROVE BuilderInv'
  <2>2. AnswersOwn'
    BY <1>17 DEF Exit
  <2>3. OnlyCurrent'
    BY <1>17 DEF Exit
  <2>4. ReaderOfBuild'
    BY <1>17 DEF Exit
  <2>5. LineAtSelect'
    BY <1>17 DEF Exit
  <2>6. PipesEmpty'
    BY <1>17 DEF Exit
  <2> QED
    BY <2>2, <2>3, <2>4, <2>5, <2>6
<1>18. CASE Close
  BY <1>18 DEF Close, CloseLocked, Dead
<1> QED
  BY <1>1, <1>2, <1>3, <1>4, <1>5, <1>6, <1>7, <1>8, <1>9, <1>10, <1>11, <1>12,
     <1>13, <1>14, <1>15, <1>16, <1>17, <1>18 DEF Next, BuildStep, ReaderStep

\* The initial state: no program, no line.
LEMMA BuilderInit == Init => HoldsLock /\ BuilderInv
<1> SUFFICES ASSUME Init PROVE HoldsLock /\ BuilderInv
  OBVIOUS
<1>1. HoldsLock
  BY BuilderAssumption DEF Init, HoldsLock
<1>2. AnswersOwn /\ OnlyCurrent /\ ReaderOfBuild /\ LineAtSelect /\ PipesEmpty
  BY DEF Init, AnswersOwn, OnlyCurrent, ReaderOfBuild, LineAtSelect, PipesEmpty
<1> QED
  BY <1>1, <1>2 DEF BuilderInv

\* The inductive invariant gives both properties: while nobody holds b.mu, no
\* Build is at its select.
LEMMA BuilderImplies == HoldsLock /\ BuilderInv => AnswersOwn /\ NothingLeftRunning
<1> SUFFICES ASSUME HoldsLock, BuilderInv PROVE NothingLeftRunning
  BY DEF BuilderInv
<1> SUFFICES ASSUME NEW p \in Programs, state[p] = "live"
             PROVE  p = cur /\ (mu = None => in[p] = <<>> /\ out[p] = <<>>)
  BY DEF NothingLeftRunning
<1>1. p = cur /\ cur # None
  BY BuilderAssumption DEF BuilderInv, OnlyCurrent
<1>2. ASSUME mu = None PROVE in[p] = <<>> /\ out[p] = <<>>
  <2>1. \A c \in Calls : pc[c] # "select"
    BY <1>2, BuilderAssumption DEF HoldsLock
  <2> QED
    BY <1>1, <2>1 DEF BuilderInv, PipesEmpty
<1> QED
  BY <1>1, <1>2

\* However Builds time out, fail and queue for b.mu, and whatever the programs
\* do, no Build returns a line that answers another request.
THEOREM LinesNotSwapped == Spec => []AnswersOwn
BY TypeInit, BuilderInit, TypeNext, BuilderNext, BuilderImplies, PTL DEF Spec

\* No program survives the Build that gave up on it, and the one that is kept
\* for the next Build owes no line.
THEOREM ProgramsCleared == Spec => []NothingLeftRunning
BY TypeInit, BuilderInit, TypeNext, BuilderNext, BuilderImplies, PTL DEF Spec
=============================================================================
