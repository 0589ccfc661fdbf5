-------------------------- MODULE OrderSocketProofs --------------------------
(* Proofs about OrderSocket, for any number of calls and connections and any *)
(* settings: whoever sends gets its own answer, and a connection, its socket *)
(* and its heartbeat loop come and go together.                              *)
EXTENDS OrderSocket, TLAPS

Inv == TypeOK /\ LockInv /\ LineInv /\ ConnInv

Holding == {"ready", "greet", "beat", "ensured", "reading"}

\* Nothing has been dialled.
LEMMA SocketInit == Init => Inv
<1> SUFFICES ASSUME Init PROVE Inv
  OBVIOUS
<1>1. None \notin Conns /\ Nobody \notin Calls BY SocketAssumption DEF None, Nobody, Conns
<1>2. <<>> \in Seq(Calls \union {"hello", "beat"}) OBVIOUS
<1>3. TypeOK BY <1>2 DEF Init, TypeOK
<1>4. LockInv BY <1>1 DEF Init, LockInv
<1>5. LineInv BY DEF Init, LineInv, AnswersOwn, Quiet
<1>6. ConnInv BY <1>1 DEF Init, ConnInv, SocketKept, OneHeartbeat, NoSocketLeft
<1> QED BY <1>3, <1>4, <1>5, <1>6 DEF Inv

\* Who goes on holds the lock.
LEMMA HolderIs ==
  ASSUME Inv, NEW d \in Calls, pc[d] \in Holding
  PROVE  mu = d /\ mu # Nobody /\ \A e \in Calls \ {d} : pc[e] \notin Holding
BY SocketAssumption DEF Inv, LockInv, Holding, Nobody

-----------------------------------------------------------------------------
(* The lock                                                                 *)

\* The lock's holder goes on, with a connection or one it has dialled.
LEMMA LockGoes ==
  ASSUME Inv, NEW d \in Calls, pc[d] \in Holding, NEW where \in Holding, Goes(d, where),
         where \in {"beat", "ensured", "reading"} => conn' # None,
         where = "greet" => dialled' # None,
         dialled' # None => conn' = None /\ where = "greet"
  PROVE  LockInv'
<1>1. mu = d /\ mu # Nobody /\ \A e \in Calls \ {d} : pc[e] \notin Holding BY HolderIs
<1>2. pc' = [pc EXCEPT ![d] = where] /\ mu' = mu /\ DOMAIN pc = Calls
  BY DEF Goes, Inv, TypeOK
<1> QED BY <1>1, <1>2 DEF Inv, LockInv, Holding

\* The lock's holder lets it go, and leaves nothing dialled.
LEMMA LockLeft ==
  ASSUME Inv, NEW d \in Calls, pc[d] \in Holding, NEW where \in {"between", "done"},
         mu' = Nobody, pc' = [pc EXCEPT ![d] = where], dialled' = None
  PROVE  LockInv'
<1>1. mu = d /\ mu # Nobody /\ \A e \in Calls \ {d} : pc[e] \notin Holding BY HolderIs
<1>2. DOMAIN pc = Calls /\ Nobody \notin Calls BY SocketAssumption DEF Inv, TypeOK, Nobody
<1> QED BY <1>1, <1>2 DEF LockInv, Holding

\* A step that takes no call further: while it changes the connection, nobody
\* holds the lock.
LEMMA LockFrame ==
  ASSUME Inv, UNCHANGED <<mu, pc, dialled>>, conn' = conn \/ mu = Nobody
  PROVE  LockInv'
BY SocketAssumption DEF Inv, LockInv, Nobody

\* Every step keeps the lock.
LEMMA LockNext == Inv /\ [Next]_vars => LockInv'
<1> SUFFICES ASSUME Inv, [Next]_vars PROVE LockInv'
  OBVIOUS
<1> USE DEF calls, client, net
<1>1. ASSUME NEW d \in Calls, Begin(d) PROVE LockInv'
  <2>1. /\ pc[d] \notin Holding /\ pc' = [pc EXCEPT ![d] = "want"] /\ DOMAIN pc = Calls
        /\ UNCHANGED <<mu, conn, dialled>>
    BY <1>1 DEF Begin, Holding, Inv, TypeOK
  <2>2. mu # d BY <2>1 DEF Inv, LockInv, Holding
  <2>3. \A e \in Calls : pc'[e] = pc[e] \/ (e = d /\ pc'[e] = "want") BY <2>1
  <2>4. mu \in Calls \union {Nobody} BY DEF Inv, TypeOK
  <2> QED BY <2>1, <2>2, <2>3, <2>4 DEF Inv, LockInv, Holding
<1>2. ASSUME NEW d \in Calls, Lock(d) PROVE LockInv'
  <2>1. /\ mu = Nobody /\ mu' = d /\ pc' = [pc EXCEPT ![d] = "ready"] /\ DOMAIN pc = Calls
        /\ UNCHANGED <<conn, dialled>> /\ Nobody \notin Calls
    BY <1>2, SocketAssumption DEF Lock, Inv, TypeOK, Nobody
  <2>2. dialled = None BY <2>1 DEF Inv, LockInv
  <2>3. \A e \in Calls : pc[e] \notin Holding BY <2>1 DEF Inv, LockInv, Holding
  <2> QED BY <2>1, <2>2, <2>3 DEF LockInv, Holding
<1>3. ASSUME NEW d \in Calls, Held(d) PROVE LockInv'
  <2>0. /\ conn # None => dialled = None
        /\ dialled # None => pc[mu] = "greet" /\ mu # Nobody
        /\ pc[d] \in {"beat", "ensured", "reading"} => conn # None
        /\ pc[d] = "greet" => dialled # None
        /\ None \notin Conns
    BY <1>3 DEF Inv, LockInv, None, Conns
  <2>1. ASSUME NEW c \in Conns, Dial(d, c) PROVE LockInv'
    BY <2>0, <2>1, LockGoes DEF Dial, Holding
  <2>2. CASE DialFails(d) BY <2>0, <2>2, HolderIs, LockLeft DEF DialFails, Ends, Holding
  <2>3. CASE Install(d) BY <2>0, <2>3, LockGoes DEF Install, Holding
  <2>4. CASE GreetFails(d) BY <2>4, LockLeft DEF GreetFails, Ends, Holding
  <2>5. CASE Beat(d) BY <2>0, <2>5, LockGoes DEF Beat, Holding
  <2>6. CASE BeatAnswered(d) BY <2>0, <2>6, LockGoes DEF BeatAnswered, Holding
  <2>7. CASE ControlBeat(d) BY <2>0, <2>7, LockGoes DEF ControlBeat, Holding
  <2>8. CASE BeatFails(d) BY <2>0, <2>8, HolderIs, LockGoes DEF BeatFails, CloseLocked, Holding
  <2>9. CASE Ensured(d) BY <2>0, <2>9, LockLeft DEF Ensured, Ready, Holding
  <2>10. CASE Write(d) BY <2>0, <2>10, LockGoes DEF Write, Ready, Holding
  <2>11. CASE WriteFails(d) BY <2>0, <2>11, LockLeft DEF WriteFails, Ready, Ends, CloseLocked, Holding
  <2>12. CASE Read(d) BY <2>0, <2>12, LockLeft DEF Read, Ends, Holding
  <2>13. CASE ReadFails(d) BY <2>0, <2>13, LockLeft DEF ReadFails, Ends, CloseLocked, Holding
  <2> QED
    BY <1>3, <2>1, <2>2, <2>3, <2>4, <2>5, <2>6, <2>7, <2>8, <2>9, <2>10, <2>11, <2>12, <2>13 DEF Held
<1>4. ASSUME NEW c \in Conns, LoopTick(c) \/ LoopStep(c) \/ Answer(c) \/ Die(c) PROVE LockInv'
  BY <1>4, LockFrame
  DEF LoopTick, LoopStep, LoopEnds, LoopSkips, LoopBeats, LoopFails, Answer, Die
<1>5. CASE Close \/ Idle \/ UNCHANGED vars
  BY <1>5, LockFrame DEF Close, CloseLocked, Idle, vars
<1> QED BY <1>1, <1>2, <1>3, <1>4, <1>5 DEF Next

-----------------------------------------------------------------------------
(* The line                                                                 *)

\* A message is sent on a quiet line, or lost with the socket; and one is all that
\* can come back.
LEMMA Carried ==
  ASSUME NEW c \in Conns, NEW m,
         owed \in [Conns -> Seq(Calls \union {"hello", "beat"})],
         inbox \in [Conns -> Seq(Calls \union {"hello", "beat"})]
  PROVE  /\ Quiet(c) /\ owed' = [owed EXCEPT ![c] = Append(@, m)] /\ inbox' = inbox =>
              Carries(c, m)'
         /\ Carries(c, m) /\ inbox[c] # <<>> =>
              /\ Head(inbox[c]) = m
              /\ inbox' = [inbox EXCEPT ![c] = Tail(@)] /\ owed' = owed => Quiet(c)'
         /\ Carries(c, m) /\ owed[c] # <<>> /\ owed' = [owed EXCEPT ![c] = Tail(@)]
            /\ inbox' = [inbox EXCEPT ![c] = Append(@, Head(owed[c]))] => Carries(c, m)'
<1>1. Append(<<>>, m) = <<m>> /\ Tail(<<m>>) = <<>> /\ Head(<<m>>) = m /\ <<m>> # <<>> OBVIOUS
<1>2. DOMAIN owed = Conns /\ DOMAIN inbox = Conns OBVIOUS
<1>3. ASSUME Quiet(c), owed' = [owed EXCEPT ![c] = Append(@, m)], inbox' = inbox PROVE Carries(c, m)'
  <2>1. owed'[c] = <<m>> /\ inbox'[c] = <<>> BY <1>1, <1>2, <1>3, Zenon DEF Quiet
  <2> QED BY <2>1 DEF Carries
<1>4. ASSUME Carries(c, m), inbox[c] # <<>> PROVE inbox[c] = <<m>> /\ owed[c] = <<>>
  BY <1>4 DEF Carries, Quiet
<1>5. ASSUME Carries(c, m), inbox[c] # <<>>, inbox' = [inbox EXCEPT ![c] = Tail(@)], owed' = owed
      PROVE  Quiet(c)'
  <2>1. inbox'[c] = <<>> /\ owed'[c] = <<>> BY <1>1, <1>2, <1>4, <1>5, Zenon
  <2> QED BY <2>1 DEF Quiet
<1>6. ASSUME Carries(c, m), owed[c] # <<>>, owed' = [owed EXCEPT ![c] = Tail(@)],
             inbox' = [inbox EXCEPT ![c] = Append(@, Head(owed[c]))]
      PROVE  Carries(c, m)'
  <2>1. owed[c] = <<m>> /\ inbox[c] = <<>> BY <1>6 DEF Carries, Quiet
  <2>2. owed'[c] = <<>> /\ inbox'[c] = <<m>> BY <1>1, <1>2, <1>6, <2>1, Zenon
  <2> QED BY <2>2 DEF Carries
<1>7. Carries(c, m) /\ inbox[c] # <<>> => Head(inbox[c]) = m BY <1>1, <1>4
<1> QED BY <1>3, <1>5, <1>6, <1>7

\* The line of a connection that does not change.
LEMMA SameLine ==
  ASSUME NEW c, owed'[c] = owed[c], inbox'[c] = inbox[c]
  PROVE  /\ Quiet(c)' = Quiet(c) /\ \A m : Carries(c, m)' = Carries(c, m)
BY DEF Quiet, Carries

\* The lock's holder goes on or returns, and with it what the line may carry.
LEMMA LineGoes ==
  ASSUME Inv, NEW d \in Calls, pc[d] \in Holding, NEW where \in Holding \union {"between", "done"},
         pc' = [pc EXCEPT ![d] = where],
         mu' = IF where \in Holding THEN mu ELSE Nobody,
         \A e \in Calls \ {d} : got'[e] = got[e], where = "done" => got'[d] \in {d, "error"},
         \A c \in Conns : sock'[c] = "fresh" =>
           sock[c] = "fresh" /\ owed'[c] = owed[c] /\ inbox'[c] = inbox[c],
         where = "beat" => Carries(conn, "beat")',
         where = "reading" => Carries(conn, d)',
         where = "greet" => (IF cfg.greets THEN Carries(dialled, "hello") ELSE Quiet(dialled))',
         conn' # None /\ where \notin {"beat", "reading"} => Quiet(conn)'
  PROVE  LineInv'
<1>0. DOMAIN pc = Calls /\ DOMAIN got = Calls /\ Nobody \notin Calls
  BY SocketAssumption DEF Inv, TypeOK, Nobody
<1>1. mu = d /\ \A e \in Calls \ {d} : pc[e] \notin Holding BY HolderIs
<1>2. \A e \in Calls \ {d} : pc'[e] = pc[e] /\ got'[e] = got[e] BY <1>0
<1>3. pc'[d] = where BY <1>0
<1>4. AnswersOwn' BY <1>2, <1>3 DEF AnswersOwn, Inv, LineInv
<1>5. \A c \in Conns : sock'[c] = "fresh" => Quiet(c)'
  BY SameLine DEF Inv, LineInv
<1>6. conn' # None /\ ~(mu' # Nobody /\ pc'[mu'] \in {"beat", "reading"}) => Quiet(conn)'
  BY <1>0, <1>1, <1>3 DEF Holding
<1>7. ASSUME NEW e \in Calls
      PROVE  /\ pc'[e] = "beat" => Carries(conn, "beat")'
             /\ pc'[e] = "reading" => Carries(conn, e)'
             /\ pc'[e] = "greet" => (IF cfg.greets THEN Carries(dialled, "hello") ELSE Quiet(dialled))'
  BY <1>1, <1>2, <1>3 DEF Holding
<1> QED BY <1>4, <1>5, <1>6, <1>7 DEF LineInv

\* A step of nobody's that leaves the line, or gives the connection up.
LEMMA LineFrame ==
  ASSUME Inv, UNCHANGED <<cfg, calls, dialled, owed, inbox>>,
         conn' = conn \/ (conn' = None /\ mu = Nobody),
         \A c \in Conns : sock'[c] = "fresh" => sock[c] = "fresh"
  PROVE  LineInv'
<1>1. mu = Nobody => \A d \in Calls : pc[d] \notin Holding
  BY SocketAssumption DEF Inv, LockInv, Holding, Nobody
<1> QED BY <1>1 DEF Inv, LineInv, AnswersOwn, Quiet, Carries, calls, Holding

\* Every step keeps the line.
LEMMA LineNext == Inv /\ [Next]_vars => LineInv'
<1> SUFFICES ASSUME Inv, [Next]_vars PROVE LineInv'
  OBVIOUS
<1> USE DEF calls, client, net
<1>0. /\ DOMAIN pc = Calls /\ DOMAIN got = Calls /\ DOMAIN sock = Conns /\ Nobody \notin Calls
      /\ None \notin Conns /\ {conn, dialled} \subseteq Conns \union {None}
      /\ owed \in [Conns -> Seq(Calls \union {"hello", "beat"})]
      /\ inbox \in [Conns -> Seq(Calls \union {"hello", "beat"})]
  BY SocketAssumption DEF Inv, TypeOK, Nobody, None, Conns
<1>1. ASSUME NEW d \in Calls, Begin(d) PROVE LineInv'
  <2>1. /\ pc' = [pc EXCEPT ![d] = "want"] /\ pc[d] \notin Holding
        /\ UNCHANGED <<cfg, mu, got, conn, dialled, sock, owed, inbox>>
    BY <1>1 DEF Begin, Holding
  <2>2. \A e \in Calls : pc'[e] = pc[e] \/ pc'[e] = "want" BY <1>0, <2>1
  <2>3. mu # Nobody => mu \in Calls /\ pc'[mu] = pc[mu]
    <3>1. mu # Nobody => mu \in Calls /\ mu # d BY <2>1 DEF Inv, TypeOK, LockInv, Holding
    <3> QED BY <1>0, <2>1, <3>1
  <2> QED BY <2>1, <2>2, <2>3 DEF Inv, LineInv, AnswersOwn, Quiet, Carries
<1>2. ASSUME NEW d \in Calls, Lock(d) PROVE LineInv'
  <2>1. /\ pc' = [pc EXCEPT ![d] = "ready"] /\ mu = Nobody /\ mu' = d
        /\ UNCHANGED <<cfg, got, conn, dialled, sock, owed, inbox>>
    BY <1>2 DEF Lock
  <2>2. \A e \in Calls : pc'[e] = pc[e] \/ pc'[e] = "ready" BY <1>0, <2>1
  <2>3. pc'[mu'] = "ready" BY <1>0, <2>1
  <2> QED BY <2>1, <2>2, <2>3 DEF Inv, LineInv, AnswersOwn, Quiet, Carries
<1>3. ASSUME NEW d \in Calls, Held(d) PROVE LineInv'
  <2>1. /\ pc[d] \in Holding => mu = d /\ mu # Nobody
        /\ pc[d] \in {"beat", "ensured", "reading"} => conn \in Conns
        /\ pc[d] = "greet" => dialled \in Conns
        /\ conn \in Conns /\ pc[d] \in {"ready", "ensured"} => Quiet(conn)
        /\ pc[d] = "beat" => Carries(conn, "beat")
        /\ pc[d] = "reading" => Carries(conn, d)
        /\ pc[d] = "greet" => IF cfg.greets THEN Carries(dialled, "hello") ELSE Quiet(dialled)
        /\ \A c \in Conns : sock[c] = "fresh" => Quiet(c) /\ c # conn /\ c # dialled
    <3>1. /\ pc[d] \in Holding => mu = d /\ mu # Nobody
          /\ pc[d] \in {"beat", "ensured", "reading"} => conn \in Conns
          /\ pc[d] = "greet" => dialled \in Conns
      BY <1>0, HolderIs DEF Inv, LockInv
    <3>2. conn \in Conns /\ pc[d] \in {"ready", "ensured"} => Quiet(conn)
      BY <1>0, <3>1 DEF Inv, LineInv, Holding
    <3> QED BY <3>1, <3>2 DEF Inv, LineInv, ConnInv
  <2>2. ASSUME NEW c \in Conns, Dial(d, c) PROVE LineInv'
    <3>1. /\ pc[d] = "ready" /\ sock[c] = "fresh" /\ Quiet(c) /\ conn = None /\ conn' = None
          /\ dialled' = c /\ sock' = [sock EXCEPT ![c] = "open"] /\ inbox' = inbox
          /\ owed' = [owed EXCEPT ![c] = IF cfg.greets THEN <<"hello">> ELSE <<>>]
          /\ pc' = [pc EXCEPT ![d] = "greet"] /\ UNCHANGED <<cfg, mu, got>>
      BY <2>1, <2>2 DEF Dial, Goes
    <3>2. (IF cfg.greets THEN Carries(dialled, "hello") ELSE Quiet(dialled))'
      <4>1. owed'[c] = (IF cfg.greets THEN <<"hello">> ELSE <<>>) /\ inbox'[c] = <<>>
        BY <1>0, <3>1 DEF Quiet
      <4> QED BY <3>1, <4>1 DEF Quiet, Carries
    <3>3. \A k \in Conns : sock'[k] = "fresh" =>
            sock[k] = "fresh" /\ owed'[k] = owed[k] /\ inbox'[k] = inbox[k]
      BY <1>0, <3>1
    <3> QED BY <1>0, <3>1, <3>2, <3>3, LineGoes DEF Holding
  <2>3. CASE DialFails(d)
    <3>1. conn' = None BY <2>3 DEF DialFails
    <3> QED BY <1>0, <2>3, <3>1, LineGoes DEF DialFails, Ends, Holding
  <2>4. CASE Install(d)
    <3>1. /\ pc[d] = "greet" /\ conn' = dialled /\ pc' = [pc EXCEPT ![d] = "ensured"]
          /\ UNCHANGED <<cfg, mu, got, sock, owed>>
          /\ IF cfg.greets THEN inbox[dialled] # <<>> /\ inbox' = [inbox EXCEPT ![dialled] = Tail(@)]
                           ELSE inbox' = inbox
      BY <2>4 DEF Install, Goes
    <3>2. Quiet(conn)'
      <4>1. PICK c \in Conns : c = dialled BY <2>1, <3>1
      <4>2. Quiet(c)'
        <5>1. CASE cfg.greets BY <1>0, <2>1, <3>1, <4>1, <5>1, Carried
        <5>2. CASE ~cfg.greets BY <2>1, <3>1, <4>1, <5>2, SameLine
        <5> QED BY <5>1, <5>2
      <4> QED BY <3>1, <4>1, <4>2 DEF Quiet
    <3>3. \A k \in Conns : sock'[k] = "fresh" =>
            sock[k] = "fresh" /\ owed'[k] = owed[k] /\ inbox'[k] = inbox[k]
      BY <1>0, <2>1, <3>1
    <3> QED BY <1>0, <3>1, <3>2, <3>3, LineGoes DEF Holding
  <2>5. CASE GreetFails(d)
    <3>1. conn' = None /\ pc[d] = "greet" /\ sock' = [sock EXCEPT ![dialled] = "closed"]
      BY <2>1, <2>5 DEF GreetFails, Inv, LockInv
    <3>2. \A k \in Conns : sock'[k] = "fresh" => sock[k] = "fresh" BY <1>0, <2>1, <3>1
    <3> QED BY <1>0, <2>5, <3>1, <3>2, LineGoes DEF GreetFails, Ends, Holding
  <2>6. CASE Beat(d) \/ Write(d)
    <3>1. PICK m \in {"beat", d}, w \in {"beat", "reading"} :
          /\ pc[d] \in {"ready", "ensured"} /\ conn \in Conns /\ Quiet(conn) /\ Written(m)
          /\ pc' = [pc EXCEPT ![d] = w] /\ (w = "beat" => m = "beat")
          /\ (w = "reading" => m = d) /\ UNCHANGED <<cfg, mu, got, sock, inbox, conn, dialled>>
      BY <1>0, <2>1, <2>6 DEF Beat, Write, Ready, Goes
    <3>2. PICK c \in Conns : c = conn BY <3>1
    <3>3. Carries(c, m)'
      <4>1. CASE owed' = owed BY <3>1, <3>2, <4>1, SameLine DEF Carries
      <4>2. CASE owed' = [owed EXCEPT ![c] = Append(@, m)]
        BY <1>0, <3>1, <3>2, <4>2, Carried
      <4> QED BY <3>1, <3>2, <4>1, <4>2 DEF Written
    <3>4. \A k \in Conns : sock'[k] = "fresh" =>
            sock[k] = "fresh" /\ owed'[k] = owed[k] /\ inbox'[k] = inbox[k]
      <4>1. \A k \in Conns : k # conn => owed'[k] = owed[k] BY <1>0, <3>1 DEF Written
      <4> QED BY <2>1, <3>1, <4>1
    <3>5. Carries(conn, m)' BY <3>1, <3>2, <3>3 DEF Carries, Quiet
    <3> QED BY <1>0, <3>1, <3>4, <3>5, LineGoes DEF Holding
  <2>7. CASE BeatAnswered(d) \/ Read(d)
    <3>1. PICK m \in {"beat", d} :
            /\ Carries(conn, m) /\ (Read(d) => m = d) /\ pc[d] \in {"beat", "reading"}
      BY <2>1, <2>7 DEF BeatAnswered, Read
    <3>2. /\ conn \in Conns /\ inbox[conn] # <<>> /\ inbox' = [inbox EXCEPT ![conn] = Tail(@)]
          /\ UNCHANGED <<cfg, sock, owed, conn, dialled>>
      BY <2>1, <2>7, <3>1 DEF BeatAnswered, Read
    <3>3. PICK c \in Conns : c = conn BY <3>2
    <3>4. Quiet(c)' /\ Head(inbox[conn]) = m BY <1>0, <3>1, <3>2, <3>3, Carried
    <3>5. \A k \in Conns : sock'[k] = "fresh" =>
            sock[k] = "fresh" /\ owed'[k] = owed[k] /\ inbox'[k] = inbox[k]
      BY <1>0, <2>1, <3>2
    <3>6. Quiet(conn)' BY <3>2, <3>3, <3>4
    <3>7. CASE BeatAnswered(d)
      BY <1>0, <3>1, <3>5, <3>6, <3>7, LineGoes DEF BeatAnswered, Goes, Holding
    <3>8. CASE Read(d)
      <4>1. PICK r \in {"error", d} : Ends(d, r) BY <3>1, <3>4, <3>8 DEF Read
      <4>2. got' = [got EXCEPT ![d] = r] /\ got'[d] = r BY <1>0, <4>1 DEF Ends
      <4> QED BY <1>0, <3>1, <3>5, <3>6, <4>1, <4>2, LineGoes DEF Ends, Holding
    <3> QED BY <2>7, <3>7, <3>8
  <2>8. CASE ControlBeat(d)
    <3>1. Quiet(conn)' BY <1>0, <2>1, <2>8, SameLine DEF ControlBeat
    <3> QED BY <1>0, <2>8, <3>1, LineGoes DEF ControlBeat, Goes, Holding
  <2>9. CASE BeatFails(d)
    <3>1. conn' = None /\ pc[d] \in {"ready", "beat"}
          /\ \A k \in Conns : sock'[k] = "fresh" => sock[k] = "fresh"
      BY <1>0, <2>9 DEF BeatFails, CloseLocked
    <3> QED BY <1>0, <2>9, <3>1, LineGoes DEF BeatFails, CloseLocked, Goes, Holding
  <2>10. CASE Ensured(d)
    <3>1. conn' # None => Quiet(conn)'
      BY <1>0, <2>1, <2>10, SameLine DEF Ensured, Ready
    <3> QED BY <1>0, <2>10, <3>1, LineGoes DEF Ensured, Ready, Holding
  <2>11. CASE WriteFails(d) \/ ReadFails(d)
    <3>1. conn' = None /\ pc[d] \in {"ready", "ensured", "reading"} /\ Ends(d, "error")
          /\ UNCHANGED <<owed, inbox>>
          /\ \A k \in Conns : sock'[k] = "fresh" => sock[k] = "fresh"
      BY <1>0, <2>11 DEF WriteFails, ReadFails, Ready, CloseLocked
    <3> QED BY <1>0, <3>1, LineGoes DEF Ends, Holding
  <2> QED
    BY <1>3, <2>2, <2>3, <2>4, <2>5, <2>6, <2>7, <2>8, <2>9, <2>10, <2>11 DEF Held
<1>4. ASSUME NEW c \in Conns, LoopTick(c) \/ LoopStep(c) \/ Die(c) PROVE LineInv'
  <2>1. \A k \in Conns : sock'[k] = "fresh" => sock[k] = "fresh"
    BY <1>0, <1>4 DEF LoopTick, LoopStep, LoopEnds, LoopSkips, LoopBeats, LoopFails, Die
  <2> QED
    BY <1>4, <2>1, LineFrame DEF LoopTick, LoopStep, LoopEnds, LoopSkips, LoopBeats, LoopFails, Die
<1>5. ASSUME NEW c \in Conns, Answer(c) PROVE LineInv'
  <2>1. /\ sock[c] = "open" /\ owed[c] # <<>> /\ owed' = [owed EXCEPT ![c] = Tail(@)]
        /\ inbox' = [inbox EXCEPT ![c] = Append(@, Head(owed[c]))]
        /\ UNCHANGED <<cfg, mu, pc, got, conn, dialled, sock>>
    BY <1>5 DEF Answer
  <2>2. c = conn \/ c = dialled BY <2>1 DEF Inv, ConnInv, SocketKept, NoSocketLeft
  <2>3. \A k \in Conns \ {c} : owed'[k] = owed[k] /\ inbox'[k] = inbox[k] BY <1>0, <2>1
  <2>4. \A k \in Conns : sock'[k] = "fresh" => Quiet(k)'
    BY <2>1, <2>3, SameLine DEF Inv, LineInv
  <2>5. ~Quiet(c) BY <2>1 DEF Quiet
  <2>6. \A m : Carries(c, m) => Carries(c, m)' BY <1>0, <2>1, Carried
  <2>7. CASE c = conn
    <3>1. mu # Nobody /\ pc[mu] \in {"beat", "reading"} /\ dialled = None
      BY <1>0, <2>5, <2>7 DEF Inv, LineInv, LockInv
    <3>2. \A d \in Calls : pc[d] # "greet" BY <3>1 DEF Inv, LockInv
    <3>3. ASSUME NEW d \in Calls, NEW m, Carries(conn, m) PROVE Carries(conn, m)'
      <4>1. Carries(c, m)' BY <2>6, <2>7, <3>3
      <4> QED BY <2>1, <2>7, <4>1 DEF Carries, Quiet
    <3>4. \A d \in Calls : /\ pc[d] = "beat" => Carries(conn, "beat")'
                           /\ pc[d] = "reading" => Carries(conn, d)'
      BY <3>3 DEF Inv, LineInv
    <3>5. AnswersOwn' BY <2>1 DEF Inv, LineInv, AnswersOwn
    <3> QED BY <2>1, <2>4, <3>1, <3>2, <3>4, <3>5 DEF LineInv
  <2>8. CASE c = dialled
    <3>1. conn = None /\ \A d \in Calls : pc[d] \notin {"beat", "reading"}
      BY <1>0, <2>8 DEF Inv, LockInv
    <3>2. ASSUME NEW d \in Calls, pc[d] = "greet"
          PROVE  (IF cfg.greets THEN Carries(dialled, "hello") ELSE Quiet(dialled))'
      <4>1. cfg.greets /\ Carries(c, "hello") BY <2>5, <2>8, <3>2 DEF Inv, LineInv
      <4>2. Carries(c, "hello")' BY <2>6, <4>1
      <4> QED BY <2>1, <2>8, <4>1, <4>2 DEF Carries, Quiet
    <3> QED BY <2>1, <2>4, <3>1, <3>2 DEF Inv, LineInv, AnswersOwn
  <2> QED BY <2>2, <2>7, <2>8
<1>6. CASE Close \/ Idle \/ UNCHANGED vars
  <2>1. \A k \in Conns : sock'[k] = "fresh" => sock[k] = "fresh"
    BY <1>0, <1>6 DEF Close, CloseLocked, Idle, vars
  <2> QED BY <1>6, <2>1, LineFrame DEF Close, CloseLocked, Idle, vars
<1> QED BY <1>1, <1>2, <1>3, <1>4, <1>5, <1>6 DEF Next

-----------------------------------------------------------------------------
(* The connection, its socket and its loop                                  *)

\* The loop that is not stopped is that of heartbeatCancel.
Loops == \A c \in Conns : (loop[c] \in {"asleep", "want"} /\ ~stopped[c]) <=> c = beating

LEMMA LoopsMean ==
  ASSUME beating = (IF cfg.beat = "control" THEN conn ELSE None), conn \in Conns \union {None}
  PROVE  OneHeartbeat <=> Loops
<1>1. None \notin Conns BY SocketAssumption DEF None, Conns
<1> DEFINE live == {c \in Conns : loop[c] \in {"asleep", "want"} /\ ~stopped[c]}
<1>2. Loops <=> \A c \in Conns : c \in live <=> c = beating BY DEF Loops
<1>3. OneHeartbeat <=> live = IF cfg.beat = "control" /\ conn # None THEN {conn} ELSE {}
  BY DEF OneHeartbeat
<1>4. live \subseteq Conns OBVIOUS
<1> HIDE DEF live
<1> QED BY <1>1, <1>2, <1>3, <1>4

\* What a connection, its socket and its loop have in common, part by part.
Parts ==
  /\ conn \in Conns \union {None} /\ Loops /\ NoSocketLeft
  /\ beating = IF cfg.beat = "control" THEN conn ELSE None
  /\ \A c \in Conns : c \in {conn, dialled} => sock[c] # "fresh"
  /\ \A c \in Conns : sock[c] = "fresh" \/ c = dialled => loop[c] = "none" /\ ~stopped[c]

LEMMA PartsMean == conn \in Conns \union {None} => (ConnInv <=> Parts)
BY LoopsMean DEF ConnInv, Parts, SocketKept

\* A step that replaces no connection.
LEMMA ConnFrame ==
  ASSUME Parts, UNCHANGED <<cfg, conn, dialled, beating, stopped>>,
         \A c \in Conns : \/ loop'[c] = loop[c]
                          \/ loop[c] \in {"asleep", "want"} /\ loop'[c] \in {"asleep", "want"}
                          \/ loop[c] \in {"asleep", "want"} /\ stopped[c],
         \A c \in Conns : sock'[c] = sock[c] \/ (sock[c] = "open" /\ sock'[c] = "dead")
  PROVE  Parts'
<1>1. Loops' BY DEF Parts, Loops
<1>2. NoSocketLeft' BY DEF Parts, NoSocketLeft
<1>3. \A c \in Conns : sock[c] = "fresh" \/ c = dialled => loop'[c] = "none" /\ ~stopped[c]
  BY DEF Parts
<1> QED BY <1>1, <1>2, <1>3 DEF Parts

\* A connection is given up: its loop is cancelled and its socket closed.
LEMMA ConnClosed ==
  ASSUME Parts, beating \in Conns \union {None},
         DOMAIN sock = Conns, DOMAIN stopped = Conns, UNCHANGED <<cfg, dialled>>,
         dialled = None \/ conn = None,
         stopped' = IF beating = None THEN stopped ELSE [stopped EXCEPT ![beating] = TRUE],
         sock' = IF conn = None THEN sock ELSE [sock EXCEPT ![conn] = "closed"],
         conn' = None, beating' = None,
         \A c \in Conns : loop'[c] = loop[c] \/ (loop[c] = "want" /\ loop'[c] = "asleep")
  PROVE  Parts'
<1>0. None \notin Conns BY SocketAssumption DEF None, Conns
<1>1. \A c \in Conns : /\ c # beating => stopped'[c] = stopped[c]
                       /\ c = beating => stopped'[c]
                       /\ sock'[c] = IF c = conn THEN "closed" ELSE sock[c]
  <2>1. ASSUME NEW c \in Conns PROVE (c # beating => stopped'[c] = stopped[c]) /\ (c = beating => stopped'[c])
    BY <1>0
  <2>2. ASSUME NEW c \in Conns PROVE sock'[c] = IF c = conn THEN "closed" ELSE sock[c]
    BY <1>0 DEF Parts
  <2> QED BY <2>1, <2>2
<1>2. Loops' BY <1>0, <1>1 DEF Parts, Loops
<1>3. NoSocketLeft' BY <1>0, <1>1 DEF Parts, NoSocketLeft
<1>4. \A c \in Conns : sock'[c] = "fresh" \/ c = dialled => loop'[c] = "none" /\ ~stopped'[c]
  <2> SUFFICES ASSUME NEW c \in Conns, sock'[c] = "fresh" \/ c = dialled
               PROVE  loop'[c] = "none" /\ ~stopped'[c]
    OBVIOUS
  <2>1. sock[c] = "fresh" \/ c = dialled BY <1>1
  <2>2. loop[c] = "none" /\ ~stopped[c] BY <2>1 DEF Parts
  <2>3. c # beating BY <2>2 DEF Parts, Loops
  <2> QED BY <1>1, <2>2, <2>3
<1>5. \A c \in Conns : c \in {conn', dialled'} => sock'[c] # "fresh" BY <1>0, <1>1 DEF Parts
<1>6. beating' = (IF cfg'.beat = "control" THEN conn' ELSE None) OBVIOUS
<1> QED BY <1>2, <1>3, <1>4, <1>5, <1>6 DEF Parts

\* Every step keeps them together.
LEMMA ConnNext == Inv /\ [Next]_vars => Parts'
<1> SUFFICES ASSUME Inv, [Next]_vars PROVE Parts'
  OBVIOUS
<1> USE DEF calls, client, net
<1>0. /\ DOMAIN sock = Conns /\ DOMAIN stopped = Conns /\ DOMAIN loop = Conns /\ None \notin Conns
      /\ conn \in Conns \union {None} /\ dialled \in Conns \union {None} /\ beating \in Conns \union {None}
      /\ stopped \in [Conns -> BOOLEAN]
  BY SocketAssumption DEF Inv, TypeOK, None, Conns
<1>1. Parts /\ (dialled # None => conn = None /\ mu # Nobody /\ pc[mu] = "greet")
  BY <1>0, PartsMean DEF Inv, LockInv
<1>2. ASSUME UNCHANGED <<cfg, conn, dialled, beating, loop, stopped, sock>> PROVE Parts'
  BY <1>1, <1>2, ConnFrame
<1>3. ASSUME CloseLocked, UNCHANGED cfg PROVE Parts'
  BY <1>0, <1>1, <1>3, ConnClosed DEF CloseLocked
<1>4. ASSUME NEW d \in Calls, Begin(d) \/ Lock(d) PROVE Parts' BY <1>2, <1>4 DEF Begin, Lock
<1>5. ASSUME NEW d \in Calls, Held(d) PROVE Parts'
  <2>1. pc[d] \in Holding => mu = d BY HolderIs
  <2>2. ASSUME NEW c \in Conns, Dial(d, c) PROVE Parts'
    <3>1. /\ sock[c] = "fresh" /\ sock' = [sock EXCEPT ![c] = "open"] /\ conn = None /\ dialled' = c
          /\ UNCHANGED <<cfg, conn, beating, loop, stopped>> /\ dialled = None
      BY <1>1, <2>1, <2>2 DEF Dial, Holding
    <3>2. \A k \in Conns : sock'[k] = IF k = c THEN "open" ELSE sock[k] BY <1>0, <3>1
    <3>3. Loops' BY <1>1, <3>1 DEF Parts, Loops
    <3>4. NoSocketLeft' BY <1>0, <1>1, <3>1, <3>2 DEF Parts, NoSocketLeft
    <3>5. \A k \in Conns : sock'[k] = "fresh" \/ k = dialled' => loop'[k] = "none" /\ ~stopped'[k]
      BY <1>1, <3>1, <3>2 DEF Parts
    <3>6. \A k \in Conns : k \in {conn', dialled'} => sock'[k] # "fresh" BY <1>0, <3>1, <3>2
    <3> QED BY <1>1, <3>1, <3>3, <3>4, <3>5, <3>6 DEF Parts
  <2>3. CASE Install(d)
    <3>1. /\ dialled \in Conns /\ conn = None /\ conn' = dialled /\ dialled' = None
          /\ UNCHANGED <<cfg, stopped, sock>>
          /\ IF cfg.beat = "control" /\ beating = None
             THEN beating' = dialled /\ loop' = [loop EXCEPT ![dialled] = "asleep"]
             ELSE UNCHANGED <<beating, loop>>
      BY <1>0, <1>1, <2>3 DEF Install, Inv, LockInv
    <3>2. beating = None BY <1>1, <3>1 DEF Parts
    <3>3. loop[dialled] = "none" /\ ~stopped[dialled] /\ sock[dialled] # "fresh" BY <1>1, <3>1 DEF Parts
    <3>4. beating' = IF cfg'.beat = "control" THEN conn' ELSE None BY <3>1, <3>2
    <3>5. Loops'
      <4>1. CASE cfg.beat = "control"
        <5>1. \A c \in Conns : loop'[c] = IF c = dialled THEN "asleep" ELSE loop[c]
          BY <1>0, <3>1, <3>2, <4>1
        <5>2. beating' = dialled BY <3>1, <3>2, <4>1
        <5> QED BY <1>0, <1>1, <3>1, <3>2, <3>3, <5>1, <5>2 DEF Parts, Loops
      <4>2. CASE cfg.beat # "control" BY <1>1, <3>1, <4>2 DEF Parts, Loops
      <4> QED BY <4>1, <4>2
    <3>6. NoSocketLeft' BY <1>0, <1>1, <3>1 DEF Parts, NoSocketLeft
    <3>7. \A c \in Conns : c \in {conn', dialled'} => sock'[c] # "fresh" BY <1>0, <3>1, <3>3
    <3>8. \A c \in Conns : sock'[c] = "fresh" \/ c = dialled' => loop'[c] = "none" /\ ~stopped'[c]
      <4>1. \A c \in Conns : c # dialled => loop'[c] = loop[c] BY <1>0, <3>1
      <4> QED BY <1>0, <1>1, <3>1, <3>3, <4>1 DEF Parts
    <3> QED BY <3>1, <3>4, <3>5, <3>6, <3>7, <3>8 DEF Parts
  <2>4. CASE GreetFails(d)
    <3>1. /\ dialled \in Conns /\ conn = None /\ dialled' = None /\ sock' = [sock EXCEPT ![dialled] = "closed"]
          /\ UNCHANGED <<cfg, conn, beating, loop, stopped>>
      BY <1>0, <1>1, <2>4 DEF GreetFails, Inv, LockInv
    <3>2. \A c \in Conns : sock'[c] = IF c = dialled THEN "closed" ELSE sock[c] BY <1>0, <3>1
    <3>3. Loops' BY <1>1, <3>1 DEF Parts, Loops
    <3>4. NoSocketLeft' BY <1>0, <1>1, <3>1, <3>2 DEF Parts, NoSocketLeft
    <3> QED BY <1>0, <1>1, <3>1, <3>2, <3>3, <3>4 DEF Parts
  <2>5. CASE \/ DialFails(d) \/ Beat(d) \/ BeatAnswered(d) \/ ControlBeat(d) \/ Ensured(d)
             \/ Write(d) \/ Read(d)
    BY <1>2, <2>5 DEF DialFails, Beat, BeatAnswered, ControlBeat, Ensured, Write, Read
  <2>6. CASE BeatFails(d) \/ WriteFails(d) \/ ReadFails(d)
    BY <1>3, <2>6 DEF BeatFails, WriteFails, ReadFails
  <2> QED BY <1>5, <2>2, <2>3, <2>4, <2>5, <2>6 DEF Held
<1>6. ASSUME NEW c \in Conns, LoopTick(c) \/ LoopEnds(c) \/ LoopSkips(c) \/ LoopBeats(c) PROVE Parts'
  <2>1. /\ UNCHANGED <<cfg, conn, dialled, beating, stopped, sock>>
        /\ \E x \in {"asleep", "want", "ended"} :
             loop' = [loop EXCEPT ![c] = x] /\ (x = "ended" => stopped[c])
        /\ loop[c] \in {"asleep", "want"}
    BY <1>6 DEF LoopTick, LoopEnds, LoopSkips, LoopBeats
  <2>2. \A k \in Conns : \/ loop'[k] = loop[k]
                         \/ loop[k] \in {"asleep", "want"} /\ loop'[k] \in {"asleep", "want"}
                         \/ loop[k] \in {"asleep", "want"} /\ stopped[k]
    BY <1>0, <2>1
  <2> QED BY <1>1, <2>1, <2>2, ConnFrame
<1>7. ASSUME NEW c \in Conns, LoopFails(c) PROVE Parts'
  <2>1. \A k \in Conns : loop'[k] = loop[k] \/ (loop[k] = "want" /\ loop'[k] = "asleep")
    BY <1>0, <1>7 DEF LoopFails
  <2> QED BY <1>0, <1>1, <1>7, <2>1, ConnClosed DEF LoopFails
<1>8. ASSUME NEW c \in Conns, Answer(c) PROVE Parts' BY <1>2, <1>8 DEF Answer
<1>9. ASSUME NEW c \in Conns, Die(c) PROVE Parts'
  <2>1. \A k \in Conns : sock'[k] = sock[k] \/ (sock[k] = "open" /\ sock'[k] = "dead")
    BY <1>0, <1>9 DEF Die
  <2> QED BY <1>1, <1>9, <2>1, ConnFrame DEF Die
<1>10. CASE Close BY <1>3, <1>10 DEF Close
<1>11. CASE Idle \/ UNCHANGED vars BY <1>2, <1>11 DEF Idle, vars
<1> QED
  BY <1>4, <1>5, <1>6, <1>7, <1>8, <1>9, <1>10, <1>11 DEF Next, LoopStep

-----------------------------------------------------------------------------
(* Types, and the theorems                                                  *)

Messages == Calls \union {"hello", "beat"}
Places == {"idle", "want", "ready", "greet", "beat", "ensured", "reading", "between", "done"}
States == {"fresh", "open", "dead", "closed"}
LoopPlaces == {"none", "asleep", "want", "ended"}

\* What closing a connection leaves.
LEMMA ClosedType ==
  ASSUME TypeOK, stopped' = IF beating = None THEN stopped ELSE [stopped EXCEPT ![beating] = TRUE],
         sock' = IF conn = None THEN sock ELSE [sock EXCEPT ![conn] = "closed"]
  PROVE  stopped' \in [Conns -> BOOLEAN] /\ sock' \in [Conns -> States]
<1>1. stopped \in [Conns -> BOOLEAN] /\ sock \in [Conns -> States] BY DEF TypeOK, States
<1>2. [stopped EXCEPT ![beating] = TRUE] \in [Conns -> BOOLEAN] BY <1>1
<1>3. [sock EXCEPT ![conn] = "closed"] \in [Conns -> States] BY <1>1 DEF States
<1> QED BY <1>1, <1>2, <1>3

\* The types of the calls, of the client and of the network.
CallsType ==
  /\ cfg \in Settings /\ mu \in Calls \union {Nobody} /\ shut \in BOOLEAN
  /\ pc \in [Calls -> Places] /\ phase \in [Calls -> {"ensure", "do"}]
  /\ got \in [Calls -> Calls \union {"nothing", "error"}]
ClientType ==
  /\ idle \in BOOLEAN /\ {conn, dialled, beating} \subseteq Conns \union {None}
  /\ loop \in [Conns -> LoopPlaces] /\ stopped \in [Conns -> BOOLEAN]
NetType ==
  /\ sock \in [Conns -> States]
  /\ owed \in [Conns -> Seq(Messages)] /\ inbox \in [Conns -> Seq(Messages)]

LEMMA TypesMean == TypeOK <=> CallsType /\ ClientType /\ NetType
BY DEF TypeOK, CallsType, ClientType, NetType, Messages, Places, States, LoopPlaces

\* A call goes on, or ends with its own answer or an error.
LEMMA CallsNext == Inv /\ [Next]_vars => CallsType'
<1> SUFFICES ASSUME Inv, [Next]_vars PROVE CallsType'
  OBVIOUS
<1> USE DEF calls, client, net
<1>0. CallsType BY TypesMean DEF Inv
<1>1. ASSUME UNCHANGED <<cfg, calls>>, shut' \in BOOLEAN PROVE CallsType'
  BY <1>0, <1>1 DEF CallsType
<1>2. ASSUME NEW d \in Calls, Begin(d) PROVE CallsType'
  <2>1. /\ pc' = [pc EXCEPT ![d] = "want"]
        /\ \E x \in {"ensure", "do"} : phase' = [phase EXCEPT ![d] = x]
        /\ UNCHANGED <<cfg, mu, got, shut>>
    BY <1>2 DEF Begin
  <2>2. pc' \in [Calls -> Places] BY <1>0, <2>1 DEF CallsType, Places
  <2>3. phase' \in [Calls -> {"ensure", "do"}] BY <1>0, <2>1 DEF CallsType
  <2> QED BY <1>0, <2>1, <2>2, <2>3 DEF CallsType
<1>3. ASSUME NEW d \in Calls, Lock(d) \/ Ensured(d) PROVE CallsType'
  <2>1. /\ \E x \in {"ready", "between"} : pc' = [pc EXCEPT ![d] = x]
        /\ mu' \in Calls \union {Nobody} /\ UNCHANGED <<cfg, phase, got, shut>>
    BY <1>3 DEF Lock, Ensured
  <2>2. pc' \in [Calls -> Places] BY <1>0, <2>1 DEF CallsType, Places
  <2> QED BY <1>0, <2>1, <2>2 DEF CallsType
<1>4. ASSUME NEW d \in Calls, NEW where \in Places, Goes(d, where), UNCHANGED <<cfg, shut>> PROVE CallsType'
  <2>1. pc' = [pc EXCEPT ![d] = where] /\ UNCHANGED <<mu, phase, got>> BY <1>4 DEF Goes
  <2>2. pc' \in [Calls -> Places] BY <1>0, <2>1 DEF CallsType
  <2> QED BY <1>0, <1>4, <2>1, <2>2 DEF CallsType
<1>5. ASSUME NEW d \in Calls, NEW r \in {d, "error"}, Ends(d, r), UNCHANGED <<cfg, shut>> PROVE CallsType'
  <2>1. pc' = [pc EXCEPT ![d] = "done"] /\ got' = [got EXCEPT ![d] = r] /\ mu' = Nobody /\ phase' = phase
    BY <1>5 DEF Ends
  <2>2. pc' \in [Calls -> Places] BY <1>0, <2>1 DEF CallsType, Places
  <2>3. got' \in [Calls -> Calls \union {"nothing", "error"}] BY <1>0, <2>1 DEF CallsType
  <2> QED BY <1>0, <1>5, <2>1, <2>2, <2>3 DEF CallsType
<1>6. ASSUME NEW d \in Calls, Held(d) PROVE CallsType'
  <2>1. {"greet", "beat", "ensured", "ready", "reading"} \subseteq Places BY DEF Places
  <2>2. CASE (\E c \in Conns : Dial(d, c)) \/ Install(d) \/ Beat(d) \/ BeatAnswered(d) \/ ControlBeat(d)
             \/ BeatFails(d) \/ Write(d)
    <3>1. /\ \E where \in {"greet", "beat", "ensured", "ready", "reading"} : Goes(d, where)
          /\ UNCHANGED <<cfg, shut>>
      BY <2>2 DEF Dial, Install, Beat, BeatAnswered, ControlBeat, BeatFails, Write
    <3> QED BY <1>4, <2>1, <3>1
  <2>3. CASE DialFails(d) \/ GreetFails(d) \/ WriteFails(d) \/ ReadFails(d)
    <3>1. Ends(d, "error") /\ UNCHANGED <<cfg, shut>>
      BY <2>3 DEF DialFails, GreetFails, WriteFails, ReadFails
    <3> QED BY <1>5, <3>1
  <2>4. CASE Read(d)
    <3>1. PICK c \in Conns : c = conn
      BY <2>4, SocketAssumption DEF Read, Inv, TypeOK, LockInv
    <3>2. Carries(c, d) /\ inbox[c] # <<>> BY <2>4, <3>1 DEF Read, Inv, LineInv
    <3>3. Head(inbox[c]) = d BY <3>2, Carried DEF Inv, TypeOK
    <3>4. (Ends(d, "error") \/ Ends(d, d)) /\ UNCHANGED <<cfg, shut>>
      BY <2>4, <3>1, <3>3 DEF Read
    <3> QED BY <1>5, <3>4
  <2> QED BY <1>3, <1>6, <2>2, <2>3, <2>4 DEF Held
<1>7. ASSUME NEW c \in Conns, LoopTick(c) \/ LoopStep(c) \/ Answer(c) \/ Die(c) PROVE CallsType'
  <2>1. UNCHANGED <<cfg, calls, shut>>
    BY <1>7 DEF LoopTick, LoopStep, LoopEnds, LoopSkips, LoopBeats, LoopFails, Answer, Die
  <2> QED BY <1>0, <1>1, <2>1 DEF CallsType
<1>8. CASE Close \/ Idle \/ UNCHANGED vars
  BY <1>0, <1>1, <1>8 DEF Close, Idle, vars, CallsType
<1> QED BY <1>2, <1>3, <1>6, <1>7, <1>8 DEF Next

\* The client has a connection or none.
LEMMA ClientNext == Inv /\ [Next]_vars => ClientType'
<1> SUFFICES ASSUME Inv, [Next]_vars PROVE ClientType'
  OBVIOUS
<1> USE DEF calls, client, net
<1>0. TypeOK /\ ClientType BY TypesMean DEF Inv
<1>1. ASSUME {conn', dialled', beating'} \subseteq Conns \union {conn, dialled, beating, None}, idle' \in BOOLEAN,
             UNCHANGED <<loop, stopped>>
      PROVE  ClientType'
  BY <1>0, <1>1 DEF ClientType
<1>2. ASSUME CloseLocked PROVE ClientType'
  BY <1>0, <1>2, ClosedType DEF CloseLocked, ClientType
<1>3. ASSUME NEW d \in Calls, Begin(d) \/ Lock(d) PROVE ClientType'
  BY <1>0, <1>1, <1>3 DEF Begin, Lock, ClientType
<1>4. ASSUME NEW d \in Calls, Held(d) PROVE ClientType'
  <2>1. CASE (\E c \in Conns : Dial(d, c)) \/ DialFails(d) \/ GreetFails(d) \/ Beat(d) \/ BeatAnswered(d)
             \/ ControlBeat(d) \/ Ensured(d) \/ Write(d)
    BY <1>0, <1>1, <2>1
    DEF Dial, DialFails, GreetFails, Beat, BeatAnswered, ControlBeat, Ensured, Write, ClientType
  <2>2. CASE Read(d)
    <3>1. idle' \in BOOLEAN
      <4>1. PICK long \in BOOLEAN : idle' = (long /\ idle) BY <2>2 DEF Read
      <4> QED BY <4>1
    <3> QED BY <1>1, <2>2, <3>1 DEF Read
  <2>3. CASE Install(d)
    <3>1. loop' \in [Conns -> LoopPlaces]
      <4>1. loop' = loop \/ loop' = [loop EXCEPT ![dialled] = "asleep"] BY <2>3 DEF Install
      <4> QED BY <1>0, <4>1 DEF ClientType, LoopPlaces
    <3>2. {conn', dialled', beating'} \subseteq Conns \union {None} /\ idle' \in BOOLEAN
          /\ UNCHANGED stopped
      BY <1>0, <2>3 DEF Install, ClientType
    <3> QED BY <1>0, <3>1, <3>2 DEF ClientType
  <2>4. CASE BeatFails(d) \/ WriteFails(d) \/ ReadFails(d)
    BY <1>2, <2>4 DEF BeatFails, WriteFails, ReadFails
  <2> QED BY <1>4, <2>1, <2>2, <2>3, <2>4 DEF Held
<1>5. ASSUME NEW c \in Conns, LoopTick(c) \/ LoopStep(c) PROVE ClientType'
  <2>1. \E x \in LoopPlaces : loop' = [loop EXCEPT ![c] = x]
    BY <1>5 DEF LoopTick, LoopStep, LoopEnds, LoopSkips, LoopBeats, LoopFails, LoopPlaces
  <2>2. loop' \in [Conns -> LoopPlaces] BY <1>0, <2>1 DEF ClientType
  <2>3. stopped' \in [Conns -> BOOLEAN]
    <3>1. CASE LoopFails(c) BY <1>0, <3>1, ClosedType DEF LoopFails
    <3>2. CASE ~LoopFails(c)
      BY <1>0, <1>5, <3>2 DEF LoopTick, LoopStep, LoopEnds, LoopSkips, LoopBeats, ClientType
    <3> QED BY <3>1, <3>2
  <2>4. {conn', dialled', beating'} \subseteq Conns \union {None} /\ idle' \in BOOLEAN
    BY <1>0, <1>5 DEF LoopTick, LoopStep, LoopEnds, LoopSkips, LoopBeats, LoopFails, ClientType
  <2> QED BY <2>2, <2>3, <2>4 DEF ClientType
<1>6. ASSUME NEW c \in Conns, Answer(c) \/ Die(c) PROVE ClientType'
  BY <1>0, <1>1, <1>6 DEF Answer, Die, ClientType
<1>7. CASE Close BY <1>2, <1>7 DEF Close
<1>8. CASE Idle \/ UNCHANGED vars BY <1>0, <1>1, <1>8 DEF Idle, vars, ClientType
<1> QED BY <1>3, <1>4, <1>5, <1>6, <1>7, <1>8 DEF Next

\* Messages go from one queue to the next.
LEMMA NetNext == Inv /\ [Next]_vars => NetType'
<1> SUFFICES ASSUME Inv, [Next]_vars PROVE NetType'
  OBVIOUS
<1> USE DEF calls, client, net
<1>0. TypeOK /\ NetType BY TypesMean DEF Inv
<1>1. ASSUME UNCHANGED <<owed, inbox>>, sock' \in [Conns -> States] PROVE NetType'
  BY <1>0, <1>1 DEF NetType
<1>2. ASSUME CloseLocked PROVE NetType' BY <1>0, <1>1, <1>2, ClosedType DEF CloseLocked
<1>3. ASSUME UNCHANGED net PROVE NetType' BY <1>0, <1>3 DEF NetType
<1>4. ASSUME UNCHANGED <<sock, inbox>>, NEW m \in Messages, Written(m) PROVE NetType'
  <2>1. ASSUME NEW s \in Seq(Messages) PROVE Append(s, m) \in Seq(Messages) OBVIOUS
  <2>2. owed' = owed \/ owed' = [owed EXCEPT ![conn] = Append(@, m)] BY <1>4 DEF Written
  <2>3. owed' \in [Conns -> Seq(Messages)]
    <3>1. \A c \in Conns : Append(owed[c], m) \in Seq(Messages) BY <1>0, <2>1 DEF NetType
    <3> QED BY <1>0, <2>2, <3>1 DEF NetType
  <2> QED BY <1>0, <1>4, <2>3 DEF NetType
<1>5. ASSUME UNCHANGED <<sock, owed>>, NEW c \in Conns \union {None},
             inbox[c] # <<>>, inbox' = [inbox EXCEPT ![c] = Tail(@)]
      PROVE  NetType'
  <2>1. inbox' \in [Conns -> Seq(Messages)]
    <3>1. \A s \in Seq(Messages) : s # <<>> => Tail(s) \in Seq(Messages) OBVIOUS
    <3>2. c \in Conns => Tail(inbox[c]) \in Seq(Messages) BY <1>0, <1>5, <3>1 DEF NetType
    <3>3. inbox \in [Conns -> Seq(Messages)] BY <1>0 DEF NetType
    <3>4. CASE c \in Conns BY <1>5, <3>2, <3>3, <3>4
    <3>5. CASE c \notin Conns BY <1>5, <3>3, <3>5
    <3> QED BY <3>4, <3>5
  <2> QED BY <1>0, <1>5, <2>1 DEF NetType
<1>6. ASSUME NEW d \in Calls, Begin(d) \/ Lock(d) PROVE NetType' BY <1>3, <1>6 DEF Begin, Lock
<1>7. ASSUME NEW d \in Calls, Held(d) PROVE NetType'
  <2>0. {conn, dialled} \subseteq Conns \union {None} /\ d \in Messages /\ "beat" \in Messages
    BY <1>0 DEF TypeOK, Messages
  <2>1. ASSUME NEW c \in Conns, Dial(d, c) PROVE NetType'
    <3>1. /\ sock' = [sock EXCEPT ![c] = "open"] /\ inbox' = inbox
          /\ \E q \in {<<"hello">>, <<>>} : owed' = [owed EXCEPT ![c] = q]
      BY <2>1 DEF Dial
    <3>2. sock' \in [Conns -> States] BY <1>0, <3>1 DEF NetType, States
    <3>3. <<"hello">> \in Seq(Messages) /\ <<>> \in Seq(Messages) BY DEF Messages
    <3>4. owed' \in [Conns -> Seq(Messages)] BY <1>0, <3>1, <3>3 DEF NetType
    <3> QED BY <1>0, <3>1, <3>2, <3>4 DEF NetType
  <2>2. CASE DialFails(d) \/ ControlBeat(d) \/ Ensured(d) BY <1>3, <2>2 DEF DialFails, ControlBeat, Ensured
  <2>3. CASE Install(d) BY <1>3, <1>5, <2>0, <2>3 DEF Install
  <2>4. CASE GreetFails(d)
    <3>1. sock' = [sock EXCEPT ![dialled] = "closed"] /\ UNCHANGED <<owed, inbox>> BY <2>4 DEF GreetFails
    <3>2. sock' \in [Conns -> States] BY <1>0, <3>1 DEF NetType, States
    <3> QED BY <1>1, <3>1, <3>2
  <2>5. CASE Beat(d) \/ Write(d) BY <1>4, <2>0, <2>5 DEF Beat, Write
  <2>6. CASE BeatAnswered(d) \/ Read(d) BY <1>5, <2>0, <2>6 DEF BeatAnswered, Read
  <2>7. CASE BeatFails(d) \/ WriteFails(d) \/ ReadFails(d)
    BY <1>2, <2>7 DEF BeatFails, WriteFails, ReadFails
  <2> QED BY <1>7, <2>1, <2>2, <2>3, <2>4, <2>5, <2>6, <2>7 DEF Held
<1>8. ASSUME NEW c \in Conns, LoopTick(c) \/ LoopStep(c) \/ Die(c) PROVE NetType'
  <2>1. CASE LoopFails(c) BY <1>0, <1>1, <2>1, ClosedType DEF LoopFails
  <2>2. CASE Die(c)
    <3>1. sock' \in [Conns -> States] BY <1>0, <2>2 DEF Die, NetType, States
    <3> QED BY <1>1, <2>2, <3>1 DEF Die
  <2>3. CASE LoopTick(c) \/ LoopEnds(c) \/ LoopSkips(c) \/ LoopBeats(c)
    BY <1>3, <2>3 DEF LoopTick, LoopEnds, LoopSkips, LoopBeats
  <2> QED BY <1>8, <2>1, <2>2, <2>3 DEF LoopStep
<1>9. ASSUME NEW c \in Conns, Answer(c) PROVE NetType'
  <2>1. /\ owed[c] # <<>> /\ sock' = sock /\ owed' = [owed EXCEPT ![c] = Tail(@)]
        /\ inbox' = [inbox EXCEPT ![c] = Append(@, Head(owed[c]))]
    BY <1>9 DEF Answer
  <2>2. \A s \in Seq(Messages) : s # <<>> => Tail(s) \in Seq(Messages) /\ Head(s) \in Messages OBVIOUS
  <2>3. \A s \in Seq(Messages), m \in Messages : Append(s, m) \in Seq(Messages) OBVIOUS
  <2>4. owed[c] \in Seq(Messages) /\ inbox[c] \in Seq(Messages) BY <1>0 DEF NetType
  <2>5. Tail(owed[c]) \in Seq(Messages) /\ Append(inbox[c], Head(owed[c])) \in Seq(Messages)
    BY <2>1, <2>2, <2>3, <2>4
  <2>6. owed' \in [Conns -> Seq(Messages)] BY <1>0, <2>1, <2>5 DEF NetType
  <2>7. inbox' \in [Conns -> Seq(Messages)] BY <1>0, <2>1, <2>5 DEF NetType
  <2> QED BY <1>0, <2>1, <2>6, <2>7 DEF NetType
<1>10. CASE Close BY <1>2, <1>10 DEF Close
<1>11. CASE Idle \/ UNCHANGED vars BY <1>3, <1>11 DEF Idle, vars
<1> QED BY <1>6, <1>7, <1>8, <1>9, <1>10, <1>11 DEF Next

\* All of it together.
LEMMA SocketNext == Inv /\ [Next]_vars => Inv'
<1> SUFFICES ASSUME Inv, [Next]_vars PROVE Inv'
  OBVIOUS
<1>1. CallsType' /\ ClientType' /\ NetType' BY CallsNext, ClientNext, NetNext
<1>2. TypeOK'
  BY <1>1 DEF TypeOK, CallsType, ClientType, NetType, Messages, Places, States, LoopPlaces
<1>3. LockInv' /\ LineInv' /\ Parts' BY LockNext, LineNext, ConnNext
<1>4. conn' \in Conns \union {None} BY <1>1 DEF ClientType
<1>5. ConnInv'
  <2>1. conn \in Conns \union {None} => (ConnInv <=> Parts) BY PartsMean
  <2>2. (conn \in Conns \union {None} => (ConnInv <=> Parts))' BY PartsMean, PTL
  <2> QED BY <1>3, <1>4, <2>2
<1> QED BY <1>2, <1>3, <1>5 DEF Inv

\* Whoever sends an order gets the answer to it, or an error: never the answer,
\* the greeting or the heartbeat of somebody else.
THEOREM AnswersNotSwapped == Spec => []AnswersOwn
<1>1. Inv => AnswersOwn BY DEF Inv, LineInv
<1> QED BY <1>1, SocketInit, SocketNext, PTL DEF Spec

\* A connection, its socket and its heartbeat loop come and go together.
THEOREM SocketAndLoop == Spec => []SocketKept
<1>1. Inv => SocketKept BY DEF Inv, ConnInv
<1> QED BY <1>1, SocketInit, SocketNext, PTL DEF Spec
=============================================================================
