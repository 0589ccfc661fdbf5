-------------------------- MODULE BenchProxyProofs --------------------------
(* Proofs about BenchProxy: what a request is answered with is its own, and *)
(* restricted data go to sessions earned with the password, for any         *)
(* clients, queries, environments and number of requests under way.         *)
EXTENDS BenchProxy, TLAPS

-----------------------------------------------------------------------------
(* Passwords and paths                                                     *)

\* Of texts, constantTimeEqual is equality.
LEMMA EqualTexts ==
  ASSUME NEW l \in Texts, NEW m \in Texts, ConstantTimeEqual(l, m)
  PROVE  l = m
<1>1. Len(l) = Len(m) /\ \A i \in 1..Len(l) : l[i] = m[i]
  BY DEF ConstantTimeEqual, Code, Texts
<1>2. /\ l = [i \in 1..Len(l) |-> l[i]]
      /\ m = [i \in 1..Len(m) |-> m[i]]
  BY DEF Texts
<1>3. [i \in 1..Len(l) |-> l[i]] = [i \in 1..Len(m) |-> m[i]]
  BY <1>1
<1> QED
  BY <1>2, <1>3

Own(a) == {Paths(a)[i] : i \in DOMAIN Paths(a)}

\* The first path of a query determines the others.
Alternatives(p) ==
  IF p.route = "dashboard/samples" THEN <<p, [p EXCEPT !.route = "samples"]>>
  ELSE IF p.route \in {"dashboard/latency-series", "dashboard/taker-cost-series"}
  THEN <<p, [p EXCEPT !.route = "dashboard/samples"], [p EXCEPT !.route = "samples"]>>
  ELSE <<p>>

LEMMA PathsOfPrimary ==
  ASSUME NEW a
  PROVE  Paths(a) = Alternatives(Paths(a)[1])
<1>1. CASE a.endpoint = "latest"
  BY <1>1 DEF Paths, LatestPaths, Path, Alternatives
<1>2. CASE a.endpoint = "samples"
  BY <1>2 DEF Paths, SamplesPaths, Path, Alternatives
<1>3. CASE a.endpoint = "latency-series"
  BY <1>3 DEF Paths, SeriesPaths, Path, Alternatives
<1>4. CASE a.endpoint = "taker-cost-series"
  BY <1>4 DEF Paths, SeriesPaths, Path, Alternatives
<1>5. CASE a.endpoint = "exchange-tps"
  BY <1>5 DEF Paths, TPSPaths, Path, Alternatives
<1>6. CASE a.endpoint = "exchange-tps-export"
  BY <1>6 DEF Paths, ExportPaths, Path, Alternatives
<1>7. CASE a.endpoint \notin {"latest", "samples", "latency-series", "taker-cost-series",
                              "exchange-tps", "exchange-tps-export"}
  BY <1>7 DEF Paths, HealthPath, Alternatives
<1> QED
  BY <1>1, <1>2, <1>3, <1>4, <1>5, <1>6, <1>7

LEMMA PathsAreOwn ==
  ASSUME NEW a
  PROVE  Paths(a) \in Seq(Own(a)) /\ Paths(a) # <<>> /\ Paths(a)[1] \in Own(a)
<1> DEFINE p == Paths(a)[1]
<1>1. Paths(a) = Alternatives(p)
  BY PathsOfPrimary
<1>2. \E q1, q2 : Paths(a) \in {<<p>>, <<p, q1>>, <<p, q1, q2>>}
  BY <1>1 DEF Alternatives
<1> QED
  BY <1>2 DEF Own

-----------------------------------------------------------------------------
(* The invariant                                                           *)

Shape ==
  /\ env \in Envs /\ DOMAIN cookie = Clients
  /\ DOMAIN pc = Requests /\ DOMAIN ask = Requests /\ DOMAIN carried = Requests
  /\ DOMAIN conf = Requests /\ DOMAIN left = Requests /\ DOMAIN answer = Requests

\* Every session was set for the password of an environment.
SessionsEarned ==
  \A c \in Clients : cookie[c] # None =>
    \E f \in Envs : f.secret = cookie[c].secret /\ f.password = cookie[c].by

\* What is kept under the primary path of a query is an answer to the query.
CacheOwn ==
  \A e \in cache : \A a \in Asks : CacheRequest(Paths(a)[1]) = e.key => e.path \in Own(a)

May(r) == Restricted(ask[r]) => Earned(carried[r], conf[r])

RequestOwn(r) ==
  /\ pc[r] \in {"idle", "match", "fetch", "put", "done"}
  /\ left[r] \in Seq(Own(ask[r]))
  /\ pc[r] \in {"idle", "put", "done"} => left[r] = <<>>
  /\ pc[r] # "idle" => ask[r] \in Asks
  /\ pc[r] \in {"match", "fetch"} => left[r] # <<>>
  /\ pc[r] \in {"match", "fetch", "put"} => May(r)
  /\ pc[r] = "put" => answer[r].status = 200
  /\ pc[r] \in {"put", "done"} /\ answer[r].status = 200 => answer[r].path \in Own(ask[r]) /\ May(r)

IInv == Shape /\ SessionsEarned /\ CacheOwn /\ \A r \in Requests : RequestOwn(r)

LEMMA InitOwn == Init => IInv
<1> SUFFICES ASSUME Init PROVE IInv
  OBVIOUS
<1>1. Shape /\ SessionsEarned /\ CacheOwn
  BY DEF Init, Shape, SessionsEarned, CacheOwn
<1>2. ASSUME NEW r \in Requests PROVE RequestOwn(r)
  BY DEF Init, RequestOwn
<1> QED
  BY <1>1, <1>2 DEF IInv

\* A request that a step does not touch.
LEMMA Untouched ==
  ASSUME NEW r, RequestOwn(r), pc'[r] = pc[r], ask'[r] = ask[r], carried'[r] = carried[r],
         conf'[r] = conf[r], left'[r] = left[r], answer'[r] = answer[r]
  PROVE  RequestOwn(r)'
BY DEF RequestOwn, May

LEMMA NoneTouched == IInv /\ UNCHANGED request => \A r \in Requests : RequestOwn(r)'
<1> SUFFICES ASSUME IInv, UNCHANGED request, NEW r \in Requests PROVE RequestOwn(r)'
  OBVIOUS
<1> QED
  BY Untouched DEF IInv, request

\* What each step of a request does to it.
LEMMA OneTouched ==
  ASSUME IInv, NEW r \in Requests,
         (\E c \in Clients, a \in Asks : Send(r, c, a)) \/ Serve(r) \/ Receive(r)
  PROVE  RequestOwn(r)'
<1> USE DEF May
<1>0. Shape /\ SessionsEarned /\ CacheOwn /\ RequestOwn(r)
  BY DEF IInv
<1>d. ASSUME NEW status, NEW rows, NEW path, Done(r, status, rows, path), UNCHANGED <<ask, carried, conf>>,
             pc[r] # "idle", status = 200 => path \in Own(ask[r]) /\ May(r)
      PROVE  RequestOwn(r)'
  <2>1. pc'[r] = "done" /\ left'[r] = <<>> /\ answer'[r].status = status /\ answer'[r].path = path
    BY <1>0, <1>d DEF Done, Shape
  <2> QED
    BY <1>0, <1>d, <2>1 DEF RequestOwn
<1>1. ASSUME NEW c \in Clients, NEW a \in Asks, Send(r, c, a) PROVE RequestOwn(r)'
  <2>1. ask'[r] = a /\ carried'[r] = cookie[c] /\ conf'[r] = env /\ pc[r] = "idle"
    BY <1>0, <1>1 DEF Send, Shape
  <2>2. CASE Restricted(a) /\ ~Authenticated(cookie[c], env)
    <3>1. /\ pc'[r] = "done" /\ left'[r] = <<>>
          /\ answer'[r].status = IF env.secret = None THEN 500 ELSE 401
      BY <1>0, <1>1, <2>2 DEF Send, Done, Shape
    <3>2. answer'[r].status # 200
      BY <3>1
    <3> QED
      BY <2>1, <3>1, <3>2 DEF RequestOwn
  <2>3. CASE ~(Restricted(a) /\ ~Authenticated(cookie[c], env))
    <3>1. pc'[r] \in {"match", "fetch"} /\ left'[r] = Paths(a)
      BY <1>0, <1>1, <2>3 DEF Send, Shape
    <3>2. Restricted(a) => Earned(cookie[c], env)
      BY <1>0, <2>3 DEF Authenticated, Earned, SessionsEarned
    <3> QED
      BY <2>1, <3>1, <3>2, PathsAreOwn DEF RequestOwn
  <2> QED
    BY <2>2, <2>3
<1>2. CASE Hit(r)
  <2>1. PICK e \in cache : e.key = CacheRequest(Primary(r)) /\ Done(r, 200, e.rows, e.path)
    BY <1>2 DEF Hit
  <2>2. e.path \in Own(ask[r]) /\ May(r)
    BY <1>0, <1>2, <2>1 DEF Hit, RequestOwn, CacheOwn, Primary
  <2> QED
    BY <1>2, <1>d, <2>1, <2>2 DEF Hit
<1>3. CASE Miss(r)
  BY <1>0, <1>3 DEF Miss, Shape, RequestOwn
<1>4. CASE MatchFails(r) \/ PutFails(r)
  BY <1>d, <1>4 DEF MatchFails, PutFails
<1>5. CASE FetchFails(r)
  BY <1>d, <1>5 DEF FetchFails
<1>6. CASE Fetched(r)
  <2>1. Head(left[r]) \in Own(ask[r]) /\ May(r) /\ pc[r] = "fetch"
    BY <1>0, <1>6 DEF Fetched, RequestOwn
  <2>2. PICK rows \in SUBSET Venues :
          LET shaped == Filtered(Head(left[r]), rows, conf[r].hidden) IN
          IF ShouldCache(Primary(r), shaped)
          THEN /\ pc' = [pc EXCEPT ![r] = "put"]
               /\ left' = [left EXCEPT ![r] = <<>>]
               /\ answer' = [answer EXCEPT ![r] = [status |-> 200, rows |-> shaped, path |-> Head(left[r])]]
          ELSE Done(r, 200, shaped, Head(left[r]))
    BY <1>6 DEF Fetched
  <2> DEFINE shaped == Filtered(Head(left[r]), rows, conf[r].hidden)
  <2>3. UNCHANGED <<ask, carried, conf>>
    BY <1>6 DEF Fetched
  <2>4. CASE ShouldCache(Primary(r), shaped)
    <3>1. pc'[r] = "put" /\ left'[r] = <<>> /\ answer'[r].status = 200 /\ answer'[r].path = Head(left[r])
      BY <1>0, <2>2, <2>4 DEF Shape
    <3> QED
      BY <1>0, <2>1, <2>3, <3>1 DEF RequestOwn
  <2>5. CASE ~ShouldCache(Primary(r), shaped)
    <3>1. Done(r, 200, shaped, Head(left[r]))
      BY <2>2, <2>5
    <3> HIDE DEF shaped
    <3> QED
      BY <1>d, <2>1, <2>3, <3>1
  <2> QED
    BY <2>4, <2>5
<1>7. CASE NotFound(r)
  <2>1. left'[r] = Tail(left[r]) /\ left[r] \in Seq(Own(ask[r])) /\ Len(left[r]) > 1
    BY <1>0, <1>7 DEF NotFound, Shape, RequestOwn
  <2>2. Tail(left[r]) \in Seq(Own(ask[r])) /\ Tail(left[r]) # <<>>
    <3> DEFINE s == left[r]
               S == Own(ask[r])
    <3>1. s \in Seq(S) /\ Len(s) > 1
      BY <2>1
    <3> HIDE DEF s, S
    <3>2. s # <<>>
      BY <3>1
    <3>3. Tail(s) \in Seq(S) /\ Len(Tail(s)) = Len(s) - 1 /\ Len(s) \in Nat
      BY <3>1, <3>2
    <3>4. Tail(s) # <<>>
      <4> DEFINE t == Tail(s)
      <4>1. Len(t) > 0
        BY <3>1, <3>3
      <4> HIDE DEF t
      <4>2. t # <<>>
        BY <4>1
      <4> QED
        BY <4>2 DEF t
    <3> QED
      BY <3>3, <3>4 DEF s, S
  <2> QED
    BY <1>0, <1>7, <2>1, <2>2 DEF NotFound, RequestOwn
<1>8. CASE Exported(r)
  <2>1. Head(left[r]) \in Own(ask[r]) /\ May(r)
    BY <1>0, <1>8 DEF Exported, RequestOwn
  <2> QED
    BY <1>d, <1>8, <2>1 DEF Exported
<1>9. CASE Put(r)
  BY <1>0, <1>9 DEF Put, Shape, RequestOwn
<1>10. CASE Receive(r)
  <2>1. pc[r] = "done" /\ pc'[r] = "idle" /\ left'[r] = left[r] /\ answer'[r] = Empty
    BY <1>0, <1>10 DEF Receive, Shape
  <2> QED
    BY <1>0, <2>1 DEF RequestOwn
<1> QED
  BY <1>1, <1>2, <1>3, <1>4, <1>5, <1>6, <1>7, <1>8, <1>9, <1>10 DEF Serve

\* A step of one request leaves the others alone.
LEMMA OthersUntouched ==
  ASSUME IInv, NEW r \in Requests, NEW q \in Requests \ {r},
         (\E c \in Clients, a \in Asks : Send(r, c, a)) \/ Serve(r) \/ Receive(r)
  PROVE  RequestOwn(q)'
<1>0. Shape /\ RequestOwn(q)
  BY DEF IInv
<1> SUFFICES /\ pc'[q] = pc[q] /\ ask'[q] = ask[q] /\ carried'[q] = carried[q]
             /\ conf'[q] = conf[q] /\ left'[q] = left[q] /\ answer'[q] = answer[q]
  BY <1>0, Untouched
<1>1. ASSUME NEW c \in Clients, NEW a \in Asks, Send(r, c, a)
      PROVE  /\ pc'[q] = pc[q] /\ ask'[q] = ask[q] /\ carried'[q] = carried[q]
             /\ conf'[q] = conf[q] /\ left'[q] = left[q] /\ answer'[q] = answer[q]
  BY <1>0, <1>1 DEF Send, Done, Shape
<1>2. CASE Receive(r)
  BY <1>0, <1>2 DEF Receive, Shape
<1>3. CASE Hit(r) \/ Miss(r) \/ MatchFails(r)
  BY <1>0, <1>3 DEF Hit, Miss, MatchFails, Done, Shape
<1>4. CASE Fetched(r)
  <2>1. PICK rows, p :
          \/ /\ pc' = [pc EXCEPT ![r] = "put"]
             /\ left' = [left EXCEPT ![r] = <<>>]
             /\ answer' = [answer EXCEPT ![r] = [status |-> 200, rows |-> rows, path |-> p]]
          \/ Done(r, 200, rows, p)
    BY <1>4 DEF Fetched
  <2> QED
    BY <1>0, <1>4, <2>1 DEF Fetched, Done, Shape
<1>5. CASE NotFound(r) \/ FetchFails(r)
  BY <1>0, <1>5 DEF NotFound, FetchFails, Done, Shape
<1>6. CASE Exported(r)
  BY <1>0, <1>6 DEF Exported, Done, Shape
<1>7. CASE Put(r) \/ PutFails(r)
  BY <1>0, <1>7 DEF Put, PutFails, Done, Shape
<1> QED
  BY <1>1, <1>2, <1>3, <1>4, <1>5, <1>6, <1>7 DEF Serve

\* What is put was fetched for the query under whose primary path it is put.
LEMMA PutKeepsOwn ==
  ASSUME IInv, NEW r \in Requests, Put(r)
  PROVE  CacheOwn'
<1> SUFFICES ASSUME NEW e \in cache', NEW a \in Asks, CacheRequest(Paths(a)[1]) = e.key
             PROVE  e.path \in Own(a)
  BY DEF CacheOwn
<1>1. CASE e \in cache
  BY <1>1 DEF IInv, CacheOwn
<1>2. CASE e \notin cache
  <2>1. e.key = Paths(ask[r])[1] /\ e.path = answer[r].path
    BY <1>2 DEF Put, Primary, CacheRequest
  <2>2. e.path \in Own(ask[r])
    BY <2>1 DEF Put, IInv, RequestOwn
  <2>3. Paths(a) = Paths(ask[r])
    BY <2>1, PathsOfPrimary DEF CacheRequest
  <2> QED
    BY <2>2, <2>3 DEF Own
<1> QED
  BY <1>1, <1>2

LEMMA StepOwn == IInv /\ [Next]_vars => IInv'
<1> SUFFICES ASSUME IInv, [Next]_vars PROVE IInv'
  OBVIOUS
<1>0. Shape /\ SessionsEarned /\ CacheOwn
  BY DEF IInv
<1>1. ASSUME UNCHANGED request, UNCHANGED cookie, env' \in Envs, cache' \subseteq cache
      PROVE  IInv'
  <2>1. Shape' /\ SessionsEarned' /\ CacheOwn'
    BY <1>0, <1>1 DEF Shape, SessionsEarned, CacheOwn, request
  <2>2. \A r \in Requests : RequestOwn(r)'
    BY <1>1, NoneTouched
  <2> QED
    BY <2>1, <2>2 DEF IInv
<1>2. ASSUME NEW c \in Clients, Logout(c) PROVE IInv'
  <2>1. Shape' /\ SessionsEarned' /\ CacheOwn'
    BY <1>0, <1>2 DEF Logout, Shape, SessionsEarned, CacheOwn, request
  <2>2. \A r \in Requests : RequestOwn(r)'
    BY <1>2, NoneTouched DEF Logout
  <2> QED
    BY <2>1, <2>2 DEF IInv
<1>3. ASSUME NEW c \in Clients, NEW typed \in Attempts, Login(c, typed) PROVE IInv'
  <2>1. Shape' /\ CacheOwn'
    BY <1>0, <1>3 DEF Login, Shape, CacheOwn, request
  <2>2. typed = env.password
    <3>1. typed \in Texts /\ env.password \in Texts
      BY <1>0, <1>3, ProxyAssumption DEF Login, Configured, Shape
    <3> QED
      BY <1>3, <3>1, EqualTexts DEF Login
  <2>3. SessionsEarned'
    <3> SUFFICES ASSUME NEW d \in Clients, cookie'[d] # None
                 PROVE  \E f \in Envs : f.secret = cookie'[d].secret /\ f.password = cookie'[d].by
      BY DEF SessionsEarned
    <3>1. CASE d = c
      <4>1. cookie'[d] = [secret |-> env.secret, by |-> typed]
        BY <1>0, <1>3, <3>1 DEF Login, Shape
      <4> QED
        BY <1>0, <2>2, <4>1 DEF Shape
    <3>2. CASE d # c
      BY <1>0, <1>3, <3>2 DEF Login, Shape, SessionsEarned
    <3> QED
      BY <3>1, <3>2
  <2>4. \A r \in Requests : RequestOwn(r)'
    BY <1>3, NoneTouched DEF Login
  <2> QED
    BY <2>1, <2>3, <2>4 DEF IInv
<1>4. ASSUME NEW r \in Requests,
             (\E c \in Clients, a \in Asks : Send(r, c, a)) \/ Serve(r) \/ Receive(r)
      PROVE  IInv'
  <2>1. UNCHANGED <<env, cookie>>
    BY <1>4 DEF Send, Serve, Receive, Hit, Miss, MatchFails, Fetched, NotFound, FetchFails, Exported,
       Put, PutFails
  <2>2. Shape'
    BY <1>0, <1>4, <2>1 DEF Shape, Send, Serve, Receive, Hit, Miss, MatchFails, Fetched, NotFound,
       FetchFails, Exported, Put, PutFails, Done
  <2>3. SessionsEarned'
    BY <1>0, <2>1 DEF SessionsEarned
  <2>4. CacheOwn'
    <3>1. CASE UNCHANGED cache
      BY <1>0, <3>1 DEF CacheOwn
    <3>2. Put(r) \/ UNCHANGED cache
      BY <1>4 DEF Send, Serve, Receive, Hit, Miss, MatchFails, Fetched, NotFound, FetchFails, Exported,
         PutFails
    <3> QED
      BY <3>1, <3>2, PutKeepsOwn
  <2>5. \A q \in Requests : RequestOwn(q)'
    BY <1>4, OneTouched, OthersUntouched
  <2> QED
    BY <2>2, <2>3, <2>4, <2>5 DEF IInv
<1>5. ASSUME NEW e \in Envs, Deploy(e) PROVE IInv'
  BY <1>1, <1>5 DEF Deploy
<1>6. CASE Tick
  BY <1>0, <1>1, <1>6 DEF Tick, Shape
<1>7. CASE UNCHANGED vars
  BY <1>0, <1>1, <1>7 DEF vars, Shape
<1> QED
  BY <1>2, <1>3, <1>4, <1>5, <1>6, <1>7 DEF Next, Step

\* Data come from a path of the request's own query, also out of the cache
\* that all browsers share, and restricted data go only to a cookie earned
\* with the password (bench.server.ts proxyBenchJSONWithFallback, the routes'
\* requireAdvancedAuth).
THEOREM AnswersAreOwn == Spec => []AnswersOwn
<1>1. IInv => AnswersOwn
  <2> SUFFICES ASSUME IInv, NEW r \in Requests, pc[r] \in {"put", "done"}, answer[r].status = 200
               PROVE  /\ \E i \in DOMAIN Paths(ask[r]) : answer[r].path = Paths(ask[r])[i]
                      /\ Restricted(ask[r]) => Earned(carried[r], conf[r])
    BY DEF AnswersOwn
  <2>1. answer[r].path \in Own(ask[r]) /\ May(r)
    BY DEF IInv, RequestOwn
  <2> QED
    BY <2>1 DEF Own, May
<1> QED
  BY <1>1, InitOwn, StepOwn, PTL DEF Spec

-----------------------------------------------------------------------------
(* What is kept                                                            *)

\* An answer about to be put is one to be kept.
Kept(r) == pc[r] = "put" => ShouldCache(Primary(r), answer[r].rows)

KInv == Shape /\ EmptyNotKept /\ \A r \in Requests : Kept(r)

\* A request that a step leaves as it was, or that does not come to be put.
LEMMA KeptUnlessFetched ==
  ASSUME NEW q, Kept(q), pc'[q] # "put" \/ (pc'[q] = pc[q] /\ ask'[q] = ask[q] /\ answer'[q] = answer[q])
  PROVE  Kept(q)'
BY DEF Kept, Primary

\* A step of a request: its own answer, and those of the others.
LEMMA RequestKeeps ==
  ASSUME KInv, NEW r \in Requests, NEW q \in Requests,
         (\E c \in Clients, a \in Asks : Send(r, c, a)) \/ Serve(r) \/ Receive(r)
  PROVE  Kept(q)'
<1>0. Shape /\ Kept(q)
  BY DEF KInv
<1>1. CASE Fetched(r)
  <2>1. PICK rows, shaped :
          /\ rows \in SUBSET Venues
          /\ shaped = Filtered(Head(left[r]), rows, conf[r].hidden)
          /\ IF ShouldCache(Primary(r), shaped)
             THEN /\ pc' = [pc EXCEPT ![r] = "put"]
                  /\ left' = [left EXCEPT ![r] = <<>>]
                  /\ answer' = [answer EXCEPT ![r] = [status |-> 200, rows |-> shaped, path |-> Head(left[r])]]
             ELSE Done(r, 200, shaped, Head(left[r]))
    BY <1>1 DEF Fetched
  <2>2. CASE q = r
    <3>1. CASE ShouldCache(Primary(r), shaped)
      <4>1. answer'[r].rows = shaped /\ ask' = ask
        BY <1>0, <1>1, <2>1, <3>1 DEF Fetched, Shape
      <4> QED
        BY <2>2, <3>1, <4>1 DEF Kept, Primary
    <3>2. CASE ~ShouldCache(Primary(r), shaped)
      BY <1>0, <2>1, <2>2, <3>2 DEF Done, Shape, Kept
    <3> QED
      BY <3>1, <3>2
  <2>3. CASE q # r
    BY <1>0, <1>1, <2>1, <2>3, KeptUnlessFetched DEF Fetched, Done, Shape
  <2> QED
    BY <2>2, <2>3
<1>2. ASSUME NEW c \in Clients, NEW a \in Asks, Send(r, c, a) PROVE Kept(q)'
  <2>1. pc'[q] # "put" \/ (pc'[q] = pc[q] /\ ask'[q] = ask[q] /\ answer'[q] = answer[q])
    BY <1>0, <1>2 DEF Send, Done, Shape
  <2> QED
    BY <1>0, <2>1, KeptUnlessFetched
<1>3. CASE Hit(r) \/ Miss(r) \/ MatchFails(r) \/ FetchFails(r) \/ Exported(r) \/ Put(r) \/ PutFails(r)
  <2>1. pc'[q] # "put" \/ (pc'[q] = pc[q] /\ ask'[q] = ask[q] /\ answer'[q] = answer[q])
    BY <1>0, <1>3 DEF Hit, Miss, MatchFails, FetchFails, Exported, Put, PutFails, Done, Shape
  <2> QED
    BY <1>0, <2>1, KeptUnlessFetched
<1>4. CASE NotFound(r)
  BY <1>0, <1>4, KeptUnlessFetched DEF NotFound
<1>5. CASE Receive(r)
  <2>1. pc'[q] # "put" \/ (pc'[q] = pc[q] /\ ask'[q] = ask[q] /\ answer'[q] = answer[q])
    BY <1>0, <1>5 DEF Receive, Shape
  <2> QED
    BY <1>0, <2>1, KeptUnlessFetched
<1> QED
  BY <1>1, <1>2, <1>3, <1>4, <1>5 DEF Serve

\* Only Put adds to the cache.
LEMMA CacheKeeps ==
  ASSUME KInv, [Next]_vars
  PROVE  EmptyNotKept'
<1>1. ASSUME NEW r \in Requests, Put(r) PROVE EmptyNotKept'
  <2> SUFFICES ASSUME NEW e \in cache', e.key.route \in SampleRoutes \cup {"latest", "health"}
               PROVE  e.rows # {}
    BY DEF EmptyNotKept
  <2>1. CASE e \in cache
    BY <2>1 DEF KInv, EmptyNotKept
  <2>2. CASE e \notin cache
    <3>1. e.key = Primary(r) /\ e.rows = answer[r].rows
      BY <1>1, <2>2 DEF Put, CacheRequest
    <3>2. ShouldCache(Primary(r), answer[r].rows)
      BY <1>1 DEF Put, KInv, Kept
    <3> QED
      BY <3>1, <3>2 DEF ShouldCache
  <2> QED
    BY <2>1, <2>2
<1>2. ASSUME cache' \subseteq cache PROVE EmptyNotKept'
  BY <1>2 DEF KInv, EmptyNotKept
<1>3. (\E r \in Requests : Put(r)) \/ cache' \subseteq cache
  BY DEF Next, Step, vars, Logout, Login, Send, Serve, Receive, Hit, Miss, MatchFails, Fetched, NotFound,
     FetchFails, Exported, PutFails, Deploy, Tick
<1> QED
  BY <1>1, <1>2, <1>3

LEMMA StepKeeps == IInv /\ IInv' /\ KInv /\ [Next]_vars => KInv'
<1> SUFFICES ASSUME IInv', KInv, [Next]_vars PROVE KInv'
  OBVIOUS
<1>1. ASSUME NEW q \in Requests PROVE Kept(q)'
  <2>0. Kept(q)
    BY DEF KInv
  <2>1. CASE UNCHANGED request
    BY <2>0, <2>1, KeptUnlessFetched DEF request
  <2>2. ASSUME NEW r \in Requests,
               (\E c \in Clients, a \in Asks : Send(r, c, a)) \/ Serve(r) \/ Receive(r)
        PROVE  Kept(q)'
    BY <2>2, RequestKeeps
  <2> QED
    BY <2>1, <2>2 DEF Next, Step, vars, Logout, Login, Deploy, Tick
<1> QED
  BY <1>1, CacheKeeps DEF KInv, IInv

\* No query whose emptiness says nothing is answered out of the cache with
\* nothing (bench.server.ts shouldCacheBenchData).
THEOREM NothingEmptyKept == Spec => []EmptyNotKept
<1>1. Init => KInv
  BY InitOwn DEF Init, KInv, Kept, EmptyNotKept, IInv
<1>2. KInv => EmptyNotKept
  BY DEF KInv
<1> QED
  BY <1>1, <1>2, InitOwn, StepOwn, StepKeeps, PTL DEF Spec

-----------------------------------------------------------------------------
(* What is hidden                                                          *)

FilteredRoutes == SampleRoutes \cup {"latest", "exchange-tps"}

LEMMA FilteredPaths ==
  ASSUME NEW a \in Asks, a.endpoint # "health", NEW p \in Own(a)
  PROVE  p.route \in FilteredRoutes
<1>1. \A i \in DOMAIN Paths(a) : Paths(a)[i].route \in FilteredRoutes
  <2>1. CASE a.endpoint = "latest"
    BY <2>1 DEF Paths, LatestPaths, Path, FilteredRoutes
  <2>2. CASE a.endpoint = "samples"
    BY <2>2 DEF Paths, SamplesPaths, Path, FilteredRoutes, SampleRoutes
  <2>3. CASE a.endpoint = "latency-series" \/ a.endpoint = "taker-cost-series"
    BY <2>3 DEF Paths, SeriesPaths, Path, FilteredRoutes, SampleRoutes
  <2>4. CASE a.endpoint = "exchange-tps"
    BY <2>4 DEF Paths, TPSPaths, Path, FilteredRoutes
  <2>5. CASE a.endpoint = "exchange-tps-export"
    BY <2>5 DEF Paths, ExportPaths, Path, FilteredRoutes
  <2> QED
    BY <2>1, <2>2, <2>3, <2>4, <2>5, ProxyAssumption DEF Endpoints
<1> QED
  BY <1>1 DEF Own

\* The one path of health is no other query's.
LEMMA HealthAlone ==
  ASSUME NEW a \in Asks
  PROVE  a.endpoint # "health" => Paths(a)[1].route # "health"
<1> SUFFICES ASSUME a.endpoint # "health" PROVE Paths(a)[1].route # "health"
  OBVIOUS
<1>1. Paths(a)[1] \in Own(a)
  <2>1. Paths(a) = Alternatives(Paths(a)[1])
    BY PathsOfPrimary
  <2> HIDE DEF Paths
  <2> QED
    BY <2>1 DEF Alternatives, Own
<1> QED
  BY <1>1, FilteredPaths DEF FilteredRoutes, SampleRoutes

Clock == now \in Nat /\ shown \in [Venues -> Nat] /\ \A v \in Venues : shown[v] <= now

\* An entry's venues were shown by a worker when it was put, or later.
EntryShown(e) ==
  /\ e.at \in Nat /\ e.rows \subseteq Venues
  /\ e.key.route # "health" => \A v \in e.rows : e.at <= shown[v]

\* What a request is about to put, its worker does not hide.
PutsVisible(r) ==
  pc[r] = "put" => /\ answer[r].rows \subseteq Venues
                   /\ ask[r].endpoint # "health" => answer[r].rows \cap conf[r].hidden = {}

HInv == Clock /\ (\A e \in cache : EntryShown(e)) /\ \A r \in Requests : PutsVisible(r)

\* The clock, and the times at which venues were last shown, go on.
LEMMA ClockKept ==
  ASSUME Clock, [Next]_vars
  PROVE  /\ Clock'
         /\ \A v \in Venues : shown[v] <= shown'[v]
         /\ now <= now' /\ (Next => \A v \in Venues : Visible(v) => shown'[v] = now)
<1>1. now' = now \/ now' = now + 1
  BY DEF Next, Step, vars, Logout, Login, Send, Serve, Receive, Hit, Miss, MatchFails, Fetched, NotFound,
     FetchFails, Exported, Put, PutFails, Deploy, Tick
<1>2. CASE Next
  <2>1. shown' = [v \in Venues |-> IF Visible(v) THEN now ELSE shown[v]]
    BY <1>2 DEF Next, Observe
  <2> HIDE DEF Visible
  <2>2. shown' \in [Venues -> Nat] /\ \A v \in Venues : shown[v] <= shown'[v] /\ shown'[v] <= now
    BY <2>1 DEF Clock
  <2> QED
    BY <1>1, <2>1, <2>2 DEF Clock
<1>3. CASE UNCHANGED vars
  <2>1. now' = now /\ shown' = shown
    BY <1>3 DEF vars
  <2>2. ~Next \/ \A v \in Venues : Visible(v) => shown'[v] = now
    BY <1>2
  <2> QED
    BY <2>1, <2>2, <1>2 DEF Clock
<1> QED
  BY <1>2, <1>3

\* What Fetched leaves of the rows of a path is not hidden.
LEMMA FetchedVisible ==
  ASSUME IInv, NEW r \in Requests, pc[r] = "fetch", ask[r].endpoint # "health",
         NEW rows \in SUBSET Venues
  PROVE  /\ Filtered(Head(left[r]), rows, conf[r].hidden) \subseteq Venues
         /\ Filtered(Head(left[r]), rows, conf[r].hidden) \cap conf[r].hidden = {}
<1>1. Head(left[r]) \in Own(ask[r]) /\ ask[r] \in Asks
  <2>1. left[r] \in Seq(Own(ask[r])) /\ left[r] # <<>> /\ ask[r] \in Asks
    BY DEF IInv, RequestOwn
  <2> QED
    BY <2>1
<1>2. Head(left[r]).route \in FilteredRoutes
  BY <1>1, FilteredPaths
<1> QED
  BY <1>2 DEF Filtered, FilteredRoutes

LEMMA RequestPutsVisible ==
  ASSUME IInv, HInv, NEW r \in Requests, NEW q \in Requests,
         (\E c \in Clients, a \in Asks : Send(r, c, a)) \/ Serve(r) \/ Receive(r)
  PROVE  PutsVisible(q)'
<1>0. Shape /\ PutsVisible(q)
  BY DEF IInv, HInv
<1>1. CASE Fetched(r)
  <2>1. PICK rows, shaped :
          /\ rows \in SUBSET Venues
          /\ shaped = Filtered(Head(left[r]), rows, conf[r].hidden)
          /\ \/ /\ pc' = [pc EXCEPT ![r] = "put"]
                /\ answer' = [answer EXCEPT ![r] = [status |-> 200, rows |-> shaped, path |-> Head(left[r])]]
             \/ Done(r, 200, shaped, Head(left[r]))
    BY <1>1 DEF Fetched
  <2>2. CASE q = r /\ pc'[r] = "put"
    <3>1. answer'[r].rows = shaped /\ ask' = ask /\ conf' = conf
      BY <1>0, <1>1, <2>1, <2>2 DEF Fetched, Shape, Done
    <3>2. shaped \subseteq Venues
      BY <2>1 DEF Filtered
    <3>3. ask[r].endpoint # "health" => shaped \cap conf[r].hidden = {}
      BY <1>1, <2>1, FetchedVisible DEF Fetched
    <3> QED
      BY <2>2, <3>1, <3>2, <3>3 DEF PutsVisible
  <2>3. CASE q = r /\ pc'[r] # "put"
    BY <2>3 DEF PutsVisible
  <2>4. CASE q # r
    <3>1. pc'[q] = pc[q] /\ ask'[q] = ask[q] /\ conf'[q] = conf[q] /\ answer'[q] = answer[q]
      BY <1>0, <1>1, <2>1, <2>4 DEF Fetched, Done, Shape
    <3> QED
      BY <1>0, <3>1 DEF PutsVisible
  <2> QED
    BY <2>2, <2>3, <2>4
<1>2. pc'[q] # "put" \/ (pc'[q] = pc[q] /\ ask'[q] = ask[q] /\ conf'[q] = conf[q] /\ answer'[q] = answer[q])
      \/ Fetched(r)
  <2>1. ASSUME NEW c \in Clients, NEW a \in Asks, Send(r, c, a)
        PROVE  pc'[q] # "put" \/ (pc'[q] = pc[q] /\ ask'[q] = ask[q] /\ conf'[q] = conf[q] /\ answer'[q] = answer[q])
    BY <1>0, <2>1 DEF Send, Done, Shape
  <2>2. CASE Hit(r) \/ Miss(r) \/ MatchFails(r) \/ FetchFails(r) \/ Exported(r) \/ Put(r) \/ PutFails(r)
    BY <1>0, <2>2 DEF Hit, Miss, MatchFails, FetchFails, Exported, Put, PutFails, Done, Shape
  <2>3. CASE NotFound(r) \/ Receive(r)
    BY <1>0, <2>3 DEF NotFound, Receive, Shape
  <2> QED
    BY <2>1, <2>2, <2>3 DEF Serve
<1> QED
  BY <1>0, <1>1, <1>2 DEF PutsVisible

\* An entry that is put now has only venues that a worker, the one that puts
\* it, shows now.
LEMMA EntriesShown ==
  ASSUME IInv, HInv, [Next]_vars, NEW e \in cache'
  PROVE  EntryShown(e)'
<1>0. Clock /\ Clock' /\ \A v \in Venues : shown[v] <= shown'[v]
  BY ClockKept DEF HInv
<1>1. CASE e \in cache
  <2>1. EntryShown(e)
    BY <1>1 DEF HInv
  <2>2. \A v \in Venues : shown[v] \in Nat /\ shown'[v] \in Nat /\ shown[v] <= shown'[v]
    BY <1>0 DEF Clock
  <2> QED
    BY <2>1, <2>2 DEF EntryShown
<1>2. CASE e \notin cache
  <2>1. PICK r \in Requests : Put(r) /\ Next
    BY <1>2 DEF Next, Step, vars, Logout, Login, Send, Serve, Receive, Hit, Miss, MatchFails, Fetched,
       NotFound, FetchFails, Exported, PutFails, Deploy, Tick
  <2>2. e.key = Paths(ask[r])[1] /\ e.rows = answer[r].rows /\ e.at = now /\ pc[r] = "put"
    BY <1>2, <2>1 DEF Put, CacheRequest, Primary
  <2>3. ask[r] \in Asks /\ answer[r].rows \subseteq Venues
    BY <2>2 DEF IInv, RequestOwn, HInv, PutsVisible
  <2>4. ASSUME e.key.route # "health", NEW v \in e.rows PROVE e.at <= shown'[v]
    <3>1. ask[r].endpoint # "health"
      BY <2>2, <2>4 DEF Paths, HealthPath
    <3>2. v \notin conf[r].hidden
      BY <2>2, <2>4, <3>1 DEF HInv, PutsVisible
    <3>3. Visible(v)
      BY <2>2, <3>2 DEF Visible
    <3> QED
      BY <1>0, <2>1, <2>2, <2>3, <2>4, <3>3, ClockKept DEF Clock
  <2> QED
    BY <1>0, <2>2, <2>3, <2>4 DEF EntryShown, Clock
<1> QED
  BY <1>1, <1>2

LEMMA StepHides == IInv /\ HInv /\ [Next]_vars => HInv'
<1> SUFFICES ASSUME IInv, HInv, [Next]_vars PROVE HInv'
  OBVIOUS
<1>1. Clock'
  BY ClockKept DEF HInv
<1>2. \A e \in cache' : EntryShown(e)'
  BY EntriesShown
<1>3. ASSUME NEW q \in Requests PROVE PutsVisible(q)'
  <2>1. CASE UNCHANGED request
    BY <2>1 DEF HInv, PutsVisible, request
  <2>2. ASSUME NEW r \in Requests,
               (\E c \in Clients, a \in Asks : Send(r, c, a)) \/ Serve(r) \/ Receive(r)
        PROVE  PutsVisible(q)'
    BY <2>2, RequestPutsVisible
  <2> QED
    BY <2>1, <2>2 DEF Next, Step, vars, Logout, Login, Deploy, Tick
<1> QED
  BY <1>1, <1>2, <1>3 DEF HInv

\* What a request is answered with as it becomes done.
LEMMA StepShowsFresh ==
  ASSUME IInv, HInv, [Next]_vars, NEW r \in Requests, pc[r] # "done", pc'[r] = "done",
         ask'[r].endpoint \notin {"exchange-tps-export", "health"},
         NEW v \in answer'[r].rows \cap conf'[r].hidden
  PROVE  now - shown'[v] < TTL
<1>0. Shape /\ Clock /\ Clock' /\ (\A u \in Venues : shown[u] <= shown'[u])
  BY ClockKept DEF HInv, IInv
<1>1. ASSUME NEW q \in Requests,
             (\E c \in Clients, a \in Asks : Send(q, c, a)) \/ Serve(q) \/ Receive(q)
      PROVE  q = r
  <2> SUFFICES ASSUME q # r PROVE FALSE
    OBVIOUS
  <2>1. pc'[r] = pc[r]
    <3>1. ASSUME NEW c \in Clients, NEW a \in Asks, Send(q, c, a) PROVE pc'[r] = pc[r]
      BY <1>0, <3>1 DEF Send, Done, Shape
    <3>2. CASE Fetched(q)
      <4>1. pc' = [pc EXCEPT ![q] = "put"] \/ pc' = [pc EXCEPT ![q] = "done"]
        BY <3>2 DEF Fetched, Done
      <4> QED
        BY <1>0, <4>1 DEF Shape
    <3>3. CASE Hit(q) \/ Miss(q) \/ MatchFails(q) \/ FetchFails(q) \/ Exported(q) \/ Put(q) \/ PutFails(q)
      BY <1>0, <3>3 DEF Hit, Miss, MatchFails, FetchFails, Exported, Put, PutFails, Done, Shape
    <3>4. CASE NotFound(q) \/ Receive(q)
      BY <1>0, <3>4 DEF NotFound, Receive, Shape
    <3> QED
      BY <1>1, <3>1, <3>2, <3>3, <3>4 DEF Serve
  <2> QED
    BY <2>1
<1>2. (\E c \in Clients, a \in Asks : Send(r, c, a)) \/ Serve(r) \/ Receive(r)
  <2>1. \/ UNCHANGED pc
        \/ \E q \in Requests : (\E c \in Clients, a \in Asks : Send(q, c, a)) \/ Serve(q) \/ Receive(q)
    BY DEF Next, Step, vars, Logout, Login, Deploy, Tick, request
  <2> QED
    BY <1>1, <2>1
<1>3. CASE Hit(r)
  <2>1. PICK e \in cache : e.key = Paths(ask[r])[1] /\ now - e.at < TTL /\ Done(r, 200, e.rows, e.path)
    BY <1>3 DEF Hit, Fresh, CacheRequest, Primary
  <2>2. answer'[r].rows = e.rows /\ ask' = ask
    BY <1>0, <1>3, <2>1 DEF Hit, Done, Shape
  <2>3. ask[r] \in Asks
    BY <1>3 DEF Hit, IInv, RequestOwn
  <2>4. e.key.route # "health"
    BY <2>1, <2>2, <2>3, HealthAlone
  <2>5. e.at \in Nat /\ v \in Venues /\ e.at <= shown[v]
    BY <2>2, <2>4 DEF HInv, EntryShown
  <2>6. shown[v] \in Nat /\ shown'[v] \in Nat /\ shown[v] <= shown'[v] /\ now \in Nat
    BY <1>0, <2>5 DEF Clock
  <2> QED
    BY <2>1, <2>5, <2>6, ProxyAssumption
<1>4. CASE Fetched(r)
  <2>1. PICK rows, shaped :
          /\ rows \in SUBSET Venues
          /\ shaped = Filtered(Head(left[r]), rows, conf[r].hidden)
          /\ \/ pc' = [pc EXCEPT ![r] = "put"]
             \/ Done(r, 200, shaped, Head(left[r]))
    BY <1>4 DEF Fetched
  <2>2. answer'[r].rows = shaped /\ ask' = ask /\ conf' = conf
    BY <1>0, <1>4, <2>1 DEF Fetched, Done, Shape
  <2>3. shaped \cap conf[r].hidden = {}
    BY <1>4, <2>1, <2>2, FetchedVisible DEF Fetched
  <2> QED
    BY <2>2, <2>3
<1>5. CASE Put(r)
  <2>1. answer' = answer /\ ask' = ask /\ conf' = conf /\ pc[r] = "put"
    BY <1>5 DEF Put
  <2> QED
    BY <2>1 DEF HInv, PutsVisible
<1>6. ASSUME NEW c \in Clients, NEW a \in Asks, Send(r, c, a) PROVE answer'[r].rows = {}
  <2>1. Done(r, IF env.secret = None THEN 500 ELSE 401, {}, None)
    BY <1>0, <1>6 DEF Send, Shape
  <2> QED
    BY <1>0, <2>1 DEF Done, Shape
<1>7. CASE MatchFails(r) \/ FetchFails(r) \/ PutFails(r)
  BY <1>0, <1>7 DEF MatchFails, FetchFails, PutFails, Done, Shape
<1>8. CASE Miss(r) \/ NotFound(r) \/ Receive(r)
  BY <1>0, <1>8 DEF Miss, NotFound, Receive, Shape
<1>9. CASE Exported(r)
  BY <1>9 DEF Exported
<1> QED
  BY <1>2, <1>3, <1>4, <1>5, <1>6, <1>7, <1>8, <1>9 DEF Serve

\* A deployment that hides a venue shows it only out of the cache, and for no
\* longer than an entry lives (bench.server.ts hiddenVenueSet, cacheHeaders).
THEOREM HiddenFades == Spec => HiddenSoon
<1>1. Init => HInv
  BY DEF Init, HInv, Clock, PutsVisible
<1>2. IInv /\ HInv /\ [Next]_vars =>
        [\A r \in Requests :
           /\ pc[r] # "done" /\ pc'[r] = "done"
           /\ ask'[r].endpoint \notin {"exchange-tps-export", "health"}
           => \A v \in answer'[r].rows \cap conf'[r].hidden : now - shown'[v] < TTL]_vars
  BY StepShowsFresh
<1> QED
  BY <1>1, <1>2, InitOwn, StepOwn, StepHides, PTL DEF Spec, HiddenSoon
=============================================================================
