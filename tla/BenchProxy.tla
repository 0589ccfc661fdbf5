----------------------------- MODULE BenchProxy -----------------------------
(***************************************************************************)
(* The site's worker: the routes under /api/bench, their windows and       *)
(* login, and the proxy in front of the benchmark API with its response    *)
(* cache.  Requests of several browsers run side by side; between two of   *)
(* them the site may be deployed with another environment, while requests  *)
(* that began before go on with the old one and the cache survives.        *)
(*                                                                         *)
(* An answer of the API is the set of venues its rows are of.  Of          *)
(* /api/health, an answer with ok: false is the empty one.                 *)
(***************************************************************************)
EXTENDS Integers, Sequences

CONSTANTS
  Clients,    \* browsers
  Requests,   \* requests that may be under way at once
  Venues,
  Asks,       \* the queries sent: [endpoint, window, bucket, limit, venues]
  Envs,       \* environments deployed: [hidden, password, secret]
  Attempts,   \* passwords typed, as sequences of character codes
  TTL,        \* BENCH_API_CACHE_TTL_SECONDS, in ticks
  None,
  MaxTime     \* bound on the clock

Texts == Seq(Nat)

Endpoints == {"latest", "samples", "latency-series", "taker-cost-series",
              "exchange-tps", "exchange-tps-export", "health"}

ASSUME ProxyAssumption ==
  /\ None \notin Venues /\ None \notin Texts
  /\ Attempts \subseteq Texts
  /\ \A e \in Envs : /\ e.hidden \subseteq Venues
                     /\ e.password \in Texts \cup {None}
  /\ \A a \in Asks : a.endpoint \in Endpoints
  /\ TTL \in Nat /\ MaxTime \in Nat

-----------------------------------------------------------------------------
(* Windows                                                                 *)

PublicWindows == {"6h", "12h", "24h"}
AdvancedWindows == {"7d", "30d", "90d", "365d"}
WindowOptions == PublicWindows \cup AdvancedWindows
SummaryWindowOptions == WindowOptions \cup {"all"}

LongWindows == {"30d", "90d", "365d"}
BucketForWindow(w) == IF w \in LongWindows THEN "1h" ELSE "1m"

\* resolveBenchWindow and resolveSummaryWindow: which window an asked value,
\* or its absence, stands for.
ResolveWindow(endpoint, asked) ==
  IF endpoint = "latest"
  THEN IF asked \in SummaryWindowOptions THEN asked ELSE "24h"
  ELSE IF asked \in WindowOptions THEN asked ELSE "12h"

Public(endpoint, w) == w \in PublicWindows \/ (endpoint = "latest" /\ w = "all")

\* benchWindowToAPIParam, in hours.
APIWindow(w) ==
  CASE w = "7d" -> "168h" [] w = "30d" -> "720h" [] w = "90d" -> "2160h"
    [] w = "365d" -> "8760h" [] OTHER -> w

-----------------------------------------------------------------------------
(* Routes                                                                  *)

Bounded(asked, max) == IF asked > max THEN max ELSE asked
\* 0 stands for everything that is not a positive integer.
SafeLimit(asked, max, default) == IF asked > 0 THEN Bounded(asked, max) ELSE default

Path(route, w, bucket, limit) ==
  [route |-> route, window |-> APIWindow(w), bucket |-> bucket, limit |-> limit]

HealthPath == [route |-> "health", window |-> None, bucket |-> None, limit |-> None]

WindowOf(a) == ResolveWindow(a.endpoint, a.window)

LatestPaths(a) ==
  LET w == WindowOf(a) IN <<Path("latest", w, None, IF w = "all" THEN 1000000 ELSE 100000)>>

SamplesPaths(a) ==
  LET n == SafeLimit(a.limit, 10000, 2000) IN
  <<Path("dashboard/samples", WindowOf(a), None, n), Path("samples", WindowOf(a), None, n)>>

\* The two series have an endpoint of their own, which an older API lacks.
SeriesPaths(route, a) ==
  LET n == SafeLimit(a.limit, 100000, 2000) IN
  <<Path(route, WindowOf(a), None, n), Path("dashboard/samples", WindowOf(a), None, n),
    Path("samples", WindowOf(a), None, n)>>

TPSPaths(a) ==
  LET bucket == IF a.bucket \in {"1m", "1h"} THEN a.bucket ELSE BucketForWindow(WindowOf(a)) IN
  <<Path("exchange-tps", WindowOf(a), bucket, SafeLimit(a.limit, 100000, 100000))>>

ExportPaths(a) ==
  <<Path("exchange-tps", WindowOf(a), BucketForWindow(WindowOf(a)), 100000)>>

\* The API paths a route tries, in their order.
Paths(a) ==
  CASE a.endpoint = "latest" -> LatestPaths(a)
    [] a.endpoint = "samples" -> SamplesPaths(a)
    [] a.endpoint = "latency-series" -> SeriesPaths("dashboard/latency-series", a)
    [] a.endpoint = "taker-cost-series" -> SeriesPaths("dashboard/taker-cost-series", a)
    [] a.endpoint = "exchange-tps" -> TPSPaths(a)
    [] a.endpoint = "exchange-tps-export" -> ExportPaths(a)
    [] OTHER -> <<HealthPath>>

Restricted(a) == a.endpoint # "health" /\ ~Public(a.endpoint, WindowOf(a))

-----------------------------------------------------------------------------
(* Answers                                                                 *)

SampleRoutes == {"samples", "dashboard/samples", "dashboard/latency-series", "dashboard/taker-cost-series"}

\* Mutant of Filtered: the rows of the fallbacks are left as they are.
FilteredFirst(p, rows, hidden) ==
  IF p.route \in {"latest", "dashboard/samples"} THEN rows \ hidden ELSE rows

\* filterBenchJSON
Filtered(p, rows, hidden) ==
  IF p.route \in SampleRoutes \cup {"latest", "exchange-tps"} THEN rows \ hidden ELSE rows

\* Mutant of ShouldCache: only what is missing altogether is not kept.
ShouldCacheSummaries(p, rows) == p.route \in {"latest", "health"} => rows # {}

\* shouldCacheBenchData
ShouldCache(p, rows) == p.route \in SampleRoutes \cup {"latest", "health"} => rows # {}

\* Mutant of CacheRequest: the window is not part of the key.
CacheRequestAnyWindow(p) == [p EXCEPT !.window = None]

\* The path, under a prefix, is the key.
CacheRequest(p) == p

\* The rows the export writes: selectedVenues is null when no list was sent.
Selected(a, rows) == IF a.venues = None THEN rows ELSE rows \cap a.venues

-----------------------------------------------------------------------------
VARIABLES
  env,      \* the environment deployed now
  cookie,   \* each browser's session cookie, or None
  pc,       \* each request: "idle", "match", "fetch", "put", "done"
  ask,      \* its query
  carried,  \* the cookie it was sent with
  conf,     \* the environment of the worker that runs it
  left,     \* API paths it has still to try
  answer,   \* [status, rows, path]: what it has so far, and of which path
  cache,    \* entries [key, path, rows, at]
  now,
  shown     \* history: when a worker that does not hide the venue last ran

request == <<pc, ask, carried, conf, left, answer>>
vars == <<env, cookie, request, cache, now, shown>>

Empty == [status |-> 0, rows |-> {}, path |-> None]

Init ==
  /\ env \in Envs
  /\ cookie = [c \in Clients |-> None]
  /\ pc = [r \in Requests |-> "idle"]
  /\ ask = [r \in Requests |-> None]
  /\ carried = [r \in Requests |-> None]
  /\ conf = [r \in Requests |-> None]
  /\ left = [r \in Requests |-> <<>>]
  /\ answer = [r \in Requests |-> Empty]
  /\ cache = {}
  /\ now = 0
  /\ shown = [v \in Venues |-> 0]

\* Some worker that runs now, or would run, leaves v visible.
Visible(v) ==
  \/ v \notin env.hidden
  \/ \E r \in Requests : pc[r] # "idle" /\ v \notin conf[r].hidden

Observe == shown' = [v \in Venues |-> IF Visible(v) THEN now ELSE shown[v]]

-----------------------------------------------------------------------------
(* Login                                                                   *)

Code(text, i) == IF i \in 1..Len(text) THEN text[i] ELSE 0

\* A character beyond the end of a text counts as 0.
ConstantTimeEqual(l, m) ==
  Len(l) = Len(m) /\ \A i \in 1..Len(l) : Code(l, i) = Code(m, i)

Configured(e) == e.password # None /\ e.secret # None

\* The session is its cookie, sealed with the secret of the worker that set
\* it; "by" records the password that was typed.
Login(c, typed) ==
  /\ Configured(env) /\ ConstantTimeEqual(typed, env.password)
  /\ cookie' = [cookie EXCEPT ![c] = [secret |-> env.secret, by |-> typed]]
  /\ UNCHANGED <<env, request, cache, now>>

\* clearSession needs a secret; a session also ends after its maxAge.
Logout(c) ==
  /\ cookie[c] # None
  /\ cookie' = [cookie EXCEPT ![c] = None]
  /\ UNCHANGED <<env, request, cache, now>>

-----------------------------------------------------------------------------
(* A request                                                               *)

Done(r, status, rows, path) ==
  /\ pc' = [pc EXCEPT ![r] = "done"]
  /\ left' = [left EXCEPT ![r] = <<>>]
  /\ answer' = [answer EXCEPT ![r] = [status |-> status, rows |-> rows, path |-> path]]

\* A cookie that does not unseal is an empty session.
Authenticated(session, e) == session # None /\ session.secret = e.secret

\* A browser's request, and its handler up to its first wait: the window, and
\* requireAdvancedAuth, which throws without a secret.
Send(r, c, a) ==
  /\ pc[r] = "idle"
  /\ ask' = [ask EXCEPT ![r] = a]
  /\ carried' = [carried EXCEPT ![r] = cookie[c]]
  /\ conf' = [conf EXCEPT ![r] = env]
  /\ IF Restricted(a) /\ ~Authenticated(cookie[c], env)
     THEN Done(r, IF env.secret = None THEN 500 ELSE 401, {}, None)
     ELSE /\ pc' = [pc EXCEPT ![r] = IF a.endpoint = "exchange-tps-export" THEN "fetch" ELSE "match"]
          /\ left' = [left EXCEPT ![r] = Paths(a)]
          /\ UNCHANGED answer
  /\ UNCHANGED <<env, cookie, cache, now>>

Primary(r) == Paths(ask[r])[1]

Fresh(e) == now - e.at < TTL

Hit(r) ==
  /\ pc[r] = "match"
  /\ \E e \in cache :
       /\ e.key = CacheRequest(Primary(r)) /\ Fresh(e)
       /\ Done(r, 200, e.rows, e.path)
  /\ UNCHANGED <<env, cookie, ask, carried, conf, cache, now>>

\* The data centre may have dropped the entry, or never had it.
Miss(r) ==
  /\ pc[r] = "match"
  /\ pc' = [pc EXCEPT ![r] = "fetch"]
  /\ UNCHANGED <<env, cookie, ask, carried, conf, left, answer, cache, now>>

\* cache.match is outside the try: its failure is the route's.
MatchFails(r) ==
  /\ pc[r] = "match"
  /\ Done(r, 500, {}, None)
  /\ UNCHANGED <<env, cookie, ask, carried, conf, cache, now>>

\* The API answers with rows, filtered as the path that answered demands.
Fetched(r) ==
  LET p == Head(left[r]) IN
  /\ pc[r] = "fetch" /\ ask[r].endpoint # "exchange-tps-export"
  /\ \E rows \in SUBSET Venues :
       LET shaped == Filtered(p, rows, conf[r].hidden) IN
       IF ShouldCache(Primary(r), shaped)
       THEN /\ pc' = [pc EXCEPT ![r] = "put"]
            /\ left' = [left EXCEPT ![r] = <<>>]
            /\ answer' = [answer EXCEPT ![r] = [status |-> 200, rows |-> shaped, path |-> p]]
       ELSE Done(r, 200, shaped, p)
  /\ UNCHANGED <<env, cookie, ask, carried, conf, cache, now>>

\* The API does not know the path: the next one is tried.
NotFound(r) ==
  /\ pc[r] = "fetch" /\ Len(left[r]) > 1
  /\ left' = [left EXCEPT ![r] = Tail(@)]
  /\ UNCHANGED <<env, cookie, pc, ask, carried, conf, answer, cache, now>>

\* Another status, no connection, or no path left; the export has no catch.
FetchFails(r) ==
  /\ pc[r] = "fetch"
  /\ Done(r, IF ask[r].endpoint = "exchange-tps-export" THEN 500 ELSE 502, {}, None)
  /\ UNCHANGED <<env, cookie, ask, carried, conf, cache, now>>

\* The export neither caches nor hides.
Exported(r) ==
  /\ pc[r] = "fetch" /\ ask[r].endpoint = "exchange-tps-export"
  /\ \E rows \in SUBSET Venues : Done(r, 200, Selected(ask[r], rows), Head(left[r]))
  /\ UNCHANGED <<env, cookie, ask, carried, conf, cache, now>>

Put(r) ==
  /\ pc[r] = "put"
  /\ LET k == CacheRequest(Primary(r)) IN
     cache' = {e \in cache : e.key # k}
              \cup {[key |-> k, path |-> answer[r].path, rows |-> answer[r].rows, at |-> now]}
  /\ pc' = [pc EXCEPT ![r] = "done"]
  /\ UNCHANGED <<env, cookie, ask, carried, conf, left, answer, now>>

\* cache.put is inside the try: its failure discards the answer.
PutFails(r) ==
  /\ pc[r] = "put"
  /\ Done(r, 502, {}, None)
  /\ UNCHANGED <<env, cookie, ask, carried, conf, cache, now>>

\* The browser has the answer.
Receive(r) ==
  /\ pc[r] = "done"
  /\ pc' = [pc EXCEPT ![r] = "idle"]
  /\ ask' = [ask EXCEPT ![r] = None]
  /\ carried' = [carried EXCEPT ![r] = None]
  /\ conf' = [conf EXCEPT ![r] = None]
  /\ answer' = [answer EXCEPT ![r] = Empty]
  /\ UNCHANGED <<env, cookie, left, cache, now>>

-----------------------------------------------------------------------------
Deploy(e) ==
  /\ e # env
  /\ env' = e
  /\ UNCHANGED <<cookie, request, cache, now>>

\* Entries past their s-maxage are gone.
Tick ==
  /\ now < MaxTime
  /\ now' = now + 1
  /\ cache' = {e \in cache : now' - e.at < TTL}
  /\ UNCHANGED <<env, cookie, request>>

Serve(r) ==
  \/ Hit(r) \/ Miss(r) \/ MatchFails(r)
  \/ Fetched(r) \/ NotFound(r) \/ FetchFails(r) \/ Exported(r)
  \/ Put(r) \/ PutFails(r)

Step ==
  \/ \E c \in Clients : Logout(c) \/ \E typed \in Attempts : Login(c, typed)
  \/ \E r \in Requests :
       \/ \E c \in Clients, a \in Asks : Send(r, c, a)
       \/ Serve(r) \/ Receive(r)
  \/ \E e \in Envs : Deploy(e)
  \/ Tick

Next == Step /\ Observe

Spec == Init /\ [][Next]_vars

-----------------------------------------------------------------------------
(* Properties                                                              *)

Sessions == [secret : {e.secret : e \in Envs}, by : Attempts]
AllPaths == UNION {{Paths(a)[i] : i \in DOMAIN Paths(a)} : a \in Asks}
Answers == [status : {0, 200, 401, 500, 502}, rows : SUBSET Venues, path : AllPaths \cup {None}]

\* Types, and that the cache holds at most one entry per key and none that
\* is put in the future (writeCachedBenchResponse).
TypeOK ==
  /\ env \in Envs
  /\ cookie \in [Clients -> Sessions \cup {None}]
  /\ pc \in [Requests -> {"idle", "match", "fetch", "put", "done"}]
  /\ ask \in [Requests -> Asks \cup {None}]
  /\ carried \in [Requests -> Sessions \cup {None}]
  /\ conf \in [Requests -> Envs \cup {None}]
  /\ \A r \in Requests : \A i \in DOMAIN left[r] : left[r][i] \in AllPaths
  /\ answer \in [Requests -> Answers]
  /\ \A e \in cache : e.rows \subseteq Venues /\ e.at \in 0..now
  /\ \A e, f \in cache : e.key = f.key => e = f
  /\ now \in 0..MaxTime
  /\ shown \in [Venues -> 0..MaxTime]

\* Someone typed the password of a deployment with the same secret.
Earned(session, e) ==
  /\ session # None /\ session.secret = e.secret
  /\ \E f \in Envs : f.secret = e.secret /\ f.password = session.by

\* Whether it comes from the API or from what another browser's request left
\* in the cache, the data a request is answered with is the API's answer to a
\* path of its own query, for the window it resolved to; and data of a
\* restricted window goes only to a request whose cookie was earned with the
\* password, under the secret of the worker that serves it (requireAdvancedAuth
\* before proxyBenchJSONWithFallback).
AnswersOwn ==
  \A r \in Requests : pc[r] \in {"put", "done"} /\ answer[r].status = 200 =>
    /\ \E i \in DOMAIN Paths(ask[r]) : answer[r].path = Paths(ask[r])[i]
    /\ Restricted(ask[r]) => Earned(carried[r], conf[r])

\* An answer without rows, be it that the API has none or that all of them
\* are hidden, is never kept: the next request asks again, so that a chart
\* does not stay empty for the cache's lifetime (shouldCacheBenchData on what
\* shapeBenchJSON leaves).
EmptyNotKept ==
  \A e \in cache : e.key.route \in SampleRoutes \cup {"latest", "health"} => e.rows # {}

\* A venue that a deployment hides is shown by it only out of the cache, and
\* only for the cache's lifetime after the last worker that did not hide the
\* venue is gone; the export alone never hides (hiddenVenueSet, per request).
HiddenSoon ==
  [][\A r \in Requests :
       /\ pc[r] # "done" /\ pc'[r] = "done"
       /\ ask'[r].endpoint \notin {"exchange-tps-export", "health"}
       => \A v \in answer'[r].rows \cap conf'[r].hidden : now - shown'[v] < TTL]_vars
=============================================================================
