------------------------------ MODULE Dashboard ------------------------------
(***************************************************************************)
(* A browser tab with the dashboard: its advanced session as the server    *)
(* and as the tab know it, the windows it offers and shows, the queries'    *)
(* cache, the venue filter of its panels, and the CSV export of one of     *)
(* them.  Answers arrive in any order, late or not at all; another tab may *)
(* log in or out with the same cookie.                                     *)
(***************************************************************************)
EXTENDS VenueSelection, Naturals

CONSTANTS
  PublicWindows,    \* PUBLIC_WINDOW_OPTIONS
  AdvancedWindows,  \* ADVANCED_WINDOW_OPTIONS
  DefaultWindow,    \* DEFAULT_WINDOW
  DefaultSummary,   \* DEFAULT_SUMMARY_WINDOW, of PublicWindows
  Samples,          \* [venue, scenario, orderType]
  HiddenVenues,     \* HIDDEN_FRONTEND_VENUES
  Stored,           \* [window -> the samples that the server has for it]
  None,
  MaxActs           \* bound on what the user and other tabs do

Windows == PublicWindows \cup AdvancedWindows

\* The export's dialog.
Dialogs == [open : BOOLEAN, window : Windows, pending : BOOLEAN, error : {"none", "failed", "empty"}]

ASSUME DashboardAssumption ==
  /\ DefaultWindow \in PublicWindows /\ DefaultSummary \in PublicWindows
  /\ Stored \in [Windows -> SUBSET Samples]
  /\ \A s \in Samples : s.venue \in Venues
  /\ None \notin Windows \cup Dialogs /\ MaxActs \in Nat

VARIABLES
  cookie,    \* the browser holds a session cookie
  session,   \* the session query: [data, fetch, carried]
  posts,     \* login and logout requests under way
  window,    \* filters.window
  summary,   \* summaryWindow
  filter,    \* filters.venues
  scenario,  \* cancelChartScenario: the panel that the cancel chart is of
  data,      \* the query cache: for each key None or the window answered for
  fetch,     \* requests under way: for each key None or [window, carried]
  exporter,  \* the cancel chart's export: None or [open, window, pending, error]
  job,       \* an export under way: None or [window, filter, scenario, carried, own]
  file,      \* the file being saved: None or [name, rows, asked]
  missed,    \* history: the cookie may differ from the session query's last
  acts

auth == <<cookie, session, posts, missed>>
view == <<window, summary, filter, scenario>>
queries == <<data, fetch>>
exports == <<exporter, job, file>>
vars == <<auth, view, queries, exports, acts>>

Authenticated == session.data = TRUE

-----------------------------------------------------------------------------
(* The panels                                                              *)

Visible(samples) == {s \in samples : s.venue \notin HiddenVenues}

PostOnly(s) == s.orderType = "post_only"
Taker(s) == s.orderType \in {"market", "ioc", "immediate_or_cancel", "fok", "fill_or_kill"}

Panels == {"single", "batch", "taker"}

\* postOnlySourceSamples, batchPostOnlySourceSamples, takerSourceSamples
Source(panel, samples) ==
  CASE panel = "single" -> {s \in samples : s.scenario # "batch" /\ PostOnly(s)}
    [] panel = "batch" -> {s \in samples : s.scenario = "batch" /\ PostOnly(s)}
    [] OTHER -> {s \in samples : Taker(s)}

\* Mutant of QueryKey: one entry for all windows.
QueryKeyShared(w) == DefaultWindow

\* The query keys' part that varies.
QueryKey(w) == w

Measurements ==
  LET answered == data[QueryKey(window)]
  IN IF answered = None THEN {} ELSE Visible(Stored[answered])

Options(panel) == {s.venue : s \in Source(panel, Measurements)}

-----------------------------------------------------------------------------
(* The session                                                             *)

Init ==
  /\ cookie \in BOOLEAN
  /\ session = [data |-> None, fetch |-> "first", carried |-> cookie]
  /\ posts = {} /\ missed = FALSE
  /\ window = DefaultWindow /\ summary = DefaultSummary
  /\ filter = All /\ scenario = "single"
  /\ data = [w \in Windows |-> None]
  /\ fetch = [w \in Windows |-> None]
  /\ exporter = None /\ job = None /\ file = None /\ acts = 0

\* The request leaves with the cookie of that moment.
SendSession(phase, carried) ==
  /\ session' = [session EXCEPT !.fetch = phase, !.carried = carried]
  /\ missed' = FALSE

\* Mutant of Invalidate: a fetch that is under way will do.
InvalidateUnlessFetching(c) ==
  IF session.fetch # "none" THEN UNCHANGED <<session, missed>> ELSE SendSession("first", c)

\* invalidateQueries: a refetch, which replaces the one under way; but the
\* first fetch of all, there being no data yet, is waited for instead.
Invalidate(c) ==
  IF session.fetch # "none" /\ session.data = None
  THEN missed' = TRUE /\ UNCHANGED session
  ELSE SendSession("first", c)

\* The dialog can be submitted while an earlier login is under way: closing
\* it resets the mutation.  Requests that are equal are one here.
SubmitLogin(typed) ==
  /\ ~Authenticated /\ typed \in {"right", "wrong"} \ posts
  /\ posts' = posts \cup {typed}
  /\ UNCHANGED <<cookie, session, missed, view, queries, exports>>

ClickLogout ==
  /\ Authenticated /\ "logout" \notin posts
  /\ posts' = posts \cup {"logout"}
  /\ UNCHANGED <<cookie, session, missed, view, queries, exports>>

\* The answer carries the cookie; onSuccess invalidates the session query.
PostSucceeds(p) ==
  /\ p \in posts \ {"wrong"}
  /\ posts' = posts \ {p}
  /\ cookie' = (p = "right")
  /\ Invalidate(p = "right")
  /\ UNCHANGED <<view, queries, exports>>

\* Wrong password, or no answer.
PostFails(p) ==
  /\ p \in posts
  /\ posts' = posts \ {p}
  /\ UNCHANGED <<cookie, session, missed, view, queries, exports>>

\* A login or logout in another tab, or the end of the cookie's maxAge.
CookieChanges ==
  /\ cookie' = ~cookie /\ missed' = TRUE
  /\ UNCHANGED <<session, posts, view, queries, exports>>

\* The effects that follow the loss of the session.
Clamped(w, public, default) == IF w \in public THEN w ELSE default

Mounted(w) == [open |-> FALSE, window |-> w, pending |-> FALSE, error |-> "none"]

\* The session query's answer, the effects that reset the windows, and the
\* export, which is there only when authenticated; a job whose dialog has
\* gone runs on.
SessionAnswers ==
  /\ session.fetch \in {"first", "second"}
  /\ session' = [session EXCEPT !.data = session.carried, !.fetch = "none"]
  /\ IF session.carried
     THEN /\ UNCHANGED <<window, summary, job>>
          /\ exporter' = IF exporter = None THEN Mounted(window) ELSE exporter
     ELSE /\ window' = Clamped(window, PublicWindows, DefaultWindow)
          /\ summary' = Clamped(summary, PublicWindows \cup {"all"}, DefaultSummary)
          /\ exporter' = None
          /\ job' = IF job = None THEN None ELSE [job EXCEPT !.own = FALSE]
  /\ UNCHANGED <<cookie, posts, missed, filter, scenario, queries, file>>

\* retry: 1
SessionFails ==
  /\ session.fetch \in {"first", "second"}
  /\ session' = [session EXCEPT !.fetch = IF @ = "first" THEN "waiting" ELSE "none"]
  /\ missed' = TRUE
  /\ UNCHANGED <<cookie, posts, view, queries, exports>>

SessionRetries ==
  /\ session.fetch = "waiting"
  /\ SendSession("second", cookie)
  /\ UNCHANGED <<cookie, posts, view, queries, exports>>

\* Stale, and the network is back: the only refetch that nobody asks for.
Reconnect ==
  /\ session.fetch = "none"
  /\ SendSession("first", cookie)
  /\ UNCHANGED <<cookie, posts, view, queries, exports>>

-----------------------------------------------------------------------------
(* Windows, queries, filter                                                *)

OfferedWindows == IF Authenticated THEN Windows ELSE PublicWindows

\* The export dialog follows the charts' window.
SelectWindow(w) ==
  /\ w \in OfferedWindows \ {window}
  /\ window' = w
  /\ exporter' = IF exporter = None THEN None ELSE [exporter EXCEPT !.window = w]
  /\ UNCHANGED <<auth, summary, filter, scenario, queries, job, file>>

SelectSummary(w) ==
  /\ w \in (OfferedWindows \cup {"all"}) \ {summary}
  /\ summary' = w
  /\ UNCHANGED <<auth, window, filter, scenario, queries, exports>>

SelectScenario(s) ==
  /\ s # scenario
  /\ scenario' = s
  /\ UNCHANGED <<auth, window, summary, filter, queries, exports>>

\* The window's query, on mount, when polled, on Refresh: only what has data
\* is fetched anew while it is being fetched.
Fetch ==
  LET k == QueryKey(window) IN
  /\ fetch[k] = None \/ data[k] # None
  /\ fetch' = [fetch EXCEPT ![k] = [window |-> window, carried |-> cookie]]
  /\ UNCHANGED <<auth, view, data, exports>>

Allowed(f) == f.window \in PublicWindows \/ f.carried

\* Also for a window that is no longer shown.
FetchAnswers(k) ==
  /\ fetch[k] # None /\ Allowed(fetch[k])
  /\ data' = [data EXCEPT ![k] = fetch[k].window]
  /\ fetch' = [fetch EXCEPT ![k] = None]
  /\ UNCHANGED <<auth, view, exports>>

\* 401, 502 or no answer: the data stay.  The retry is a request like the
\* first, with the cookie of its moment.
FetchFails(k) ==
  /\ fetch[k] # None
  /\ fetch' \in {[fetch EXCEPT ![k] = None], [fetch EXCEPT ![k].carried = cookie]}
  /\ UNCHANGED <<auth, view, data, exports>>

\* gcTime
Collect(k) ==
  /\ k # QueryKey(window) /\ fetch[k] = None /\ data[k] # None
  /\ data' = [data EXCEPT ![k] = None]
  /\ UNCHANGED <<auth, view, fetch, exports>>

SetFilter(f) ==
  /\ filter' = f
  /\ UNCHANGED <<auth, window, summary, scenario, queries, exports>>

ClickPanel(panel) ==
  /\ Options(panel) # {}
  /\ \/ SetFilter(ClickAll(filter, Options(panel)))
     \/ \E v \in Options(panel) : SetFilter(ClickVenue(filter, Options(panel), v))

-----------------------------------------------------------------------------
(* The export                                                              *)

ToggleDialog ==
  /\ exporter # None
  /\ exporter' = [exporter EXCEPT !.open = ~@, !.error = IF exporter.open THEN "none" ELSE @]
  /\ UNCHANGED <<auth, view, queries, job, file>>

PickExportWindow(w) ==
  /\ exporter # None /\ exporter.open /\ w # exporter.window
  /\ exporter' = [exporter EXCEPT !.window = w]
  /\ UNCHANGED <<auth, view, queries, job, file>>

\* handleExport, as the dialog was last rendered.
Export ==
  /\ exporter # None /\ exporter.open /\ ~exporter.pending
  /\ job = None
  /\ exporter' = [exporter EXCEPT !.pending = TRUE, !.error = "none"]
  /\ job' = [window |-> exporter.window, filter |-> filter, scenario |-> scenario,
             carried |-> cookie, own |-> TRUE]
  /\ UNCHANGED <<auth, view, queries, file>>

\* Mutant of ExportedRows: filtered as the panel is filtered by now.
ExportedRowsNow(j) ==
  {s \in Source(j.scenario, Visible(Stored[j.window])) : Matches(filter, s.venue)}

\* load...ExportSamples
ExportedRows(j) ==
  {s \in Source(j.scenario, Visible(Stored[j.window])) : Matches(j.filter, s.venue)}

\* The dialog, if it is still the one that asked.
JobEnds(end) ==
  /\ job' = None
  /\ exporter' = IF job.own
                 THEN [exporter EXCEPT !.pending = FALSE, !.error = end,
                                       !.open = IF end = "none" THEN FALSE ELSE @]
                 ELSE exporter

\* Without a sample the server's list is null, and its filter throws.
ExportFails ==
  /\ job # None
  /\ JobEnds("failed")
  /\ UNCHANGED <<auth, view, queries, file>>

ExportIsEmpty ==
  /\ job # None /\ Allowed(job) /\ Stored[job.window] # {} /\ ExportedRows(job) = {}
  /\ JobEnds("empty")
  /\ UNCHANGED <<auth, view, queries, file>>

ExportSaves ==
  /\ job # None /\ Allowed(job) /\ ExportedRows(job) # {}
  /\ file' = [name |-> job.window, rows |-> ExportedRows(job), asked |-> job]
  /\ JobEnds("none")
  /\ UNCHANGED <<auth, view, queries>>

Saved ==
  /\ file # None
  /\ file' = None
  /\ UNCHANGED <<auth, view, queries, exporter, job>>

-----------------------------------------------------------------------------
\* The user, and other tabs.
Act ==
  \/ \E p \in {"right", "wrong"} : SubmitLogin(p)
  \/ ClickLogout \/ CookieChanges
  \/ \E w \in Windows \cup {"all"} : SelectSummary(w)
  \/ \E w \in Windows : SelectWindow(w) \/ PickExportWindow(w)
  \/ \E s \in {"single", "batch"} : SelectScenario(s)
  \/ \E panel \in Panels : ClickPanel(panel)
  \/ ToggleDialog \/ Export

\* Requests, answers, timers.
React ==
  \/ \E p \in posts : PostSucceeds(p) \/ PostFails(p)
  \/ SessionAnswers \/ SessionFails \/ SessionRetries \/ Reconnect
  \/ Fetch
  \/ \E w \in Windows : FetchAnswers(w) \/ FetchFails(w) \/ Collect(w)
  \/ ExportFails \/ ExportIsEmpty \/ ExportSaves \/ Saved

Next ==
  \/ Act /\ acts < MaxActs /\ acts' = acts + 1
  \/ React /\ UNCHANGED acts

Spec == Init /\ [][Next]_vars

-----------------------------------------------------------------------------
(* Properties                                                              *)

Carriers == [window : Windows, carried : BOOLEAN]
Jobs == [window : Windows, filter : Filters, scenario : {"single", "batch"},
         carried : BOOLEAN, own : BOOLEAN]

\* Types, and that a dialog is pending exactly while a job of its own runs
\* (handleExport's finally).
TypeOK ==
  /\ cookie \in BOOLEAN /\ missed \in BOOLEAN /\ acts \in 0..MaxActs
  /\ session \in [data : BOOLEAN \cup {None}, fetch : {"none", "first", "waiting", "second"},
                  carried : BOOLEAN]
  /\ posts \subseteq {"right", "wrong", "logout"}
  /\ window \in Windows /\ summary \in Windows \cup {"all"}
  /\ filter \in Filters /\ scenario \in {"single", "batch"}
  /\ data \in [Windows -> Windows \cup {None}]
  /\ fetch \in [Windows -> Carriers \cup {None}]
  /\ exporter \in Dialogs \cup {None}
  /\ job \in Jobs \cup {None}
  /\ exporter # None => (exporter.pending <=> job # None /\ job.own)

\* When the session query is at rest, the tab believes what the cookie says,
\* whatever logins, logouts, their answers and refetches crossed on the way;
\* except for what nobody tells the tab (another tab's change, a fetch that
\* failed) and for a login that ends before the first session answer, whose
\* invalidation the first fetch absorbs (handleAdvancedSessionChange).
BeliefSettles == session.fetch = "none" /\ ~missed => session.data = cookie

\* The charts show data of the window that is selected, also when answers
\* for other windows arrive later; and no window that only a session offers,
\* nor the export, outlives the tab's belief in the session.
ShownAsSelected ==
  /\ data[QueryKey(window)] \in {None, window}
  /\ ~Authenticated => /\ window \in PublicWindows /\ summary \in PublicWindows \cup {"all"}
                       /\ exporter = None

\* The file saved holds what its name says and what the cancel chart would
\* show for the window, the scenario and the venues as they were when Export
\* was clicked, whatever is selected while the request is under way.
ExportTrue ==
  file # None =>
    /\ file.name = file.asked.window
    /\ file.rows = {s \in Stored[file.asked.window] :
                     /\ s.venue \notin HiddenVenues /\ Matches(file.asked.filter, s.venue)
                     /\ s.orderType = "post_only"
                     /\ (s.scenario = "batch") <=> (file.asked.scenario = "batch")}

\* In every panel, clicking a venue's checkbox flips that venue there and no
\* other, whatever venues of other panels and other windows the shared filter
\* holds, and although a list as long as the panel's is written as "all";
\* the button always empties or fills the panel (ExchangeSelector).
ClicksFlipOne ==
  \A p \in Panels :
    /\ \A v \in Options(p) : FlipsOnly(v, filter, ClickVenue(filter, Options(p), v), Options(p))
    /\ Selected(ClickAll(filter, Options(p)), Options(p)) \in {{}, Options(p)}
=============================================================================
