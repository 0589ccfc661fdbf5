--------------------------- MODULE DashboardProofs ---------------------------
(* Proofs about Dashboard and its Panels: a tab believes what its cookie    *)
(* says, shows what is selected, its venue filter does what is clicked, and *)
(* its latency chart does not depend on the endpoint that answered; the     *)
(* panels' table is ranked, their tooltips are of what is drawn, the TPS    *)
(* plot stays true when it is thinned, the costs are of the rounds that can *)
(* be compared, and the trend is of the points of each window.  For any     *)
(* windows, venues, stored samples, answers and number of acts.             *)
EXTENDS Dashboard, Panels, FiniteSetTheorems, SequenceTheorems, WellFoundedInduction, TLAPS

-----------------------------------------------------------------------------
(* The session                                                             *)

\* What a session fetch under way carries, while nothing was missed.
Believes ==
  ~missed => /\ session.fetch = "none" => session.data = cookie
             /\ session.fetch \in {"first", "second"} => session.carried = cookie
             /\ session.fetch # "waiting"

SessionShape ==
  /\ DOMAIN session = {"data", "fetch", "carried"}
  /\ session = [data |-> session.data, fetch |-> session.fetch, carried |-> session.carried]
  /\ session.fetch \in {"none", "first", "waiting", "second"}

BInv == Believes /\ SessionShape

LEMMA SendBelieves ==
  ASSUME BInv, NEW phase \in {"first", "second"}, SendSession(phase, cookie')
  PROVE  BInv'
BY DEF BInv, Believes, SessionShape, SendSession

LEMMA InvalidateBelieves ==
  ASSUME BInv, Invalidate(cookie')
  PROVE  BInv'
<1>1. CASE session.fetch # "none" /\ session.data = None
  BY <1>1 DEF Invalidate, BInv, Believes, SessionShape
<1>2. CASE ~(session.fetch # "none" /\ session.data = None)
  BY <1>2, SendBelieves DEF Invalidate
<1> QED
  BY <1>1, <1>2

LEMMA StepBelieves == BInv /\ [Next]_vars => BInv'
<1> SUFFICES ASSUME BInv, [Next]_vars PROVE BInv'
  OBVIOUS
<1>1. CASE UNCHANGED auth
  BY <1>1 DEF auth, BInv, Believes, SessionShape
<1>2. ASSUME NEW p \in {"right", "wrong"}, SubmitLogin(p) PROVE BInv'
  BY <1>2 DEF SubmitLogin, BInv, Believes, SessionShape
<1>3. CASE ClickLogout
  BY <1>3 DEF ClickLogout, BInv, Believes, SessionShape
<1>4. CASE CookieChanges
  BY <1>4 DEF CookieChanges, BInv, Believes, SessionShape
<1>5. ASSUME NEW p \in posts, PostSucceeds(p) PROVE BInv'
  <2>1. cookie' = (p = "right") /\ Invalidate(p = "right")
    BY <1>5 DEF PostSucceeds
  <2>2. Invalidate(cookie')
    BY <2>1
  <2> QED
    BY <2>2, InvalidateBelieves
<1>6. ASSUME NEW p \in posts, PostFails(p) PROVE BInv'
  BY <1>6 DEF PostFails, BInv, Believes, SessionShape
<1>7. CASE SessionAnswers
  BY <1>7 DEF SessionAnswers, BInv, Believes, SessionShape
<1>8. CASE SessionFails
  BY <1>8 DEF SessionFails, BInv, Believes, SessionShape
<1>9. CASE SessionRetries
  <2>1. SendSession("second", cookie')
    BY <1>9 DEF SessionRetries, SendSession
  <2> QED
    BY <2>1, SendBelieves
<1>10. CASE Reconnect
  <2>1. SendSession("first", cookie')
    BY <1>10 DEF Reconnect, SendSession
  <2> QED
    BY <2>1, SendBelieves
<1>11. CASE Next
  <2>1. CASE Act
    <3>1. CASE \/ \E w \in Windows \cup {"all"} : SelectSummary(w)
               \/ \E w \in Windows : SelectWindow(w) \/ PickExportWindow(w)
               \/ \E s \in {"single", "batch"} : SelectScenario(s)
               \/ \E panel \in Panels : ClickPanel(panel)
               \/ ToggleDialog \/ Export
      BY <3>1, <1>1 DEF SelectSummary, SelectWindow, PickExportWindow, SelectScenario, ClickPanel,
                        SetFilter, ToggleDialog, Export
    <3> QED
      BY <2>1, <3>1, <1>2, <1>3, <1>4 DEF Act
  <2>2. CASE React
    <3>1. CASE \/ Fetch \/ \E w \in Windows : FetchAnswers(w) \/ FetchFails(w) \/ Collect(w)
               \/ ExportFails \/ ExportIsEmpty \/ ExportSaves \/ Saved
      BY <3>1, <1>1 DEF Fetch, FetchAnswers, FetchFails, Collect, ExportFails, ExportIsEmpty,
                        ExportSaves, Saved
    <3> QED
      BY <2>2, <3>1, <1>5, <1>6, <1>7, <1>8, <1>9, <1>10 DEF React
  <2> QED
    BY <1>11, <2>1, <2>2 DEF Next
<1> QED
  BY <1>1, <1>11 DEF vars

\* A tab whose session query is at rest believes what its cookie says, unless
\* nobody told it, whatever logins, logouts and their answers crossed
\* (advanced-auth.server.ts, dashboard-page.tsx handleAdvancedSessionChange).
THEOREM TabBelievesCookie == Spec => []BeliefSettles
<1>1. Init => BInv
  BY DEF Init, BInv, Believes, SessionShape
<1>2. BInv => BeliefSettles
  BY DEF BInv, Believes, BeliefSettles
<1> QED
  BY <1>1, <1>2, StepBelieves, PTL DEF Spec

-----------------------------------------------------------------------------
(* What is shown                                                           *)

Cookies == cookie \in BOOLEAN /\ session.carried \in BOOLEAN /\ SessionShape

QueriesOwn ==
  /\ data \in [Windows -> Windows \cup {None}]
  /\ fetch \in [Windows -> Carriers \cup {None}]
  /\ \A k \in Windows : data[k] \in {None, k} /\ (fetch[k] # None => fetch[k].window = k)

Offered ==
  /\ window \in Windows /\ summary \in Windows \cup {"all"}
  /\ ~Authenticated => /\ window \in PublicWindows /\ summary \in PublicWindows \cup {"all"}
                       /\ exporter = None

\* A job whose dialog has gone does not act on a dialog.
Orphaned ==
  /\ job = None \/ job = [window |-> job.window, filter |-> job.filter, scenario |-> job.scenario,
                         carried |-> job.carried, own |-> job.own]
  /\ exporter \in Dialogs \cup {None}
  /\ exporter = None /\ job # None => job.own = FALSE

SInv == Cookies /\ QueriesOwn /\ Offered /\ Orphaned

LEMMA InitShows == Init => SInv
<1> SUFFICES ASSUME Init PROVE SInv
  OBVIOUS
<1>1. Cookies
  BY DEF Init, Cookies, SessionShape
<1>2. QueriesOwn
  BY DEF Init, QueriesOwn
<1>3. window \in PublicWindows /\ summary \in PublicWindows /\ exporter = None
  BY DashboardAssumption DEF Init
<1>4. Orphaned
  BY DEF Init, Orphaned
<1> QED
  BY <1>1, <1>2, <1>3, <1>4 DEF SInv, Offered, Windows

LEMMA CookiesKept == SInv /\ [Next]_vars => Cookies'
<1> SUFFICES ASSUME Cookies, [Next]_vars PROVE Cookies'
  BY DEF SInv
<1>1. CASE UNCHANGED auth
  BY <1>1 DEF auth, Cookies, SessionShape
<1>2. CASE Act
  <2>1. CASE CookieChanges
    BY <2>1 DEF CookieChanges, Cookies, SessionShape
  <2> QED
    BY <1>2, <1>1, <2>1 DEF Act, SubmitLogin, ClickLogout, SelectSummary, SelectWindow, PickExportWindow,
       SelectScenario, ClickPanel, SetFilter, ToggleDialog, Export, auth, Cookies, SessionShape
<1>3. CASE React
  <2>1. ASSUME NEW p \in posts, PostSucceeds(p) PROVE Cookies'
    BY <2>1 DEF PostSucceeds, Invalidate, SendSession, Cookies, SessionShape
  <2>2. ASSUME NEW p \in posts, PostFails(p) PROVE Cookies'
    BY <2>2 DEF PostFails, Cookies, SessionShape
  <2>3. CASE SessionAnswers
    BY <2>3 DEF SessionAnswers, Cookies, SessionShape
  <2>4. CASE SessionFails
    BY <2>4 DEF SessionFails, Cookies, SessionShape
  <2>5. CASE SessionRetries \/ Reconnect
    BY <2>5 DEF SessionRetries, Reconnect, SendSession, Cookies, SessionShape
  <2> QED
    BY <1>3, <1>1, <2>1, <2>2, <2>3, <2>4, <2>5 DEF React, Fetch, FetchAnswers, FetchFails, Collect,
       ExportFails, ExportIsEmpty, ExportSaves, Saved, auth
<1> QED
  BY <1>1, <1>2, <1>3 DEF Next, vars

LEMMA QueriesKept == SInv /\ [Next]_vars => QueriesOwn'
<1> SUFFICES ASSUME SInv, [Next]_vars PROVE QueriesOwn'
  OBVIOUS
<1>0. QueriesOwn /\ cookie \in BOOLEAN /\ window \in Windows
  BY DEF SInv, Cookies, Offered
<1>1. CASE UNCHANGED queries
  BY <1>0, <1>1 DEF queries, QueriesOwn
<1>2. CASE Act
  BY <1>2, <1>1 DEF Act, SubmitLogin, ClickLogout, CookieChanges, SelectSummary, SelectWindow,
     PickExportWindow, SelectScenario, ClickPanel, SetFilter, ToggleDialog, Export, queries
<1>3. CASE React
  <2>1. CASE Fetch
    <3>1. [window |-> window, carried |-> cookie] \in Carriers
      BY <1>0 DEF Carriers
    <3> QED
      BY <1>0, <2>1, <3>1 DEF Fetch, QueryKey, QueriesOwn
  <2>2. ASSUME NEW k \in Windows, FetchAnswers(k) PROVE QueriesOwn'
    BY <1>0, <2>2 DEF FetchAnswers, QueriesOwn, Carriers
  <2>3. ASSUME NEW k \in Windows, FetchFails(k) PROVE QueriesOwn'
    <3>1. CASE fetch' = [fetch EXCEPT ![k] = None]
      BY <1>0, <2>3, <3>1 DEF FetchFails, QueriesOwn
    <3>2. CASE fetch' = [fetch EXCEPT ![k].carried = cookie]
      <4>1. [fetch[k] EXCEPT !.carried = cookie] \in Carriers
            /\ [fetch[k] EXCEPT !.carried = cookie].window = k
        BY <1>0, <2>3 DEF FetchFails, QueriesOwn, Carriers
      <4>2. fetch' = [fetch EXCEPT ![k] = [fetch[k] EXCEPT !.carried = cookie]]
        BY <3>2, <1>0 DEF QueriesOwn
      <4> QED
        BY <1>0, <2>3, <4>1, <4>2 DEF FetchFails, QueriesOwn
    <3> QED
      BY <2>3, <3>1, <3>2 DEF FetchFails
  <2>4. ASSUME NEW k \in Windows, Collect(k) PROVE QueriesOwn'
    BY <1>0, <2>4 DEF Collect, QueriesOwn
  <2> QED
    BY <1>3, <1>1, <2>1, <2>2, <2>3, <2>4 DEF React, PostSucceeds, PostFails, SessionAnswers, SessionFails,
       SessionRetries, Reconnect, ExportFails, ExportIsEmpty, ExportSaves, Saved, queries
<1> QED
  BY <1>1, <1>2, <1>3 DEF Next, vars

LEMMA OfferedKept == SInv /\ [Next]_vars => Offered'
<1> SUFFICES ASSUME SInv, [Next]_vars PROVE Offered'
  OBVIOUS
<1> USE DEF Authenticated
<1>0. /\ Offered /\ session.carried \in BOOLEAN /\ SessionShape
      /\ PublicWindows \subseteq Windows
      /\ DefaultWindow \in PublicWindows /\ DefaultSummary \in PublicWindows
  BY DashboardAssumption DEF SInv, Cookies, Windows
<1>1. ASSUME UNCHANGED <<session, window, summary>>, exporter = None => exporter' = None
      PROVE  Offered'
  BY <1>0, <1>1 DEF Offered
<1>2. CASE Act
  <2>1. ASSUME NEW w \in Windows, SelectWindow(w) PROVE Offered'
    BY <1>0, <2>1 DEF SelectWindow, OfferedWindows, auth, Offered
  <2>2. ASSUME NEW w \in Windows \cup {"all"}, SelectSummary(w) PROVE Offered'
    BY <1>0, <2>2 DEF SelectSummary, OfferedWindows, auth, exports, Offered
  <2>3. CASE CookieChanges \/ ClickLogout \/ \E p \in {"right", "wrong"} : SubmitLogin(p)
    BY <1>1, <2>3 DEF CookieChanges, ClickLogout, SubmitLogin, view, exports
  <2>4. CASE \/ \E s \in {"single", "batch"} : SelectScenario(s)
             \/ \E panel \in Panels : ClickPanel(panel)
    BY <1>1, <2>4 DEF SelectScenario, ClickPanel, SetFilter, auth, exports
  <2>5. CASE ToggleDialog \/ Export \/ \E w \in Windows : PickExportWindow(w)
    BY <1>1, <2>5 DEF ToggleDialog, Export, PickExportWindow, auth, view
  <2> QED
    BY <1>2, <2>1, <2>2, <2>3, <2>4, <2>5 DEF Act
<1>3. CASE React
  <2>1. ASSUME NEW p \in posts, PostSucceeds(p) PROVE Offered'
    <3>1. session'.data = session.data
      BY <1>0, <2>1 DEF PostSucceeds, Invalidate, SendSession, SessionShape
    <3> QED
      BY <1>0, <2>1, <3>1 DEF PostSucceeds, view, exports, Offered
  <2>2. CASE SessionAnswers
    <3>1. session'.data = session.carried
      BY <1>0, <2>2 DEF SessionAnswers, SessionShape
    <3>2. CASE session.carried
      BY <1>0, <2>2, <3>1, <3>2 DEF SessionAnswers, Offered
    <3>3. CASE ~session.carried
      BY <1>0, <2>2, <3>1, <3>3 DEF SessionAnswers, Offered, Clamped
    <3> QED
      BY <3>2, <3>3
  <2>3. CASE SessionFails \/ SessionRetries \/ Reconnect
    <3>1. session'.data = session.data
      BY <1>0, <2>3 DEF SessionFails, SessionRetries, Reconnect, SendSession, SessionShape
    <3> QED
      BY <1>0, <2>3, <3>1 DEF SessionFails, SessionRetries, Reconnect, view, exports, Offered
  <2>4. CASE \/ Fetch \/ \E w \in Windows : FetchAnswers(w) \/ FetchFails(w) \/ Collect(w)
             \/ Saved \/ \E p \in posts : PostFails(p)
    BY <1>1, <2>4 DEF Fetch, FetchAnswers, FetchFails, Collect, Saved, PostFails, auth, view, exports
  <2>5. CASE ExportFails \/ ExportIsEmpty \/ ExportSaves
    <3>1. exporter = None => exporter' = None
      BY <2>5 DEF ExportFails, ExportIsEmpty, ExportSaves, JobEnds, SInv, Orphaned
    <3> QED
      BY <1>1, <2>5, <3>1 DEF ExportFails, ExportIsEmpty, ExportSaves, auth, view
  <2> QED
    BY <1>3, <2>1, <2>2, <2>3, <2>4, <2>5 DEF React
<1>4. CASE UNCHANGED vars
  BY <1>1, <1>4 DEF vars, auth, view, exports
<1> QED
  BY <1>2, <1>3, <1>4 DEF Next

LEMMA OrphansKept == SInv /\ [Next]_vars => Orphaned'
<1> SUFFICES ASSUME Orphaned, window \in Windows, [Next]_vars PROVE Orphaned'
  BY DEF SInv, Offered
<1>0. None \notin Dialogs
  BY DashboardAssumption
<1>1. CASE UNCHANGED <<exporter, job>>
  BY <1>1 DEF Orphaned
<1>2. CASE Act
  <2>1. CASE Export
    <3>1. exporter \in Dialogs /\ exporter' \in Dialogs
      BY <2>1 DEF Export, Orphaned, Dialogs
    <3>2. job' = [window |-> exporter.window, filter |-> filter, scenario |-> scenario,
                  carried |-> cookie, own |-> TRUE]
      BY <2>1 DEF Export
    <3> QED
      BY <1>0, <3>1, <3>2 DEF Orphaned
  <2>2. CASE ToggleDialog
    <3>1. exporter \in Dialogs /\ exporter' \in Dialogs
      BY <2>2 DEF ToggleDialog, Orphaned, Dialogs
    <3> QED
      BY <1>0, <2>2, <3>1 DEF ToggleDialog, Orphaned
  <2>3. ASSUME NEW w \in Windows, SelectWindow(w) \/ PickExportWindow(w) PROVE Orphaned'
    <3>1. exporter # None => exporter' \in Dialogs
      BY <2>3 DEF SelectWindow, PickExportWindow, Orphaned, Dialogs
    <3> QED
      BY <1>0, <2>3, <3>1 DEF SelectWindow, PickExportWindow, Orphaned
  <2>4. CASE \/ CookieChanges \/ ClickLogout \/ \E p \in {"right", "wrong"} : SubmitLogin(p)
             \/ \E w \in Windows \cup {"all"} : SelectSummary(w)
             \/ \E s \in {"single", "batch"} : SelectScenario(s)
             \/ \E panel \in Panels : ClickPanel(panel)
    BY <1>1, <2>4 DEF CookieChanges, ClickLogout, SubmitLogin, SelectSummary, SelectScenario, ClickPanel,
       SetFilter, exports
  <2> QED
    BY <1>2, <2>1, <2>2, <2>3, <2>4 DEF Act
<1>3. CASE React
  <2>1. CASE SessionAnswers
    <3>0. Mounted(window) \in Dialogs
      BY DEF Mounted, Dialogs
    <3>1. exporter' \in Dialogs \cup {None} /\ (session.carried => exporter' # None)
      BY <1>0, <2>1, <3>0 DEF SessionAnswers, Orphaned
    <3>2. CASE session.carried
      BY <2>1, <3>1, <3>2 DEF SessionAnswers, Orphaned
    <3>3. CASE ~session.carried
      BY <2>1, <3>1, <3>3 DEF SessionAnswers, Orphaned
    <3> QED
      BY <3>2, <3>3
  <2>2. CASE ExportFails \/ ExportIsEmpty \/ ExportSaves
    <3>1. job # None /\ job' = None
      BY <2>2 DEF ExportFails, ExportIsEmpty, ExportSaves, JobEnds
    <3>2. PICK end \in {"failed", "empty", "none"} : JobEnds(end)
      BY <2>2 DEF ExportFails, ExportIsEmpty, ExportSaves
    <3>3. CASE exporter = None
      BY <3>1, <3>2, <3>3 DEF JobEnds, Orphaned
    <3>4. CASE exporter \in Dialogs
      <4>1. ASSUME job.own PROVE exporter' \in Dialogs
        BY <3>2, <3>4, <4>1 DEF JobEnds, Dialogs
      <4>2. ASSUME ~job.own PROVE exporter' \in Dialogs
        BY <3>2, <3>4, <4>2 DEF JobEnds
      <4>3. exporter' \in Dialogs
        BY <4>1, <4>2
      <4> QED
        BY <3>1, <4>3 DEF Orphaned
    <3> QED
      BY <3>3, <3>4 DEF Orphaned
  <2>3. CASE \/ Fetch \/ \E w \in Windows : FetchAnswers(w) \/ FetchFails(w) \/ Collect(w)
             \/ \E p \in posts : PostSucceeds(p) \/ PostFails(p)
             \/ SessionFails \/ SessionRetries \/ Reconnect \/ Saved
    BY <1>1, <2>3 DEF Fetch, FetchAnswers, FetchFails, Collect, PostSucceeds, PostFails, SessionFails,
       SessionRetries, Reconnect, Saved, exports
  <2> QED
    BY <1>3, <2>1, <2>2, <2>3 DEF React
<1>4. CASE UNCHANGED vars
  BY <1>1, <1>4 DEF vars, exports
<1> QED
  BY <1>2, <1>3, <1>4 DEF Next

LEMMA StepShows == SInv /\ [Next]_vars => SInv'
BY CookiesKept, QueriesKept, OfferedKept, OrphansKept DEF SInv

\* The charts show data of the selected window, whenever the answers come;
\* and no window that only a session offers, nor the export, outlives the
\* tab's belief in the session (dashboard-page.tsx, its clamping effects).
THEOREM ChartsFollowSelection == Spec => []ShownAsSelected
<1>1. SInv => ShownAsSelected
  BY DEF SInv, QueriesOwn, Offered, ShownAsSelected, QueryKey
<1> QED
  BY <1>1, InitShows, StepShows, PTL DEF Spec

-----------------------------------------------------------------------------
(* The venue filter                                                        *)

LEMMA PartIsWhole ==
  ASSUME NEW options \in SUBSET Venues, NEW part \in SUBSET options,
         Cardinality(part) = Cardinality(options)
  PROVE  part = options
BY FS_Subset, SelectionAssumption

LEMMA VenueFlips ==
  ASSUME NEW f, NEW options \in SUBSET Venues, NEW v \in options
  PROVE  FlipsOnly(v, f, ClickVenue(f, options, v), options)
<1> DEFINE before == Selected(f, options)
           next == Toggled(f, options, v)
<1>1. before \subseteq options
  BY DEF Selected
<1>2. next \subseteq options /\ \A u \in options : (u \in next) <=> ((u \in before) # (u = v))
  <2>1. CASE v \in before
    <3>1. next = before \ {v}
      BY <2>1 DEF Toggled
    <3> QED
      BY <1>1, <2>1, <3>1
  <2>2. CASE v \notin before
    <3>1. next = before \cup {v}
      BY <2>2 DEF Toggled
    <3> QED
      BY <1>1, <2>2, <3>1
  <2> QED
    BY <2>1, <2>2
<1>3. Selected(ClickVenue(f, options, v), options) = next
  <2>1. CASE Cardinality(next) = Cardinality(options)
    <3>1. next = options
      BY <1>2, <2>1, PartIsWhole
    <3> QED
      BY <2>1, <3>1 DEF ClickVenue, Selected
  <2>2. CASE Cardinality(next) # Cardinality(options)
    <3>1. next # All
      BY <1>2, SelectionAssumption
    <3>2. ClickVenue(f, options, v) = next
      BY <2>2 DEF ClickVenue
    <3> QED
      BY <1>2, <3>1, <3>2 DEF Selected
  <2> QED
    BY <2>1, <2>2
<1> HIDE DEF before, next
<1> QED
  BY <1>2, <1>3 DEF FlipsOnly, before

LEMMA ButtonFlips ==
  ASSUME NEW f, NEW options \in SUBSET Venues
  PROVE  Selected(ClickAll(f, options), options) \in {{}, options}
BY SelectionAssumption DEF ClickAll, Selected

\* The panels offer venues only.
LEMMA OptionsAreVenues ==
  ASSUME SInv, NEW panel
  PROVE  Options(panel) \in SUBSET Venues
<1>1. Measurements \subseteq Samples
  <2>1. data[window] \in {None, window} /\ window \in Windows
    BY DEF SInv, QueriesOwn, Offered
  <2>2. \A w \in Windows : Visible(Stored[w]) \subseteq Samples
    BY DashboardAssumption DEF Visible
  <2> QED
    BY <2>1, <2>2 DEF Measurements, QueryKey
<1>2. Source(panel, Measurements) \subseteq Measurements
  BY DEF Source
<1> QED
  BY <1>1, <1>2, DashboardAssumption DEF Options

\* In every panel a click on a venue flips that venue there and no other, and
\* the button empties or fills the panel, whatever the shared filter holds
\* (ExchangeSelector of the charts' and of the TPS panel).
THEOREM ClicksFlip == Spec => []ClicksFlipOne
<1>1. SInv => ClicksFlipOne
  BY OptionsAreVenues, VenueFlips, ButtonFlips DEF ClicksFlipOne
<1>2. SInv /\ [Next]_vars => SInv'
  BY CookiesKept, QueriesKept, OfferedKept, OrphansKept DEF SInv
<1> QED
  BY <1>1, <1>2, InitShows, PTL DEF Spec

-----------------------------------------------------------------------------
(* The file                                                                *)

Asked(j) == j = None \/ j.scenario \in {"single", "batch"}

FileTrue ==
  file # None => \E j : /\ Asked(j) /\ j # None
                        /\ file = [name |-> j.window, rows |-> ExportedRows(j), asked |-> j]

FInv == scenario \in {"single", "batch"} /\ Asked(job) /\ FileTrue

LEMMA ExportKept == SInv /\ FInv /\ [Next]_vars => FInv'
<1> SUFFICES ASSUME SInv, FInv, [Next]_vars PROVE FInv'
  OBVIOUS
<1>1. CASE scenario' \in {"single", "batch"} /\ UNCHANGED <<job, file>>
  BY <1>1 DEF FInv, Asked, FileTrue
<1>2. CASE Export
  BY <1>2 DEF Export, FInv, Asked, FileTrue, view
<1>3. CASE job' = None /\ UNCHANGED <<scenario, file>>
  BY <1>3 DEF FInv, Asked, FileTrue
<1>4. CASE ExportSaves
  <2>1. job # None /\ file' = [name |-> job.window, rows |-> ExportedRows(job), asked |-> job]
    BY <1>4 DEF ExportSaves
  <2>2. FileTrue'
    BY <2>1 DEF FInv, FileTrue, Asked, ExportedRows, Source, Visible, PostOnly, Taker, Matches
  <2> QED
    BY <1>4, <2>2 DEF ExportSaves, JobEnds, FInv, Asked, view
<1>5. CASE Saved
  BY <1>5 DEF Saved, FInv, FileTrue, view
<1>6. CASE SessionAnswers
  <2>1. job' \in {job, [job EXCEPT !.own = FALSE], None} /\ UNCHANGED <<scenario, file>>
    BY <1>6 DEF SessionAnswers
  <2>2. job # None => [job EXCEPT !.own = FALSE].scenario = job.scenario
    BY DEF SInv, Orphaned
  <2>3. Asked(job')
    <3>1. Asked(job)
      BY DEF FInv
    <3>2. job' = job \/ job' = None \/ (job # None /\ job' = [job EXCEPT !.own = FALSE])
      BY <1>6 DEF SessionAnswers
    <3> QED
      BY <2>2, <3>1, <3>2 DEF Asked
  <2> QED
    BY <2>1, <2>3 DEF FInv, FileTrue, Asked
<1>7. CASE Act
  <2>1. \/ scenario' \in {"single", "batch"} /\ UNCHANGED <<job, file>>
        \/ Export
    BY <1>7 DEF Act, FInv, SubmitLogin, ClickLogout, CookieChanges, SelectSummary, SelectWindow,
       PickExportWindow, SelectScenario, ClickPanel, SetFilter, ToggleDialog, view, exports
  <2> QED
    BY <1>1, <1>2, <2>1
<1>8. CASE React
  <2>1. \/ UNCHANGED <<scenario, job, file>>
        \/ SessionAnswers \/ ExportSaves \/ Saved
        \/ job' = None /\ UNCHANGED <<scenario, file>>
    BY <1>8 DEF React, PostSucceeds, PostFails, SessionFails, SessionRetries, Reconnect, Fetch,
       FetchAnswers, FetchFails, Collect, ExportFails, ExportIsEmpty, JobEnds, view, exports
  <2> QED
    BY <1>1, <1>3, <1>4, <1>5, <1>6, <2>1 DEF FInv
<1>9. CASE UNCHANGED vars
  BY <1>1, <1>9 DEF vars, view, exports, FInv
<1> QED
  BY <1>7, <1>8, <1>9 DEF Next

\* Of the rows that the cancel chart shows.
LEMMA RowsOfJob ==
  ASSUME NEW j, j.scenario \in {"single", "batch"}
  PROVE  ExportedRows(j) = {s \in Stored[j.window] :
                             /\ s.venue \notin HiddenVenues /\ Matches(j.filter, s.venue)
                             /\ s.orderType = "post_only"
                             /\ (s.scenario = "batch") <=> (j.scenario = "batch")}
<1>1. CASE j.scenario = "single"
  BY <1>1 DEF ExportedRows, Source, Visible, PostOnly
<1>2. CASE j.scenario = "batch"
  BY <1>2 DEF ExportedRows, Source, Visible, PostOnly
<1> QED
  BY <1>1, <1>2

\* The file saved is the one that was asked for, whatever is clicked while
\* its request is under way (dashboard-page.tsx loadCancelExportSamples,
\* csv-export-button.tsx handleExport).
THEOREM FileAsAsked == Spec => []ExportTrue
<1>1. Init => FInv
  BY DEF Init, FInv, Asked, FileTrue
<1>2. FInv => ExportTrue
  <2> SUFFICES ASSUME FInv, file # None PROVE ExportTrue
    BY DEF ExportTrue
  <2>1. PICK j : /\ Asked(j) /\ j # None
                 /\ file = [name |-> j.window, rows |-> ExportedRows(j), asked |-> j]
    BY DEF FInv, FileTrue
  <2>2. file.name = j.window /\ file.rows = ExportedRows(j) /\ file.asked = j
    BY <2>1
  <2> QED
    BY <2>1, <2>2, RowsOfJob DEF ExportTrue, Asked
<1> QED
  BY <1>1, <1>2, InitShows, StepShows, ExportKept, PTL DEF Spec

-----------------------------------------------------------------------------
(* A stored row in its three forms                                          *)

LEMMA BumpOfForm ==
  ASSUME NEW r, StoredRow(r)
  PROVE  /\ EffectiveBump(DashboardForm(r)) = EffectiveBump(r)
         /\ EffectiveBump(r) \in {0, r.bump}
         /\ r.network \in Nat /\ r.bump \in Nat
<1>1. r.network \in Nat /\ r.bump \in Nat
  BY DEF StoredRow
<1>2. Max0(r.bump) = r.bump
  BY <1>1 DEF Max0
<1>3. EffectiveBump(DashboardForm(r)) = EffectiveBump(r)
  BY Zenon DEF EffectiveBump, DashboardForm
<1>4. EffectiveBump(r) \in {0, r.bump}
  BY <1>2, Zenon DEF EffectiveBump
<1> QED BY <1>1, <1>3, <1>4

\* The columns a row has, whichever schema it is of.
LEMMA StoredColumns ==
  ASSUME NEW r, StoredRow(r)
  PROVE  \/ Raw(r) = 0 /\ Adjusted(r) = 0
         \/ Raw(r) = r.network /\ Adjusted(r) = Max0(r.network - EffectiveBump(r))
<1>1. CASE r.legacy
  BY <1>1, Zenon DEF Raw, Adjusted
<1>2. CASE ~r.legacy
  BY <1>2, Zenon DEF Raw, Adjusted
<1> QED BY <1>1, <1>2

LEMMA ConfirmOfLatency ==
  ASSUME NEW r, StoredRow(r)
  PROVE  ConfirmNS(r) = Max0(r.network - EffectiveBump(r))
BY BumpOfForm, StoredColumns DEF ConfirmNS, Max0

\* An adjusted latency that is filled in takes the same path.
LEMMA AdjustedOfDashboard ==
  ASSUME NEW r, StoredRow(r)
  PROVE  AdjustedNetwork(DashboardForm(r)) = Max0(r.network - EffectiveBump(r))
<1>1. r.network \in Nat /\ r.bump \in Nat
  BY BumpOfForm
<1>2. RawNetwork(DashboardForm(r)) = r.network
  BY <1>1, StoredColumns DEF RawNetwork, DashboardForm
<1>3. /\ DashboardForm(r).adjusted = IF Adjusted(r) = 0 THEN Max0(r.network - r.bump) ELSE Adjusted(r)
      /\ DashboardForm(r).bump = r.bump
  BY DEF DashboardForm
<1>4. Adjusted(r) \in {0, Max0(r.network - EffectiveBump(r))}
  BY StoredColumns
<1> QED BY <1>1, <1>2, <1>3, <1>4, BumpOfForm DEF AdjustedNetwork, Max0

LEMMA ConfirmAgrees ==
  ASSUME NEW r, StoredRow(r), NEW subtract \in BOOLEAN
  PROVE  ConfirmSample(DashboardForm(r), subtract) = ConfirmSample(LatencyForm(r), subtract)
<1>1. r.network \in Nat /\ EffectiveBump(r) \in Nat
  BY BumpOfForm
<1>2. AdjustedNetwork(LatencyForm(r)) = 0
  <2>1. EffectiveBump(LatencyForm(r)) = 0
    <3>1. LatencyForm(r).bump = 0
      BY Zenon DEF LatencyForm
    <3>2. Max0(0) = 0
      BY DEF Max0
    <3> QED BY <3>1, <3>2, Zenon DEF EffectiveBump
  <2>2. LatencyForm(r).adjusted = 0 /\ LatencyForm(r).raw = 0 /\ LatencyForm(r).network = 0
    BY Zenon DEF LatencyForm
  <2>3. RawNetwork(LatencyForm(r)) = 0
    BY <2>2 DEF RawNetwork
  <2> QED BY <2>1, <2>2, <2>3 DEF AdjustedNetwork, Max0
<1>3. LatencyForm(r).confirm = Max0(r.network - EffectiveBump(r)) /\ DashboardForm(r).confirm = 0
  BY ConfirmOfLatency DEF LatencyForm, DashboardForm
<1>4. LatencyForm(r).floor = r.floor /\ DashboardForm(r).floor = r.floor
  BY DEF LatencyForm, DashboardForm
<1> QED BY <1>1, <1>2, <1>3, <1>4, AdjustedOfDashboard DEF ConfirmSample, Floored, Max0

LEMMA CancelAgrees ==
  ASSUME NEW r, StoredRow(r), NEW subtract \in BOOLEAN
  PROVE  CancelSample(DashboardForm(r), subtract) = CancelSample(LatencyForm(r), subtract)
<1>1. /\ DashboardForm(r).feed = FALSE /\ DashboardForm(r).duration = r.duration
      /\ LatencyForm(r).duration = 0
      /\ DashboardForm(r).floor = LatencyForm(r).floor
  BY Zenon DEF DashboardForm, LatencyForm
<1>2. AccountFeedCancel(DashboardForm(r)) <=> FeedCancel(r)
  BY Zenon DEF AccountFeedCancel, DashboardForm, FeedCancel
<1>3. Floored(r.duration, DashboardForm(r), subtract) = Floored(r.duration, LatencyForm(r), subtract)
  BY <1>1, Zenon DEF Floored
<1>4. CASE FeedCancel(r)
  <2>1. LatencyForm(r).feed /\ LatencyForm(r).cleanupConfirm = r.duration
    BY <1>4, Zenon DEF LatencyForm
  <2>2. r.duration \in Nat
    BY DEF StoredRow
  <2>3. CancelSample(DashboardForm(r), subtract)
          = IF r.duration > 0 THEN Floored(r.duration, DashboardForm(r), subtract) ELSE 0
    BY <1>1, <1>2, <1>4, Zenon DEF CancelSample
  <2>4. CancelSample(LatencyForm(r), subtract)
          = IF r.duration > 0 THEN Floored(r.duration, LatencyForm(r), subtract)
            ELSE IF AccountFeedCancel(LatencyForm(r)) /\ 0 > 0
                 THEN Floored(0, LatencyForm(r), subtract) ELSE 0
    BY <1>1, <2>1, Zenon DEF CancelSample
  <2> QED BY <1>3, <2>2, <2>3, <2>4
<1>5. CASE ~FeedCancel(r)
  <2>1. ~LatencyForm(r).feed /\ ~AccountFeedCancel(LatencyForm(r))
    BY <1>5, Zenon DEF LatencyForm, AccountFeedCancel
  <2> QED BY <1>1, <1>2, <1>5, <2>1, Zenon DEF CancelSample
<1> QED BY <1>4, <1>5

\* Whatever the row, all that the charts take from it is the same in the
\* three forms (confirmSampleMs, cancelSampleMs, samplePlotDate and
\* batchSubmission over what the API and the proxy send).
THEOREM FormsAlwaysAgree == ASSUME NEW r, StoredRow(r) PROVE FormsAgree(r)
<1>1. \A subtract \in BOOLEAN : Seen(DashboardForm(r), subtract) = Seen(LatencyForm(r), subtract)
  <2> SUFFICES ASSUME NEW subtract \in BOOLEAN
               PROVE  Seen(DashboardForm(r), subtract) = Seen(LatencyForm(r), subtract)
    OBVIOUS
  <2>1. PlotDate(DashboardForm(r)) = PlotDate(LatencyForm(r))
    <3>1. /\ DashboardForm(r).plot = 0 /\ DashboardForm(r).scheduled = r.scheduled
          /\ DashboardForm(r).sent = r.sent /\ DashboardForm(r).completed = r.completed
          /\ LatencyForm(r).plot = IF r.scheduled > 0 THEN r.scheduled
                                   ELSE IF r.sent > 0 THEN r.sent ELSE r.completed
      BY Zenon DEF DashboardForm, LatencyForm
    <3>2. r.scheduled \in Nat /\ r.sent \in Nat /\ r.completed \in Nat \ {0}
      BY DEF StoredRow
    <3> QED BY <3>1, <3>2 DEF PlotDate
  <2>2. BatchSubmission(DashboardForm(r)) = BatchSubmission(LatencyForm(r))
    BY DEF BatchSubmission, DashboardForm, LatencyForm
  <2> QED BY <2>1, <2>2, ConfirmAgrees, CancelAgrees DEF Seen
<1>2. \A subtract \in BOOLEAN : Seen(RawForm(r), subtract) = Seen(DashboardForm(r), subtract)
  <2> SUFFICES ASSUME NEW subtract \in BOOLEAN
               PROVE  Seen(RawForm(r), subtract) = Seen(DashboardForm(r), subtract)
    OBVIOUS
  <2>1. BatchSubmission(RawForm(r)) = BatchSubmission(DashboardForm(r))
    <3>1. /\ RawForm(r).batch = r.batch /\ RawForm(r).submission = ""
          /\ RawForm(r).native = r.native /\ RawForm(r).model = r.model
      BY Zenon DEF RawForm, DashboardForm
    <3>2. /\ DashboardForm(r).batch = r.batch
          /\ DashboardForm(r).submission = IF r.batch THEN Submission(r) ELSE ""
      BY Zenon DEF DashboardForm
    <3>3. r.native \in {"", "yes", "no"} /\ "" # "yes" /\ "" # "no" /\ "yes" # "no"
      BY DEF StoredRow
    <3>4. Submission(r) \in {"native", "manual"} /\ "native" # "" /\ "manual" # ""
      BY Zenon DEF Submission
    <3>5. r.batch => BatchSubmission(RawForm(r)) = Submission(r)
      BY <3>1, <3>3, Zenon DEF BatchSubmission, Submission
    <3>6. r.batch => BatchSubmission(DashboardForm(r)) = Submission(r)
      BY <3>2, <3>4, Zenon DEF BatchSubmission
    <3>7. ~r.batch => BatchSubmission(DashboardForm(r)) = "" /\ BatchSubmission(RawForm(r)) = ""
      BY <3>1, <3>2, Zenon DEF BatchSubmission
    <3>8. CASE r.batch
      BY <3>5, <3>6, <3>8, Zenon
    <3>9. CASE ~r.batch
      BY <3>7, <3>9, Zenon
    <3> QED BY <3>8, <3>9
  <2>2. ConfirmSample(RawForm(r), subtract) = ConfirmSample(DashboardForm(r), subtract)
    BY DEF ConfirmSample, AdjustedNetwork, RawNetwork, EffectiveBump, Floored, RawForm, DashboardForm
  <2>3. CancelSample(RawForm(r), subtract) = CancelSample(DashboardForm(r), subtract)
    BY DEF CancelSample, AccountFeedCancel, Floored, RawForm, DashboardForm
  <2>4. PlotDate(RawForm(r)) = PlotDate(DashboardForm(r))
    BY DEF PlotDate, RawForm, DashboardForm
  <2> QED BY <2>1, <2>2, <2>3, <2>4 DEF Seen
<1> QED BY <1>1, <1>2 DEF FormsAgree, Forms, InForm

-----------------------------------------------------------------------------
(* The charts of an answer                                                  *)

AnswerOrOff == answer \in Answers \cup {Off}

\* A chart only ever has an answer of the API (latency-timeseries-chart.tsx).
LEMMA StepKeepsAnswer == AnswerOrOff /\ [PanelNext]_panelVars => AnswerOrOff'
<1> SUFFICES ASSUME AnswerOrOff, [PanelNext]_panelVars PROVE AnswerOrOff'
  OBVIOUS
<1>1. CASE UNCHANGED chartVars
  BY <1>1 DEF AnswerOrOff, chartVars
<1>2. CASE ChartNext
  <2>1. CASE ReceiveSamples
    BY <2>1 DEF ReceiveSamples, AnswerOrOff
  <2>2. CASE SetDisplayMode \/ ToggleOutliers \/ SetScale \/ Dismiss \/ \E pointer \in Pointers : MovePointer(pointer)
    BY <2>2 DEF SetDisplayMode, ToggleOutliers, SetScale, Dismiss, MovePointer, AnswerOrOff
  <2> QED
    BY <1>2, <2>1, <2>2 DEF ChartNext
<1> QED
  BY <1>1, <1>2 DEF PanelNext, panelVars

\* The chart of an answer is the one that any other endpoint would have given
\* for the same stored rows, whatever they are (latency-metric.ts, the forms
\* of internal/store/dashboard_sample.go).
THEOREM ChartsAgree == PanelSpec => []SameInEveryForm
<1>1. PanelInit => AnswerOrOff
  BY DEF PanelInit, ChartInit, ChartOff, AnswerOrOff
<1>2. AnswerOrOff => SameInEveryForm
  <2> SUFFICES ASSUME AnswerOrOff, answer # Off, NEW i \in DOMAIN answer.rows
               PROVE FormsAgree(answer.rows[i])
    BY DEF SameInEveryForm
  <2>1. StoredRow(answer.rows[i])
    BY ChartAssumption DEF AnswerOrOff
  <2> QED
    BY <2>1, FormsAlwaysAgree
<1> QED
  BY <1>1, <1>2, StepKeepsAnswer, PTL DEF PanelSpec

-----------------------------------------------------------------------------
(* Sequences                                                               *)

\* All of some places, each once.
Picks(order, places) ==
  /\ order \in [1..Cardinality(places) -> places]
  /\ \A i \in places : \E k \in 1..Cardinality(places) : order[k] = i
  /\ \A k, l \in 1..Cardinality(places) : order[k] = order[l] => k = l

\* Where ahead is a strict order of the places, Arranged is all of them in it.
LEMMA Arranging ==
  ASSUME NEW P, IsFiniteSet(P), NEW ahead, \A i \in P : ahead[i] \subseteq P /\ i \notin ahead[i],
         \A i, j \in P : j \in ahead[i] => ahead[j] \subseteq ahead[i],
         \A i, j \in P : i = j \/ i \in ahead[j] \/ j \in ahead[i]
  PROVE  LET order == Arranged(P, ahead) IN
         /\ Picks(order, P)
         /\ \A k, l \in 1..Cardinality(P) : k < l => order[k] \in ahead[order[l]]
<1> DEFINE n == Cardinality(P)
           c == [i \in P |-> Cardinality(ahead[i])]
           order == Arranged(P, ahead)
<1>1. n \in Nat BY FS_CardinalityType
<1>2. ASSUME NEW i \in P PROVE c[i] \in 0..n-1 /\ \A j \in ahead[i] : c[j] < c[i]
  <2>1. IsFiniteSet(ahead[i]) /\ ahead[i] \subseteq P \ {i} BY FS_Subset
  <2>2. IsFiniteSet(P \ {i}) /\ Cardinality(P \ {i}) = n - 1 BY FS_RemoveElement
  <2>3. c[i] \in Nat /\ c[i] <= n - 1 BY <2>1, <2>2, FS_Subset, FS_CardinalityType
  <2>4. ASSUME NEW j \in ahead[i] PROVE c[j] < c[i]
    <3>1. j \in P /\ ahead[j] \subseteq ahead[i] \ {j} OBVIOUS
    <3>2. IsFiniteSet(ahead[i] \ {j}) /\ Cardinality(ahead[i] \ {j}) = c[i] - 1 BY <2>1, FS_RemoveElement
    <3>3. IsFiniteSet(ahead[j]) /\ c[j] <= c[i] - 1 /\ c[j] \in Nat
      BY <3>1, <3>2, FS_Subset, FS_CardinalityType
    <3> QED BY <2>3, <3>3
  <2> QED BY <1>1, <2>3, <2>4
<1> HIDE DEF c
<1>3. ASSUME NEW i \in P, NEW j \in P, c[i] < c[j] PROVE i \in ahead[j]
  <2>1. c[i] \in Int /\ c[j] \in Int BY <1>1, <1>2
  <2>2. i # j BY <1>3, <2>1
  <2>3. j \notin ahead[i] BY <1>2, <1>3, <2>1
  <2> QED BY <2>2, <2>3
<1>4. \A i, j \in P : c[i] = c[j] => i = j
  <2> SUFFICES ASSUME NEW i \in P, NEW j \in P, c[i] = c[j], i # j PROVE FALSE OBVIOUS
  <2>1. c[i] \in Int /\ c[j] \in Int BY <1>1, <1>2
  <2> QED BY <1>2, <2>1
<1>5. c \in Injection(P, 0..n-1) BY <1>2, <1>4 DEF Injection, IsInjective, c
<1>6. IsFiniteSet(0..n-1) /\ Cardinality(0..n-1) = n
  BY <1>1, FS_Interval
<1>7. c \in Surjection(P, 0..n-1) BY <1>5, <1>6, FS_Injection
<1>8. \A m \in 0..n-1 : \E i \in P : c[i] = m BY <1>7 DEF Surjection
<1> DEFINE ranked == {<<c[i], i>> : i \in P}
<1>9. order = [k \in 1..n |-> (CHOOSE r \in ranked : r[1] = k - 1)[2]] BY DEF Arranged, c
<1>10. ASSUME NEW k \in 1..n PROVE order[k] \in P /\ c[order[k]] = k - 1
  <2>1. PICK i \in P : c[i] = k - 1 BY <1>1, <1>8
  <2>2. <<c[i], i>> \in ranked /\ <<c[i], i>>[1] = k - 1 BY <2>1
  <2>3. PICK r \in ranked : r = (CHOOSE q \in ranked : q[1] = k - 1) /\ r[1] = k - 1 BY <2>2
  <2>4. PICK j \in P : r = <<c[j], j>> BY <2>3
  <2>5. order[k] = r[2] BY <1>9, <2>3
  <2>6. r[1] = c[j] /\ r[2] = j BY <2>4
  <2> QED BY <2>3, <2>5, <2>6
<1> HIDE DEF order, ranked
<1>11. ASSUME NEW i \in P PROVE \E k \in 1..n : order[k] = i
  <2>1. PICK k \in 1..n : k - 1 = c[i]
    <3>1. c[i] \in 0..n-1 BY <1>2
    <3>2. c[i] + 1 \in 1..n /\ c[i] + 1 - 1 = c[i] BY <1>1, <3>1
    <3> QED BY <3>1, <3>2
  <2>2. order[k] \in P /\ c[order[k]] = c[i] BY <1>10, <2>1
  <2> QED BY <1>4, <2>2
<1>12. \A k, l \in 1..n : order[k] = order[l] => k = l BY <1>1, <1>10
<1>13. order \in [1..n -> P] BY <1>9, <1>10
<1>14. \A k, l \in 1..n : k < l => order[k] \in ahead[order[l]] BY <1>1, <1>3, <1>10
<1> QED BY <1>11, <1>12, <1>13, <1>14 DEF Picks, order

LEMMA TakenAt ==
  ASSUME NEW S, NEW s \in Seq(S), NEW n \in Nat, NEW order \in [1..n -> DOMAIN s]
  PROVE  /\ At(s, order) \in Seq(S) /\ Len(At(s, order)) = n
         /\ \A k \in 1..n : At(s, order)[k] = s[order[k]]
<1> DEFINE t == [k \in DOMAIN order |-> s[order[k]]]
<1>1. \A k \in 1..n : s[order[k]] \in S BY LenProperties, ElementOfSeq
<1>2. t \in [1..n -> S] BY <1>1
<1>3. t \in Seq(S) /\ Len(t) = n BY <1>2, SeqDef, LenProperties
<1>4. At(s, order) = t BY <1>3, ConcatEmptySeq DEF At
<1> QED BY <1>3, <1>4

\* Of the places of a sequence.
LEMMA Places ==
  ASSUME NEW S, NEW s \in Seq(S), NEW places \in SUBSET DOMAIN s
  PROVE  /\ DOMAIN s = 1..Len(s) /\ Len(s) \in Nat /\ IsFiniteSet(places) /\ Cardinality(places) \in Nat
         /\ Cardinality(places) <= Len(s) /\ Cardinality(DOMAIN s) = Len(s) /\ IsFiniteSet(DOMAIN s)
<1>1. DOMAIN s = 1..Len(s) /\ Len(s) \in Nat BY LenProperties
<1>2. IsFiniteSet(1..Len(s)) /\ Cardinality(1..Len(s)) = Len(s)
  <2>1. 1 \in Int /\ Len(s) \in Int BY <1>1
  <2>2. IsFiniteSet(1..Len(s)) /\ Cardinality(1..Len(s)) = IF 1 > Len(s) THEN 0 ELSE Len(s) - 1 + 1
    BY ONLY <2>1, FS_Interval
  <2> QED BY <1>1, <2>2
<1> QED BY <1>1, <1>2, FS_Subset, FS_CardinalityType

\* A sequence that is made of some places of another.
Taken(t, s, places, order) ==
  /\ Picks(order, places)
  /\ Len(t) = Cardinality(places) /\ DOMAIN t = 1..Cardinality(places)
  /\ \A k \in 1..Cardinality(places) : t[k] = s[order[k]]

LEMMA Arrange ==
  ASSUME NEW S, NEW s \in Seq(S), NEW places \in SUBSET DOMAIN s,
         NEW ahead, \A i \in places : ahead[i] \subseteq places /\ i \notin ahead[i],
         \A i, j \in places : j \in ahead[i] => ahead[j] \subseteq ahead[i],
         \A i, j \in places : i = j \/ i \in ahead[j] \/ j \in ahead[i]
  PROVE  /\ At(s, Arranged(places, ahead)) \in Seq(S)
         /\ Taken(At(s, Arranged(places, ahead)), s, places, Arranged(places, ahead))
         /\ \A k, l \in 1..Cardinality(places) :
              k < l => Arranged(places, ahead)[k] \in ahead[Arranged(places, ahead)[l]]
<1> DEFINE order == Arranged(places, ahead)
           n == Cardinality(places)
<1>1. IsFiniteSet(places) /\ n \in Nat BY Places
<1>2. Picks(order, places) /\ \A k, l \in 1..n : k < l => order[k] \in ahead[order[l]] BY <1>1, Arranging
<1>3. order \in [1..n -> DOMAIN s] BY <1>2 DEF Picks
<1> HIDE DEF order
<1>4. At(s, order) \in Seq(S) /\ Len(At(s, order)) = n /\ \A k \in 1..n : At(s, order)[k] = s[order[k]]
  BY <1>1, <1>3, TakenAt
<1>5. DOMAIN At(s, order) = 1..n BY <1>4, LenProperties
<1> QED BY <1>2, <1>4, <1>5 DEF Taken, order

\* What a filter leaves is what it should leave, in the same order.
LEMMA Keeping ==
  ASSUME NEW S, NEW s \in Seq(S), NEW places \in SUBSET DOMAIN s
  PROVE  /\ Kept(s, places) \in Seq(S)
         /\ \E order : /\ Taken(Kept(s, places), s, places, order)
                       /\ \A k, l \in 1..Cardinality(places) : k < l => order[k] < order[l]
<1> DEFINE ahead == [i \in places |-> {j \in places : j < i}]
<1>1. \A i \in places : i \in Int BY Places
<1>2. \A i \in places : ahead[i] \subseteq places /\ i \notin ahead[i] BY <1>1
<1>3. \A i, j \in places : j \in ahead[i] => ahead[j] \subseteq ahead[i] BY <1>1
<1>4. \A i, j \in places : i = j \/ i \in ahead[j] \/ j \in ahead[i] BY <1>1
<1>5. \A i, j \in places : i \in ahead[j] => i < j OBVIOUS
<1>6. Kept(s, places) = At(s, Arranged(places, ahead)) BY DEF Kept
<1> HIDE DEF ahead
<1>7. /\ Kept(s, places) \in Seq(S) /\ Taken(Kept(s, places), s, places, Arranged(places, ahead))
      /\ \A k, l \in 1..Cardinality(places) : k < l => Arranged(places, ahead)[k] \in ahead[Arranged(places, ahead)[l]]
  <2>1. /\ At(s, Arranged(places, ahead)) \in Seq(S)
        /\ Taken(At(s, Arranged(places, ahead)), s, places, Arranged(places, ahead))
        /\ \A k, l \in 1..Cardinality(places) : k < l => Arranged(places, ahead)[k] \in ahead[Arranged(places, ahead)[l]]
    BY <1>2, <1>3, <1>4, Arrange
  <2> QED BY <1>6, <2>1
<1>8. Arranged(places, ahead) \in [1..Cardinality(places) -> places] BY <1>7 DEF Taken, Picks
<1>9. \A k, l \in 1..Cardinality(places) : k < l => Arranged(places, ahead)[k] < Arranged(places, ahead)[l]
  BY <1>5, <1>7, <1>8
<1> QED BY <1>7, <1>9

\* A stable sort is one.
LEMMA Sorting ==
  ASSUME NEW S, NEW s \in Seq(S), NEW score, \A i \in DOMAIN s : score[i] \in Int
  PROVE  /\ SortedBy(s, score) \in Seq(S) /\ Len(SortedBy(s, score)) = Len(s)
         /\ \E order : /\ Taken(SortedBy(s, score), s, DOMAIN s, order)
                       /\ \A k, l \in 1..Len(s) : k < l =>
                            \/ score[order[k]] < score[order[l]]
                            \/ score[order[k]] = score[order[l]] /\ order[k] < order[l]
<1> DEFINE P == DOMAIN s
           ahead == [i \in P |-> {j \in P : score[j] < score[i] \/ (score[j] = score[i] /\ j < i)}]
<1>1. (\A i \in P : i \in Int /\ score[i] \in Int) /\ Cardinality(P) = Len(s) BY Places
<1>2. \A i \in P : ahead[i] \subseteq P /\ i \notin ahead[i] BY <1>1
<1>3. \A i, j \in P : j \in ahead[i] => ahead[j] \subseteq ahead[i] BY <1>1
<1>4. \A i, j \in P : i = j \/ i \in ahead[j] \/ j \in ahead[i] BY <1>1
<1>5. \A i, j \in P : i \in ahead[j] => score[i] < score[j] \/ (score[i] = score[j] /\ i < j) OBVIOUS
<1>6. SortedBy(s, score) = At(s, Arranged(P, ahead)) BY DEF SortedBy
<1> HIDE DEF ahead, P
<1>7. P \in SUBSET DOMAIN s BY DEF P
<1>8. /\ SortedBy(s, score) \in Seq(S) /\ Taken(SortedBy(s, score), s, P, Arranged(P, ahead))
      /\ \A k, l \in 1..Cardinality(P) : k < l => Arranged(P, ahead)[k] \in ahead[Arranged(P, ahead)[l]]
  <2>1. /\ At(s, Arranged(P, ahead)) \in Seq(S)
        /\ Taken(At(s, Arranged(P, ahead)), s, P, Arranged(P, ahead))
        /\ \A k, l \in 1..Cardinality(P) : k < l => Arranged(P, ahead)[k] \in ahead[Arranged(P, ahead)[l]]
    BY <1>2, <1>3, <1>4, <1>7, Arrange
  <2> QED BY <1>6, <2>1
<1>9. Arranged(P, ahead) \in [1..Cardinality(P) -> P] BY <1>8 DEF Taken, Picks
<1>10. \A k, l \in 1..Len(s) : k < l =>
         \/ score[Arranged(P, ahead)[k]] < score[Arranged(P, ahead)[l]]
         \/ score[Arranged(P, ahead)[k]] = score[Arranged(P, ahead)[l]] /\ Arranged(P, ahead)[k] < Arranged(P, ahead)[l]
  BY <1>1, <1>5, <1>8, <1>9
<1>11. Len(SortedBy(s, score)) = Len(s) BY <1>1, <1>8 DEF Taken
<1> QED BY <1>8, <1>10, <1>11 DEF P

\* There is a first among the least.
LEMMA BestPlace ==
  ASSUME NEW places, IsFiniteSet(places), places # {}, NEW score,
         \A i \in places : i \in Int /\ score[i] \in Int
  PROVE  /\ BestOf(places, score) \in places
         /\ \A j \in places : \/ score[BestOf(places, score)] < score[j]
                              \/ score[BestOf(places, score)] = score[j] /\ BestOf(places, score) <= j
<1> DEFINE ahead == [i \in places |-> {j \in places : score[j] < score[i] \/ (score[j] = score[i] /\ j < i)}]
           order == Arranged(places, ahead)
           n == Cardinality(places)
<1>1. \A i \in places : ahead[i] \subseteq places /\ i \notin ahead[i] OBVIOUS
<1>2. \A i, j \in places : j \in ahead[i] => ahead[j] \subseteq ahead[i] OBVIOUS
<1>3. \A i, j \in places : i = j \/ i \in ahead[j] \/ j \in ahead[i] OBVIOUS
<1>4. \A i, j \in places : i \in ahead[j] => score[i] < score[j] \/ (score[i] = score[j] /\ i < j) OBVIOUS
<1>5. n \in Nat /\ n # 0 BY FS_CardinalityType, FS_EmptySet
<1> HIDE DEF ahead
<1>6. Picks(order, places) /\ \A k, l \in 1..n : k < l => order[k] \in ahead[order[l]]
  BY <1>1, <1>2, <1>3, Arranging
<1> HIDE DEF order, n
<1>7. 1 \in 1..n /\ order[1] \in places BY <1>5, <1>6 DEF Picks, n
<1>8. ASSUME NEW j \in places PROVE score[order[1]] < score[j] \/ (score[order[1]] = score[j] /\ order[1] <= j)
  <2>1. PICK k \in 1..n : order[k] = j BY <1>6 DEF Picks, n
  <2>2. k = 1 \/ 1 < k BY <1>5
  <2>3. CASE k = 1 BY <1>7, <2>1, <2>3
  <2>4. CASE 1 < k BY <1>4, <1>6, <1>7, <2>1, <2>4
  <2> QED BY <2>2, <2>3, <2>4
<1>9. \E i \in places : \A j \in places : score[i] < score[j] \/ (score[i] = score[j] /\ i <= j) BY <1>7, <1>8
<1> QED BY <1>9 DEF BestOf

LEMMA Empty ==
  ASSUME NEW S, NEW s \in Seq(S)
  PROVE  s = <<>> <=> Len(s) = 0
BY EmptySeq

-----------------------------------------------------------------------------
(* The table                                                               *)

Sorts == [key : {"p50", "p95", "p99"}, desc : BOOLEAN]

TableInv == IF viewed = "table" THEN summaries \in Summaries /\ sort \in Sorts ELSE summaries = Off

LEMMA Rows ==
  ASSUME NEW a \in Summaries, NEW key \in {"p50", "p95", "p99"}
  PROVE  /\ a \in Seq(SummaryRow)
         /\ \A i \in DOMAIN a : a[i] \in SummaryRow /\ Key(a[i], key) \in Int /\ a[i].name \in Int /\ i \in Int
<1>1. a \in Seq(SummaryRow) BY TableAssumption
<1>2. \A i \in DOMAIN a : a[i] \in SummaryRow /\ i \in Int BY <1>1, LenProperties, ElementOfSeq
<1>3. ASSUME NEW row \in SummaryRow PROVE Key(row, key) \in Int /\ row.name \in Int BY DEF Key, SummaryRow
<1> QED BY <1>1, <1>2, <1>3

\* The measured rows, in the order of the column, the name, and the answer.
LEMMA RowsSorted ==
  ASSUME NEW a \in Summaries, NEW s \in Sorts
  PROVE  LET shown == {i \in DOMAIN a : Measured(a[i])} IN
         /\ SortedRows(a, s) \in Seq(SummaryRow)
         /\ \E order : /\ Taken(SortedRows(a, s), a, shown, order)
                       /\ \A k, l \in 1..Cardinality(shown) : k < l =>
                            \/ Before(s, a[order[k]], a[order[l]])
                            \/ /\ Key(a[order[k]], s.key) = Key(a[order[l]], s.key)
                               /\ a[order[k]].name = a[order[l]].name
                               /\ order[k] < order[l]
<1> DEFINE shown == {i \in DOMAIN a : Measured(a[i])}
           v(i) == IF s.desc THEN -Key(a[i], s.key) ELSE Key(a[i], s.key)
           ahead == [i \in shown |->
             {j \in shown : Before(s, a[j], a[i]) \/ (~Before(s, a[i], a[j]) /\ j < i)}]
           order == Arranged(shown, ahead)
<1>1. s.key \in {"p50", "p95", "p99"} /\ s.desc \in BOOLEAN BY DEF Sorts
<1>2. \A i \in shown : i \in Int /\ Key(a[i], s.key) \in Int /\ a[i].name \in Int BY <1>1, Rows
<1>3. \A i, j \in shown : Before(s, a[i], a[j]) <=> v(i) < v(j) \/ (v(i) = v(j) /\ a[i].name < a[j].name)
  BY <1>2 DEF Before
<1>4. \A i \in shown : v(i) \in Int BY <1>2
<1>5. \A i, j \in shown : v(i) = v(j) <=> Key(a[i], s.key) = Key(a[j], s.key) BY <1>2
<1> HIDE DEF v
<1>6. \A i, j \in shown : i \in ahead[j] <=>
        v(i) < v(j) \/ (v(i) = v(j) /\ (a[i].name < a[j].name \/ (a[i].name = a[j].name /\ i < j)))
  BY <1>2, <1>3, <1>4
<1>7. \A i \in shown : ahead[i] \subseteq shown OBVIOUS
<1>8. SortedRows(a, s) = At(a, order) BY DEF SortedRows
<1>9. a \in Seq(SummaryRow) /\ shown \in SUBSET DOMAIN a BY Rows, <1>1
<1> HIDE DEF ahead, shown
<1>10. \A i \in shown : ahead[i] \subseteq shown /\ i \notin ahead[i] BY <1>2, <1>4, <1>6, <1>7
<1>11. \A i, j \in shown : j \in ahead[i] => ahead[j] \subseteq ahead[i]
  <2> SUFFICES ASSUME NEW i \in shown, NEW j \in shown, NEW k \in shown, j \in ahead[i], k \in ahead[j]
               PROVE  k \in ahead[i]
    BY <1>7
  <2> QED BY <1>2, <1>4, <1>6
<1>12. \A i, j \in shown : i = j \/ i \in ahead[j] \/ j \in ahead[i] BY <1>2, <1>4, <1>6
<1>13. /\ At(a, order) \in Seq(SummaryRow) /\ Taken(At(a, order), a, shown, order)
       /\ \A k, l \in 1..Cardinality(shown) : k < l => order[k] \in ahead[order[l]]
  BY <1>9, <1>10, <1>11, <1>12, Arrange
<1> HIDE DEF order
<1>14. ASSUME NEW k \in 1..Cardinality(shown), NEW l \in 1..Cardinality(shown), k < l
       PROVE  \/ Before(s, a[order[k]], a[order[l]])
              \/ /\ Key(a[order[k]], s.key) = Key(a[order[l]], s.key)
                 /\ a[order[k]].name = a[order[l]].name
                 /\ order[k] < order[l]
  <2>1. order[k] \in shown /\ order[l] \in shown BY <1>13 DEF Taken, Picks
  <2>2. order[k] \in ahead[order[l]] BY <1>13, <1>14
  <2> QED BY <1>3, <1>5, <1>6, <2>1, <2>2
<1> QED BY <1>8, <1>13, <1>14 DEF shown

\* The contenders of a list are all its rows that are some, the first first.
LEMMA Contending ==
  ASSUME NEW t \in Seq(SummaryRow), NEW taker
  PROVE  LET of == Contenders(t, taker)
             May(row) == Rankable(row) /\ row.taker = taker IN
         /\ of \in Seq(SummaryRow)
         /\ \A k \in DOMAIN of : \E i \in DOMAIN t : of[k] = t[i] /\ May(t[i])
         /\ \A i \in DOMAIN t : May(t[i]) =>
              /\ \E k \in DOMAIN of : of[k] = t[i]
              /\ 1 \in DOMAIN of /\ \E j \in DOMAIN t : j <= i /\ of[1] = t[j]
<1> DEFINE of == Contenders(t, taker)
           May(row) == Rankable(row) /\ row.taker = taker
           P == {i \in DOMAIN t : May(t[i])}
           n == Cardinality(P)
<1>1. of = Kept(t, P) BY DEF Contenders
<1>2. P \in SUBSET DOMAIN t /\ \A i \in P : May(t[i]) OBVIOUS
<1>3. \A i \in DOMAIN t : May(t[i]) => i \in P OBVIOUS
<1> HIDE DEF P, May, of
<1>4. n \in Nat /\ DOMAIN t = 1..Len(t) /\ Len(t) \in Nat BY <1>2, Places
<1>5. of \in Seq(SummaryRow) BY <1>1, <1>2, Keeping
<1>6. PICK order : Taken(of, t, P, order) /\ \A k, l \in 1..n : k < l => order[k] < order[l]
  BY <1>1, <1>2, Keeping
<1> HIDE DEF n
<1>7. DOMAIN of = 1..n /\ \A k \in 1..n : of[k] = t[order[k]] /\ order[k] \in P BY <1>6 DEF Taken, Picks, n
<1>8. ASSUME NEW i \in DOMAIN t, May(t[i])
      PROVE  /\ \E k \in DOMAIN of : of[k] = t[i]
             /\ 1 \in DOMAIN of /\ \E j \in DOMAIN t : j <= i /\ of[1] = t[j]
  <2>1. PICK k \in 1..n : order[k] = i BY <1>3, <1>6, <1>8 DEF Taken, Picks, n
  <2>2. of[k] = t[i] BY <1>7, <2>1
  <2>3. 1 \in 1..n /\ (k = 1 \/ 1 < k) BY <1>4
  <2>4. order[1] \in DOMAIN t /\ of[1] = t[order[1]] BY <1>2, <1>7, <2>3
  <2>5. order[1] <= i
    <3>1. CASE k = 1 BY <1>4, <2>1, <3>1
    <3>2. CASE 1 < k BY <1>4, <1>6, <2>1, <2>3, <2>4, <3>2
    <3> QED BY <2>3, <3>1, <3>2
  <2> QED BY <1>7, <2>2, <2>3, <2>4, <2>5
<1>9. ASSUME NEW k \in DOMAIN of PROVE \E i \in DOMAIN t : of[k] = t[i] /\ May(t[i]) BY <1>2, <1>7
<1> QED BY <1>5, <1>8, <1>9 DEF May, of

\* The winner has the least key of the contenders.
LEMMA WinnerIsLeast ==
  ASSUME NEW a \in Summaries, NEW taker \in BOOLEAN
  PROVE  LET able == Contenders(a, taker)
             key == IF taker THEN "p50" ELSE "p95" IN
         IF able = <<>> THEN Winner(a, taker) = Off
         ELSE /\ \E k \in DOMAIN able : Winner(a, taker) = able[k]
              /\ \A k \in DOMAIN able : Key(Winner(a, taker), key) <= Key(able[k], key)
<1> DEFINE able == Contenders(a, taker)
           key == IF taker THEN "p50" ELSE "p95"
           score == [i \in DOMAIN able |-> Key(able[i], key)]
           best == BestOf(DOMAIN able, score)
<1>1. a \in Seq(SummaryRow) BY Rows
<1>2. able \in Seq(SummaryRow) BY <1>1, Contending
<1>3. CASE able = <<>> BY <1>3 DEF Winner
<1>4. CASE able # <<>>
  <2>1. DOMAIN able = 1..Len(able) /\ Len(able) \in Nat /\ IsFiniteSet(DOMAIN able) BY <1>2, Places
  <2>2. Len(able) # 0 BY <1>2, <1>4, Empty
  <2>3. DOMAIN able # {}
    <3> HIDE DEF able
    <3>1. 1 \in DOMAIN able BY <2>1, <2>2
    <3> QED BY <3>1
  <2>4. key \in {"p50", "p95", "p99"} OBVIOUS
  <2>5. \A i \in DOMAIN able : i \in Int /\ score[i] = Key(able[i], key) /\ Key(able[i], key) \in Int
    <3>1. \A i \in DOMAIN able : able[i] \in SummaryRow BY <1>2, <2>1, ElementOfSeq
    <3> QED BY <2>1, <2>4, <3>1 DEF SummaryRow, Key
  <2>6. Winner(a, taker) = able[best] BY <1>4 DEF Winner
  <2> HIDE DEF able, score, key
  <2>7. /\ best \in DOMAIN able
        /\ \A j \in DOMAIN able : score[best] < score[j] \/ (score[best] = score[j] /\ best <= j)
    BY <2>1, <2>3, <2>5, BestPlace
  <2>8. \A j \in DOMAIN able : Key(able[best], key) <= Key(able[j], key)
    <3> HIDE DEF best
    <3> QED BY <2>5, <2>7
  <2> HIDE DEF best
  <2> QED BY <1>4, <2>6, <2>7, <2>8 DEF able, key
<1> QED BY <1>3, <1>4

LEMMA TableRanked == TableInv => Ranked
<1> SUFFICES ASSUME summaries \in Summaries, sort \in Sorts PROVE Ranked BY DEF TableInv, Ranked
<1> DEFINE a == summaries
           measured == {j \in DOMAIN summaries : summaries[j].ok > 0}
           n == Cardinality(measured)
           rows == SortedRows(summaries, sort)
<1>1. a \in Seq(SummaryRow) /\ measured \in SUBSET DOMAIN a BY Rows
<1>2. n \in Nat BY <1>1, Places
<1>3. sort.key \in {"p50", "p95", "p99"} /\ sort.desc \in BOOLEAN BY DEF Sorts
<1>4. measured = {j \in DOMAIN a : Measured(a[j])} BY DEF Measured
<1>5. rows \in Seq(SummaryRow) BY RowsSorted
<1>6. PICK order : /\ Taken(rows, a, measured, order)
                   /\ \A k, l \in 1..n : k < l =>
                        \/ Before(sort, a[order[k]], a[order[l]])
                        \/ /\ Key(a[order[k]], sort.key) = Key(a[order[l]], sort.key)
                           /\ a[order[k]].name = a[order[l]].name
                           /\ order[k] < order[l]
  <2> HIDE DEF rows
  <2> QED BY <1>4, RowsSorted DEF rows
<1>7. \A j \in DOMAIN a : a[j] \in SummaryRow /\ Key(a[j], sort.key) \in Int /\ a[j].name \in Int /\ j \in Int
  BY <1>3, Rows
<1>8. \A j \in DOMAIN a : j \in measured <=> a[j].ok > 0 OBVIOUS
<1> HIDE DEF measured, n, rows
<1>9. Len(rows) = n /\ DOMAIN rows = 1..n /\ \A k \in 1..n : rows[k] = a[order[k]] /\ order[k] \in measured
  BY <1>6 DEF Taken, Picks, n
<1>10. \A j \in measured : \E k \in 1..n : order[k] = j BY <1>6 DEF Taken, Picks, n
<1>11. Range(rows) = {a[j] : j \in measured} BY <1>9, <1>10 DEF Range
<1>12. ASSUME NEW i \in 1..n, NEW j \in 1..n, i < j
       PROVE  \/ IF sort.desc THEN Key(rows[i], sort.key) > Key(rows[j], sort.key)
                               ELSE Key(rows[i], sort.key) < Key(rows[j], sort.key)
              \/ Key(rows[i], sort.key) = Key(rows[j], sort.key) /\ rows[i].name < rows[j].name
              \/ /\ Key(rows[i], sort.key) = Key(rows[j], sort.key)
                 /\ rows[i].name = rows[j].name /\ rows[i].mode # rows[j].mode
  <2>1. rows[i] = a[order[i]] /\ rows[j] = a[order[j]] /\ order[i] \in DOMAIN a /\ order[j] \in DOMAIN a
    BY <1>1, <1>9
  <2>2. CASE Before(sort, a[order[i]], a[order[j]]) BY <2>1, <2>2 DEF Before
  <2>3. CASE /\ Key(a[order[i]], sort.key) = Key(a[order[j]], sort.key)
             /\ a[order[i]].name = a[order[j]].name /\ order[i] < order[j]
    <3>1. order[i] # order[j] BY <1>7, <2>1, <2>3
    <3>2. a[order[i]].mode # a[order[j]].mode BY <2>1, <2>3, <3>1, TableAssumption
    <3> QED BY <2>1, <2>3, <3>2
  <2> QED BY <1>6, <1>12, <2>2, <2>3
<1>13. ASSUME NEW taker \in BOOLEAN, sort = [key |-> IF taker THEN "p50" ELSE "p95", desc |-> FALSE]
       PROVE  LET of == Contenders(rows, taker) IN
              IF of = <<>> THEN Winner(a, taker) = Off
              ELSE Key(Winner(a, taker), sort.key) = Key(of[1], sort.key)
  <2> DEFINE of == Contenders(rows, taker)
             able == Contenders(a, taker)
             May(row) == Rankable(row) /\ row.taker = taker
             key == sort.key
             w == Winner(a, taker)
  <2>1. key = (IF taker THEN "p50" ELSE "p95") /\ ~sort.desc BY <1>13
  <2>2. /\ of \in Seq(SummaryRow)
        /\ \A k \in DOMAIN of : \E i \in DOMAIN rows : of[k] = rows[i] /\ May(rows[i])
        /\ \A i \in DOMAIN rows : May(rows[i]) =>
             /\ \E k \in DOMAIN of : of[k] = rows[i]
             /\ 1 \in DOMAIN of /\ \E j \in DOMAIN rows : j <= i /\ of[1] = rows[j]
    BY <1>5, Contending
  <2>3. /\ able \in Seq(SummaryRow)
        /\ \A k \in DOMAIN able : \E i \in DOMAIN a : able[k] = a[i] /\ May(a[i])
        /\ \A i \in DOMAIN a : May(a[i]) => \E k \in DOMAIN able : able[k] = a[i]
    BY <1>1, Contending
  <2>4. IF able = <<>> THEN w = Off
        ELSE /\ \E k \in DOMAIN able : w = able[k]
             /\ \A k \in DOMAIN able : Key(w, key) <= Key(able[k], key)
    BY <2>1, WinnerIsLeast
  <2>5. \A row : May(row) => row.ok > 0 BY DEF Rankable, Measured
  <2>6. DOMAIN of = 1..Len(of) /\ Len(of) \in Nat /\ DOMAIN able = 1..Len(able) /\ Len(able) \in Nat
    BY <2>2, <2>3, LenProperties
  <2>7. (of = <<>> <=> Len(of) = 0) /\ (able = <<>> <=> Len(able) = 0) BY <2>2, <2>3, Empty
  <2>8. \A j \in DOMAIN a : May(a[j]) => \E k \in 1..n : rows[k] = a[j] BY <1>8, <1>9, <1>10, <2>5
  <2>9. \A k \in 1..n : \E j \in DOMAIN a : rows[k] = a[j] BY <1>1, <1>9
  <2> HIDE DEF of, able, May, key, w
  <2>10. CASE of = <<>>
    <3>1. able = <<>>
      <4> SUFFICES ASSUME 1 \in DOMAIN able PROVE FALSE BY <2>6, <2>7
      <4>1. PICK i \in DOMAIN a : May(a[i]) BY <2>3
      <4>2. PICK k \in DOMAIN rows : rows[k] = a[i] BY <1>9, <2>8, <4>1
      <4>3. 1 \in DOMAIN of BY <2>2, <4>1, <4>2
      <4> QED BY <2>6, <2>7, <2>10, <4>3
    <3> QED BY <2>4, <2>10, <3>1 DEF of, w
  <2>11. CASE of # <<>>
    <3>1. 1 \in DOMAIN of BY <2>6, <2>7, <2>11
    <3>2. PICK i \in DOMAIN rows : of[1] = rows[i] /\ May(rows[i]) BY <2>2, <3>1
    <3>3. PICK j \in DOMAIN a : rows[i] = a[j] BY <1>9, <2>9
    <3>4. PICK m \in DOMAIN able : able[m] = a[j] BY <2>3, <3>2, <3>3
    <3>5. able # <<>> BY <2>6, <2>7, <3>4
    <3>6. PICK k \in DOMAIN able : w = able[k] BY <2>4, <3>5
    <3>7. Key(w, key) <= Key(of[1], key) BY <2>4, <3>2, <3>3, <3>4, <3>5
    <3>8. PICK b \in DOMAIN a : w = a[b] /\ May(a[b]) BY <2>3, <3>6
    <3>9. PICK p \in DOMAIN rows : rows[p] = w BY <1>9, <2>8, <3>8
    <3>10. PICK q \in DOMAIN rows : q <= p /\ of[1] = rows[q] BY <2>2, <3>8, <3>9
    <3>11. Key(of[1], key) \in Int /\ Key(w, key) \in Int BY <1>7, <3>2, <3>3, <3>8 DEF key
    <3>12. Key(of[1], key) <= Key(w, key)
      <4>1. q = p \/ q < p BY <1>2, <1>9, <3>10
      <4>2. CASE q = p BY <3>9, <3>10, <3>11, <4>2
      <4>3. CASE q < p
        <5>1. Key(rows[q], key) < Key(rows[p], key) \/ Key(rows[q], key) = Key(rows[p], key)
          BY <1>9, <1>12, <2>1, <4>3 DEF key
        <5> QED BY <3>9, <3>10, <3>11, <5>1
      <4> QED BY <4>1, <4>2, <4>3
    <3>13. Key(w, key) = Key(of[1], key) BY <3>7, <3>11, <3>12
    <3> QED BY <2>11, <3>13 DEF of, w, key
  <2> QED BY <2>10, <2>11
<1> DEFINE values == [i \in DOMAIN rows |-> Key(rows[i], sort.key)]
<1>14. ASSUME NEW i \in DOMAIN rows, NEW j \in DOMAIN rows, i < j
       PROVE  \/ IF sort.desc THEN values[i] > values[j] ELSE values[i] < values[j]
              \/ values[i] = values[j] /\ rows[i].name < rows[j].name
              \/ values[i] = values[j] /\ rows[i].name = rows[j].name /\ rows[i].mode # rows[j].mode
  BY <1>9, <1>12, <1>14
<1> HIDE DEF values
<1> QED BY <1>9, <1>11, <1>13, <1>14 DEF Ranked, rows, measured, n, values

LEMMA StepKeepsTable == TableInv /\ [PanelNext]_panelVars => TableInv'
<1> SUFFICES ASSUME TableInv, [PanelNext]_panelVars PROVE TableInv' OBVIOUS
<1>1. CASE viewed = "table" /\ TableNext /\ UNCHANGED viewed
  <2>1. \A key \in {"p50", "p95", "p99"} : sort \in Sorts => NextSort(sort, key) \in Sorts BY DEF Sorts, NextSort
  <2> QED BY <1>1, <2>1 DEF TableInv, TableNext, ReceiveSummaries, ClickColumn
<1>2. CASE UNCHANGED <<viewed, tableVars>> BY <1>2 DEF TableInv, tableVars
<1> QED BY <1>1, <1>2 DEF PanelNext, panelVars

\* The table's rows and cards: Ranked.
THEOREM TableAlwaysRanked == PanelSpec => []Ranked
<1>1. PanelInit => TableInv
  <2>1. [key |-> "p95", desc |-> FALSE] \in Sorts BY DEF Sorts
  <2> QED BY <2>1 DEF PanelInit, TableInit, TableOff, TableInv
<1> QED BY <1>1, StepKeepsTable, TableRanked, PTL DEF PanelSpec

-----------------------------------------------------------------------------
(* The tooltips                                                            *)

LEMMA MarksStay ==
  ASSUME UNCHANGED <<answer, displayMode, hideOutliers>>
  PROVE  AllMarks' = AllMarks
<1>1. \A i : Sample(i)' = Sample(i) BY DEF Sample
<1>2. \A i : (Drawn(i)' <=> Drawn(i)) /\ SeriesKey(i)' = SeriesKey(i) /\ Point(i)' = Point(i)
  BY <1>1 DEF Drawn, SeriesKey, Point
<1>3. {SeriesKey(i) : i \in {j \in DOMAIN answer.rows : Drawn(j)}}' = {SeriesKey(i) : i \in {j \in DOMAIN answer.rows : Drawn(j)}}
  BY <1>2
<1>4. ASSUME NEW key PROVE VisiblePoints(key)' = VisiblePoints(key)
  <2>1. [i \in DOMAIN answer.rows |-> Point(i)]' = [i \in DOMAIN answer.rows |-> Point(i)] BY <1>2
  <2>2. {i \in DOMAIN answer.rows : Drawn(i) /\ SeriesKey(i) = key}'
          = {i \in DOMAIN answer.rows : Drawn(i) /\ SeriesKey(i) = key}
    BY <1>2
  <2>3. SeriesPoints(key)' = SeriesPoints(key) BY <2>1, <2>2 DEF SeriesPoints
  <2> QED BY <2>3 DEF VisiblePoints
<1>5. ASSUME NEW key PROVE Marks(key)' = Marks(key) BY <1>4 DEF Marks
<1>6. Keys' = Keys BY <1>3 DEF Keys
<1> QED BY <1>5, <1>6 DEF AllMarks

LEMMA StepKeepsHover == HoverCurrent /\ [PanelNext]_panelVars => HoverCurrent'
<1> SUFFICES ASSUME HoverCurrent, [PanelNext]_panelVars PROVE HoverCurrent' OBVIOUS
<1>1. CASE hover' = Off BY <1>1 DEF HoverCurrent
<1>2. ASSUME NEW pointer \in Pointers, MovePointer(pointer) PROVE HoverCurrent'
  <2>1. AllMarks' = AllMarks BY <1>2, MarksStay DEF MovePointer
  <2>2. \A m, marks : Place(m, marks)' = Place(m, marks) BY <1>2 DEF MovePointer, Place
  <2>3. CASE Nearest(pointer, AllMarks) = {} BY <1>1, <1>2, <2>3 DEF MovePointer
  <2>4. CASE Nearest(pointer, AllMarks) # {}
    <3>1. PICK m \in Nearest(pointer, AllMarks) : hover' = [mark |-> m, at |-> Place(m, AllMarks), pointer |-> pointer]
      BY <1>2, <2>4 DEF MovePointer
    <3>2. m \in AllMarks /\ \A k \in AllMarks : Distance(Place(m, AllMarks), pointer) <= Distance(Place(k, AllMarks), pointer)
      BY <3>1 DEF Nearest
    <3>3. hover'.mark = m /\ hover'.at = Place(m, AllMarks) /\ hover'.pointer = pointer BY <3>1
    <3> QED BY <2>1, <2>2, <3>2, <3>3 DEF HoverCurrent
  <2> QED BY <2>3, <2>4
<1>3. CASE UNCHANGED chartVars
  <2>1. AllMarks' = AllMarks BY <1>3, MarksStay DEF chartVars
  <2>2. \A m, marks : Place(m, marks)' = Place(m, marks) BY <1>3 DEF chartVars, Place
  <2> QED BY <1>3, <2>1, <2>2 DEF HoverCurrent, chartVars
<1>4. CASE ChartNext
  BY <1>1, <1>2, <1>4 DEF ChartNext, ReceiveSamples, SetDisplayMode, ToggleOutliers, SetScale, Dismiss, Redraw
<1> QED BY <1>3, <1>4 DEF PanelNext, panelVars

LEMMA CostMarksStay ==
  ASSUME UNCHANGED <<rounds, costMode, costView, costDisplay, costOutliers>>
  PROVE  AllCostMarks' = AllCostMarks
<1>1. Records' = Records BY DEF Records
<1>2. Stable' = Stable BY <1>1 DEF Stable
<1>3. StableVenues' = StableVenues BY <1>2 DEF StableVenues
<1>4. \A r : CostValue(r)' = CostValue(r) BY DEF CostValue
<1>5. ASSUME NEW v PROVE CostMarks(v)' = CostMarks(v)
  <2>1. OfVenue(v)' = OfVenue(v) BY <1>2 DEF OfVenue
  <2>2. CostLine(v)' = CostLine(v) BY <1>4, <2>1 DEF CostLine
  <2>3. CostVisible(v)' = CostVisible(v) BY <2>2 DEF CostVisible
  <2> QED BY <2>3 DEF CostMarks
<1> QED BY <1>3, <1>5 DEF AllCostMarks

LEMMA StepKeepsCostHover == CostTooltipCurrent /\ [PanelNext]_panelVars => CostTooltipCurrent'
<1> SUFFICES ASSUME CostTooltipCurrent, [PanelNext]_panelVars PROVE CostTooltipCurrent' OBVIOUS
<1>1. CASE costHover' = Off BY <1>1 DEF CostTooltipCurrent
<1>2. CASE HoverCost
  <2>1. AllCostMarks' = AllCostMarks BY <1>2, CostMarksStay DEF HoverCost
  <2> QED BY <1>2, <2>1 DEF HoverCost, CostTooltipCurrent
<1>3. CASE UNCHANGED costVars
  <2>1. AllCostMarks' = AllCostMarks BY <1>3, CostMarksStay DEF costVars
  <2> QED BY <1>3, <2>1 DEF CostTooltipCurrent, costVars
<1>4. CASE CostNext
  BY <1>1, <1>2, <1>4 DEF CostNext, ReceiveRounds, SetCostMode, SetCostView, SetCostDisplay, ToggleCostOutliers, LeaveCost
<1> QED BY <1>3, <1>4 DEF PanelNext, panelVars

\* Of finite sets one is the smallest: none of the others is within it.
LEMMA SmallestSet ==
  ASSUME NEW F, F # {}, \A t \in F : IsFiniteSet(t)
  PROVE  \E t \in F : \A r \in F : r \subseteq t => r = t
<1> DEFINE U == UNION F  R == StrictSubsetOrdering(U)
<1>1. IsWellFoundedOn(R, FiniteSubsetsOf(U)) BY FS_StrictSubsetOrderingWellFounded
<1>2. F \subseteq FiniteSubsetsOf(U) BY DEF FiniteSubsetsOf
<1> HIDE DEF R
<1>3. PICK t \in F : \A r \in F : ~(<<r, t>> \in R) BY <1>1, <1>2, WFMin
<1>4. \A r \in F : ~(r \subseteq t /\ r # t)
  <2> HIDE DEF U
  <2>1. F \subseteq SUBSET U BY DEF U
  <2> QED BY <1>3, <2>1 DEF R, StrictSubsetOrdering
<1> QED BY <1>4

\* Of numbers one is the least: the smallest of the intervals that they end.
LEMMA LeastNumber ==
  ASSUME NEW S \in SUBSET Nat, S # {}
  PROVE  \E m \in S : \A k \in S : m <= k
<1> DEFINE F == {0..n : n \in S}
<1>1. \A t \in F : IsFiniteSet(t) BY FS_Interval
<1>2. F # {} OBVIOUS
<1> HIDE DEF F
<1>3. PICK t \in F : \A r \in F : r \subseteq t => r = t BY <1>1, <1>2, SmallestSet
<1> USE DEF F
<1>4. PICK m \in S : t = 0..m OBVIOUS
<1>5. ASSUME NEW k \in S PROVE m <= k
  <2>1. CASE k < m
    <3>1. 0..k \subseteq 0..m /\ m \in 0..m /\ m \notin 0..k BY <2>1
    <3> QED BY <1>3, <1>4, <3>1
  <2> QED BY <2>1
<1> QED BY <1>5

\* The dates of a sequence, each after the one before it.
Rising(dates, n) ==
  /\ n \in Nat /\ \A i \in 1..n : dates[i] \in Int
  /\ \A i, j \in 1..n : i < j => dates[i] < dates[j]

\* Where a search of a part of some dates should end.
Stops(dates, target, low, high, i) ==
  /\ i \in low..high /\ (i < high => dates[i] >= target)
  /\ \A j \in low..high : j < i => dates[j] < target

LEMMA StopIn ==
  ASSUME NEW n, NEW dates, Rising(dates, n), NEW target \in Int,
         NEW low \in 1..n, NEW high \in 1..n, low <= high
  PROVE  /\ \E i \in 1..n : Stops(dates, target, low, high, i)
         /\ \A i, j \in 1..n :
              Stops(dates, target, low, high, i) /\ Stops(dates, target, low, high, j) => i = j
         /\ low = high => Stops(dates, target, low, high, low)
         /\ \A mid \in 1..n, i \in 1..n : low <= mid /\ mid < high =>
              /\ dates[mid] < target /\ Stops(dates, target, mid + 1, high, i) => Stops(dates, target, low, high, i)
              /\ ~(dates[mid] < target) /\ Stops(dates, target, low, mid, i) => Stops(dates, target, low, high, i)
<1> USE DEF Rising
<1> DEFINE late == {i \in low..high : i = high \/ dates[i] >= target}
<1>1. high \in late /\ late \in SUBSET Nat OBVIOUS
<1>2. late # {} BY <1>1
<1>3. PICK i \in late : \A k \in late : i <= k
  <2> HIDE DEF late
  <2> QED BY <1>1, <1>2, LeastNumber
<1>4. \A j \in low..high : j < i => dates[j] < target
  <2> SUFFICES ASSUME NEW j \in low..high, j < i, ~(dates[j] < target) PROVE FALSE OBVIOUS
  <2>1. dates[j] \in Int /\ j \in Int /\ i \in Int OBVIOUS
  <2>2. j \in late BY <2>1
  <2> QED BY <1>3, <2>1, <2>2
<1>5. i \in 1..n /\ i \in low..high /\ (i < high => dates[i] >= target) OBVIOUS
<1>6. \E k \in 1..n : Stops(dates, target, low, high, k) BY <1>4, <1>5 DEF Stops
<1>7. ASSUME NEW k \in 1..n, NEW l \in 1..n, Stops(dates, target, low, high, k), Stops(dates, target, low, high, l)
      PROVE  k = l
  <2>1. ASSUME NEW a \in low..high, NEW b \in low..high, a < b,
               Stops(dates, target, low, high, a), Stops(dates, target, low, high, b)
        PROVE  FALSE
    <3>1. dates[a] < target /\ dates[a] >= target /\ dates[a] \in Int BY <2>1 DEF Stops
    <3> QED BY <3>1
  <2>2. k \in low..high /\ l \in low..high BY <1>7 DEF Stops
  <2> QED BY <1>7, <2>1, <2>2
<1>8. low = high => Stops(dates, target, low, high, low) BY DEF Stops
<1>9. ASSUME NEW mid \in 1..n, NEW k \in 1..n, low <= mid, mid < high, dates[mid] < target,
             Stops(dates, target, mid + 1, high, k)
      PROVE  Stops(dates, target, low, high, k)
  <2>1. k \in mid + 1..high /\ (k < high => dates[k] >= target) /\ \A j \in mid + 1..high : j < k => dates[j] < target
    BY <1>9 DEF Stops
  <2>2. ASSUME NEW j \in low..high, j < k PROVE dates[j] < target
    <3>1. j <= mid \/ j \in mid + 1..high OBVIOUS
    <3>2. CASE j <= mid
      <4>1. dates[j] <= dates[mid] /\ dates[j] \in Int /\ dates[mid] \in Int BY <3>2
      <4> QED BY <1>9, <4>1
    <3> QED BY <2>1, <2>2, <3>1, <3>2
  <2> QED BY <1>9, <2>1, <2>2 DEF Stops
<1>10. ASSUME NEW mid \in 1..n, NEW k \in 1..n, low <= mid, mid < high, ~(dates[mid] < target),
              Stops(dates, target, low, mid, k)
       PROVE  Stops(dates, target, low, high, k)
  <2>1. k \in low..mid /\ (k < mid => dates[k] >= target) /\ \A j \in low..mid : j < k => dates[j] < target
    BY <1>10 DEF Stops
  <2>2. dates[mid] >= target BY <1>10
  <2>3. k = mid \/ k < mid BY <2>1
  <2>4. dates[k] >= target BY <2>1, <2>2, <2>3
  <2>5. \A j \in low..high : j < k => j \in low..mid BY <2>1
  <2> QED BY <1>10, <2>1, <2>4, <2>5 DEF Stops
<1> QED BY <1>6, <1>7, <1>8, <1>9, <1>10

\* Half of a part.
LEMMA HalfWay ==
  ASSUME NEW n \in Nat, NEW low \in 1..n, NEW high \in 1..n, low < high
  PROVE  LET mid == (low + high) \div 2 IN
         /\ mid \in 1..n /\ mid + 1 \in 1..n /\ low <= mid /\ mid < high /\ mid + 1 <= high
         /\ high - (mid + 1) < high - low /\ mid - low < high - low
<1> QED OBVIOUS

\* The search for a date ends at the first that is not before the target, or at the last.
LEMMA SearchFinds ==
  ASSUME NEW n, n # 0, NEW dates, Rising(dates, n), Len(dates) = n, NEW target \in Int
  PROVE  SearchFirst(dates, target) \in 1..n /\ Stops(dates, target, 1, n, SearchFirst(dates, target))
<1> DEFINE Mid(low, high) == (low + high) \div 2
           Turn(g, low, high) ==
             IF low >= high THEN low
             ELSE IF dates[Mid(low, high)] < target THEN g[<<Mid(low, high) + 1, high>>]
             ELSE g[<<low, Mid(low, high)>>]
           Halves(g) == g = [part \in (1..n) \X (1..n) |-> Turn(g, part[1], part[2])]
           Stop(low, high, i) == Stops(dates, target, low, high, i)
           Choice(low, high) == IF low > high THEN low ELSE CHOOSE i \in 1..n : Stop(low, high, i)
           found == [part \in (1..n) \X (1..n) |-> Choice(part[1], part[2])]
<1>n. n \in Nat BY DEF Rising
<1>1. ASSUME NEW low \in 1..n, NEW high \in 1..n, low < high
      PROVE  /\ Mid(low, high) \in 1..n /\ Mid(low, high) + 1 \in 1..n /\ low <= Mid(low, high) /\ Mid(low, high) < high
             /\ Mid(low, high) + 1 <= high
             /\ high - (Mid(low, high) + 1) < high - low /\ Mid(low, high) - low < high - low
  BY <1>n, <1>1, HalfWay
<1> HIDE DEF Mid
<1>2. ASSUME NEW low \in 1..n, NEW high \in 1..n, low <= high
      PROVE  \E i \in 1..n : Stop(low, high, i)
  BY ONLY <1>2, StopIn, Rising(dates, n), target \in Int
<1>2a. ASSUME NEW low \in 1..n, NEW high \in 1..n, low <= high,
              NEW i \in 1..n, NEW j \in 1..n, Stop(low, high, i), Stop(low, high, j)
       PROVE  i = j
  BY ONLY <1>2a, StopIn, Rising(dates, n), target \in Int
<1>2b. ASSUME NEW low \in 1..n PROVE Stop(low, low, low)
  <2>1. low <= low BY <1>n
  <2> QED BY ONLY <2>1, StopIn, Rising(dates, n), target \in Int
<1>2c. ASSUME NEW low \in 1..n, NEW high \in 1..n, low <= high, NEW mid \in 1..n, NEW i \in 1..n,
              low <= mid, mid < high
       PROVE  /\ dates[mid] < target /\ Stop(mid + 1, high, i) => Stop(low, high, i)
              /\ ~(dates[mid] < target) /\ Stop(low, mid, i) => Stop(low, high, i)
  BY ONLY <1>2c, StopIn, Rising(dates, n), target \in Int
<1> HIDE DEF Stop, Choice
<1>3a. \A low, high \in 1..n : found[<<low, high>>] = Choice(low, high) OBVIOUS
<1>5. found = [part \in (1..n) \X (1..n) |-> found[part]] OBVIOUS
<1> HIDE DEF found
<1>3. ASSUME NEW low \in 1..n, NEW high \in 1..n, low <= high
      PROVE  found[<<low, high>>] \in 1..n /\ Stop(low, high, found[<<low, high>>])
  <2>1. ~(low > high) BY <1>n, <1>3
  <2>2. Choice(low, high) = CHOOSE i \in 1..n : Stop(low, high, i) BY <2>1 DEF Choice
  <2>3. Choice(low, high) \in 1..n /\ Stop(low, high, Choice(low, high)) BY <1>2, <1>3, <2>2
  <2> QED BY <1>3a, <2>3
<1>4. \A low, high \in 1..n : low > high => found[<<low, high>>] = low BY <1>3a DEF Choice
<1>6. ASSUME NEW low \in 1..n, NEW high \in 1..n PROVE found[<<low, high>>] = Turn(found, low, high)
  <2> DEFINE mid == Mid(low, high)
  <2>0. low > high \/ low = high \/ low < high BY <1>n
  <2>1. CASE low > high
    <3>1. low >= high BY <1>n, <2>1
    <3> QED BY <1>4, <2>1, <3>1
  <2>2. CASE low = high
    <3>1. low >= high /\ low <= high BY <1>n, <2>2
    <3>2. found[<<low, high>>] = low BY <1>2a, <1>2b, <1>3, <2>2, <3>1
    <3> QED BY <3>1, <3>2
  <2>3. CASE low < high
    <3>1. mid \in 1..n /\ mid + 1 \in 1..n /\ low <= mid /\ mid < high /\ mid + 1 <= high BY <1>1, <2>3
    <3>1a. low <= high /\ ~(low >= high) BY <1>n, <2>3
    <3>2. found[<<low, high>>] \in 1..n /\ Stop(low, high, found[<<low, high>>]) BY <1>3, <3>1a
    <3> HIDE DEF mid
    <3>3. found[<<mid + 1, high>>] \in 1..n /\ Stop(mid + 1, high, found[<<mid + 1, high>>]) BY <1>3, <3>1
    <3>4. found[<<low, mid>>] \in 1..n /\ Stop(low, mid, found[<<low, mid>>]) BY <1>3, <3>1
    <3>5. CASE dates[mid] < target
      <4>1. Stop(low, high, found[<<mid + 1, high>>]) BY <1>2c, <3>1a, <3>1, <3>3, <3>5
      <4>2. found[<<mid + 1, high>>] = found[<<low, high>>] BY <1>2a, <3>1a, <3>2, <3>3, <4>1
      <4> QED BY <3>1a, <3>5, <4>2 DEF mid
    <3>6. CASE ~(dates[mid] < target)
      <4>1. Stop(low, high, found[<<low, mid>>]) BY <1>2c, <3>1a, <3>1, <3>4, <3>6
      <4>2. found[<<low, mid>>] = found[<<low, high>>] BY <1>2a, <3>1a, <3>2, <3>4, <4>1
      <4> QED BY <3>1a, <3>6, <4>2 DEF mid
    <3> QED BY <3>5, <3>6
  <2> QED BY <2>0, <2>1, <2>2, <2>3
<1> DEFINE g == CHOOSE f : Halves(f)
<1>9. Halves(g)
  <2>1. ASSUME NEW part \in (1..n) \X (1..n) PROVE found[part] = Turn(found, part[1], part[2])
    <3>1. part = <<part[1], part[2]>> /\ part[1] \in 1..n /\ part[2] \in 1..n OBVIOUS
    <3> HIDE DEF Turn
    <3> QED BY <1>6, <3>1
  <2> HIDE DEF Turn
  <2>2. Halves(found) BY <1>5, <2>1
  <2> HIDE DEF Halves
  <2> QED BY <2>2
<1>10. SearchFirst(dates, target) = g[<<1, n>>] BY DEF SearchFirst, Mid
<1> HIDE DEF g
<1>11. ASSUME NEW low \in 1..n, NEW high \in 1..n PROVE g[<<low, high>>] = Turn(g, low, high)
  <2> HIDE DEF Turn
  <2> QED BY <1>9
<1> HIDE DEF Halves
<1> DEFINE Bad == {d \in Nat : \E low, high \in 1..n : low <= high /\ d = high - low /\ g[<<low, high>>] # found[<<low, high>>]}
<1>12. Bad = {}
  <2> SUFFICES ASSUME Bad # {} PROVE FALSE OBVIOUS
  <2>1. PICK d \in Bad : \A e \in Bad : d <= e
    <3>1. Bad \in SUBSET Nat OBVIOUS
    <3> HIDE DEF Bad
    <3> QED BY <3>1, LeastNumber
  <2>2. PICK low \in 1..n, high \in 1..n : low <= high /\ d = high - low /\ g[<<low, high>>] # found[<<low, high>>]
    BY <2>1
  <2>2a. d \in Nat BY <2>1
  <2>3. ASSUME NEW l \in 1..n, NEW h \in 1..n, l <= h, h - l < d PROVE g[<<l, h>>] = found[<<l, h>>]
    <3> SUFFICES ASSUME g[<<l, h>>] # found[<<l, h>>] PROVE FALSE OBVIOUS
    <3>1. h - l \in Nat BY <1>n, <2>3
    <3>2. h - l \in Bad BY <2>3, <3>1
    <3>3. d <= h - l BY <2>1, <3>2
    <3> QED BY ONLY <2>2a, <2>3, <3>1, <3>3
  <2> HIDE DEF Bad
  <2> DEFINE mid == Mid(low, high)
  <2>4. low >= high \/ low < high BY <1>n
  <2>5. CASE low >= high BY <1>6, <1>11, <2>2, <2>5
  <2>6. CASE low < high
    <3>1. mid \in 1..n /\ mid + 1 \in 1..n /\ low <= mid /\ mid + 1 <= high /\ high - (mid + 1) < d /\ mid - low < d
      BY <1>1, <2>2, <2>6
    <3>2. ~(low >= high) BY <1>n, <2>6
    <3> HIDE DEF mid
    <3>3. g[<<mid + 1, high>>] = found[<<mid + 1, high>>] /\ g[<<low, mid>>] = found[<<low, mid>>]
      BY <2>3, <3>1
    <3>4. Turn(g, low, high) = Turn(found, low, high) BY <3>2, <3>3 DEF mid
    <3> HIDE DEF Turn
    <3> QED BY <1>6, <1>11, <2>2, <3>4
  <2> QED BY <2>4, <2>5, <2>6
<1>13. 1 \in 1..n /\ n \in 1..n /\ 1 <= n /\ n - 1 \in Nat BY <1>n
<1>14. g[<<1, n>>] = found[<<1, n>>]
  <2> SUFFICES ASSUME g[<<1, n>>] # found[<<1, n>>] PROVE FALSE OBVIOUS
  <2>1. n - 1 \in Bad BY <1>13
  <2> QED BY <1>12, <2>1
<1>15. Stop(1, n, g[<<1, n>>]) /\ g[<<1, n>>] \in 1..n BY <1>3, <1>13, <1>14
<1> QED BY <1>10, <1>15 DEF Stop

\* The search of a line finds the points at a date.
LEMMA PointFound ==
  ASSUME NEW n \in Nat, NEW line, Len(line) = n, \A i \in 1..n : line[i].date \in Int, NEW date \in Int,
         \A i, j \in 1..n : i < j => line[i].date < line[j].date
  PROVE  PointAt(line, date) = {line[i] : i \in {j \in 1..n : line[j].date = date}}
<1> DEFINE A == 1..(n + 1)
           B == 0..n
           Mid(low, high) == (low + high) \div 2
           Turn(g, low, high) ==
             IF low > high THEN {}
             ELSE IF line[Mid(low, high)].date = date THEN {line[Mid(low, high)]}
             ELSE IF line[Mid(low, high)].date < date THEN g[<<Mid(low, high) + 1, high>>]
             ELSE g[<<low, Mid(low, high) - 1>>]
           Halves(g) == g = [part \in A \X B |-> Turn(g, part[1], part[2])]
           Spots(low, high) == {j \in low..high : line[j].date = date}
           There(low, high) == {line[i] : i \in Spots(low, high)}
           found == [part \in A \X B |-> There(part[1], part[2])]
           Size(low, high) == IF low > high THEN 0 ELSE high - low + 1
<1>0. A \subseteq Int /\ B \subseteq Int OBVIOUS
<1>1. ASSUME NEW low \in A, NEW high \in B, ~(low > high)
      PROVE  LET mid == Mid(low, high) IN
             /\ mid \in 1..n /\ mid + 1 \in A /\ mid - 1 \in B /\ low <= mid /\ mid <= high
             /\ Size(mid + 1, high) < Size(low, high) /\ Size(low, mid - 1) < Size(low, high)
  BY <1>1
<1>1a. ASSUME NEW low \in A, NEW high \in B PROVE Size(low, high) \in Nat OBVIOUS
<1>1b. \A low \in A, high \in B : low..high \subseteq 1..n OBVIOUS
<1> HIDE DEF Mid, Size
<1>2. \A low \in A, high \in B : low > high => There(low, high) = {} OBVIOUS
<1>3. ASSUME NEW low \in A, NEW high \in B, NEW mid \in 1..n, low <= mid, mid <= high, line[mid].date = date
      PROVE  There(low, high) = {line[mid]}
  <2>1. mid \in Spots(low, high) BY <1>0, <1>3
  <2>2. ASSUME NEW j \in Spots(low, high) PROVE j = mid
    <3>1. j \in 1..n /\ line[j].date = date BY <1>1b
    <3>2. ~(j < mid) /\ ~(mid < j) BY <1>3, <3>1
    <3> QED BY <3>1, <3>2
  <2> HIDE DEF Spots
  <2> QED BY <2>1, <2>2
<1>4. ASSUME NEW low \in A, NEW high \in B, NEW mid \in 1..n, low <= mid, mid <= high, line[mid].date < date
      PROVE  There(low, high) = There(mid + 1, high)
  <2>1. ASSUME NEW j \in low..high, line[j].date = date PROVE j \in mid + 1..high
    <3>1. j \in 1..n /\ j \in Int /\ mid \in Int BY <1>0, <1>1b
    <3>2. j # mid /\ ~(j < mid) BY <1>4, <2>1, <3>1
    <3> QED BY <1>0, <3>1, <3>2
  <2>2. mid + 1..high \subseteq low..high BY <1>0, <1>4
  <2>3. Spots(low, high) = Spots(mid + 1, high) BY <2>1, <2>2
  <2> HIDE DEF Spots
  <2> QED BY <2>3
<1>5. ASSUME NEW low \in A, NEW high \in B, NEW mid \in 1..n, low <= mid, mid <= high,
             line[mid].date # date, ~(line[mid].date < date)
      PROVE  There(low, high) = There(low, mid - 1)
  <2>1. ASSUME NEW j \in low..high, line[j].date = date PROVE j \in low..mid - 1
    <3>1. j \in 1..n /\ j \in Int /\ mid \in Int /\ line[mid].date \in Int BY <1>0, <1>1b
    <3>2. j # mid /\ ~(mid < j) BY <1>5, <2>1, <3>1
    <3> QED BY <1>0, <3>1, <3>2
  <2>2. low..mid - 1 \subseteq low..high BY <1>0, <1>5
  <2>3. Spots(low, high) = Spots(low, mid - 1) BY <2>1, <2>2
  <2> HIDE DEF Spots
  <2> QED BY <2>3
<1> HIDE DEF There, Spots
<1>6. \A low \in A, high \in B : found[<<low, high>>] = There(low, high) OBVIOUS
<1>7. found = [part \in A \X B |-> found[part]] OBVIOUS
<1> HIDE DEF found
<1>8. ASSUME NEW low \in A, NEW high \in B PROVE found[<<low, high>>] = Turn(found, low, high)
  <2> DEFINE mid == Mid(low, high)
  <2>1. CASE low > high BY <1>2, <1>6, <2>1
  <2>2. CASE ~(low > high)
    <3>1. mid \in 1..n /\ mid + 1 \in A /\ mid - 1 \in B /\ low <= mid /\ mid <= high BY <1>1, <2>2
    <3> HIDE DEF mid, A, B
    <3>2. CASE line[mid].date = date BY <1>3, <1>6, <2>2, <3>1, <3>2 DEF mid
    <3>3. CASE line[mid].date # date /\ line[mid].date < date BY <1>4, <1>6, <2>2, <3>1, <3>3 DEF mid
    <3>4. CASE line[mid].date # date /\ ~(line[mid].date < date) BY <1>5, <1>6, <2>2, <3>1, <3>4 DEF mid
    <3> QED BY <3>2, <3>3, <3>4
  <2> QED BY <2>1, <2>2
<1> DEFINE g == CHOOSE f : Halves(f)
<1>9. Halves(g)
  <2>1. ASSUME NEW part \in A \X B PROVE found[part] = Turn(found, part[1], part[2])
    <3> HIDE DEF A, B
    <3>1. part = <<part[1], part[2]>> /\ part[1] \in A /\ part[2] \in B OBVIOUS
    <3> HIDE DEF Turn
    <3> QED BY <1>8, <3>1
  <2> HIDE DEF Turn, A, B
  <2>2. Halves(found) BY <1>7, <2>1
  <2> HIDE DEF Halves
  <2> QED BY <2>2
<1>10. PointAt(line, date) = g[<<1, n>>] BY DEF PointAt, Mid
<1> HIDE DEF g
<1>11. ASSUME NEW low \in A, NEW high \in B PROVE g[<<low, high>>] = Turn(g, low, high)
  <2> HIDE DEF Turn, A, B
  <2> QED BY <1>9
<1> HIDE DEF Halves
<1> DEFINE Bad == {d \in Nat : \E low \in A, high \in B : d = Size(low, high) /\ g[<<low, high>>] # found[<<low, high>>]}
<1>12. Bad = {}
  <2> SUFFICES ASSUME Bad # {} PROVE FALSE OBVIOUS
  <2>1. PICK d \in Bad : \A e \in Bad : d <= e
    <3>1. Bad \in SUBSET Nat OBVIOUS
    <3> HIDE DEF Bad
    <3> QED BY <3>1, LeastNumber
  <2>2. PICK low \in A, high \in B : d = Size(low, high) /\ g[<<low, high>>] # found[<<low, high>>]
    BY <2>1
  <2>3. d \in Nat BY <2>1
  <2>4. ASSUME NEW l \in A, NEW h \in B, Size(l, h) < d PROVE g[<<l, h>>] = found[<<l, h>>]
    <3> SUFFICES ASSUME g[<<l, h>>] # found[<<l, h>>] PROVE FALSE OBVIOUS
    <3>1. Size(l, h) \in Nat BY <1>1a
    <3>2. Size(l, h) \in Bad BY <3>1
    <3>3. d <= Size(l, h) BY <2>1, <3>2
    <3> QED BY ONLY <2>3, <2>4, <3>1, <3>3
  <2> HIDE DEF Bad
  <2> DEFINE mid == Mid(low, high)
  <2>5. CASE low > high BY <1>8, <1>11, <2>2, <2>5
  <2>6. CASE ~(low > high)
    <3>1. mid + 1 \in A /\ mid - 1 \in B /\ Size(mid + 1, high) < d /\ Size(low, mid - 1) < d
      BY <1>1, <2>2, <2>6
    <3> HIDE DEF mid, A, B
    <3>2. g[<<mid + 1, high>>] = found[<<mid + 1, high>>] /\ g[<<low, mid - 1>>] = found[<<low, mid - 1>>]
      BY <2>4, <3>1
    <3>3. Turn(g, low, high) = Turn(found, low, high) BY <3>2 DEF mid
    <3> HIDE DEF Turn
    <3> QED BY <1>8, <1>11, <2>2, <3>3
  <2> QED BY <2>5, <2>6
<1>13. 1 \in A /\ n \in B OBVIOUS
<1>14. g[<<1, n>>] = found[<<1, n>>]
  <2> SUFFICES ASSUME g[<<1, n>>] # found[<<1, n>>] PROVE FALSE OBVIOUS
  <2>1. Size(1, n) \in Bad BY <1>1a, <1>13
  <2> QED BY <1>12, <2>1
<1> QED BY <1>6, <1>10, <1>13, <1>14 DEF There, Spots

LEMMA MaxOfTwo ==
  ASSUME NEW a \in Int, NEW b \in Int
  PROVE  Max({a, b}) = IF a >= b THEN a ELSE b
<1> DEFINE m == IF a >= b THEN a ELSE b
<1>1. m \in {a, b} /\ \A y \in {a, b} : m >= y OBVIOUS
<1>2. \A x \in {a, b} : (\A y \in {a, b} : x >= y) => x = m OBVIOUS
<1>3. Max({a, b}) = CHOOSE x \in {a, b} : \A y \in {a, b} : x >= y BY DEF Max
<1> HIDE DEF m
<1> QED BY <1>1, <1>2, <1>3 DEF m

\* The date that the tooltip names is the nearest one.
LEMMA NearestFound ==
  ASSUME NEW n, n # 0, NEW dates, Rising(dates, n), Len(dates) = n, NEW target \in Int
  PROVE  /\ \E k \in 1..n : NearestDate(dates, target) = dates[k]
         /\ \A k \in 1..n : Gap(NearestDate(dates, target), target) <= Gap(dates[k], target)
<1> DEFINE low == SearchFirst(dates, target)
           previous == Max({1, low - 1})
           near == NearestDate(dates, target)
<1>1. n \in Nat /\ \A k \in 1..n : dates[k] \in Int BY DEF Rising
<1>2. low \in 1..n /\ (low < n => dates[low] >= target) /\ \A j \in 1..n : j < low => dates[j] < target
  BY SearchFinds DEF Stops
<1>3. near = IF Gap(dates[previous], target) <= Gap(dates[low], target) THEN dates[previous] ELSE dates[low]
  BY DEF NearestDate
<1> HIDE DEF low, near
<1>4. previous = IF low = 1 THEN 1 ELSE low - 1
  <2>1. low - 1 \in Int /\ 1 \in Int BY <1>1, <1>2
  <2>2. previous = IF 1 >= low - 1 THEN 1 ELSE low - 1 BY <2>1, MaxOfTwo
  <2> QED BY <1>1, <1>2, <2>2
<1> HIDE DEF previous
<1>5. previous \in 1..n BY <1>1, <1>2, <1>4
<1>6. \E k \in 1..n : near = dates[k] BY <1>2, <1>3, <1>5
<1>7. \A k \in 1..n : Gap(dates[k], target) \in Int BY <1>1 DEF Gap
<1>8. Gap(near, target) <= Gap(dates[low], target) /\ Gap(near, target) <= Gap(dates[previous], target)
  BY <1>2, <1>3, <1>5, <1>7
<1>9. \A i, j \in 1..n : i < j => dates[i] < dates[j] BY DEF Rising
<1>10. ASSUME NEW k \in 1..n, low < k PROVE Gap(dates[low], target) <= Gap(dates[k], target)
  <2>1. low < n BY <1>1, <1>2, <1>10
  <2>2. dates[low] >= target /\ dates[low] < dates[k] BY <1>2, <1>9, <1>10, <2>1
  <2> QED BY <1>1, <1>2, <2>2 DEF Gap
<1>11. ASSUME NEW k \in 1..n, k < previous PROVE Gap(dates[previous], target) <= Gap(dates[k], target)
  <2>1. previous < low BY <1>1, <1>2, <1>4, <1>11
  <2>2. dates[previous] < target /\ dates[k] < dates[previous] BY <1>2, <1>5, <1>9, <1>11, <2>1
  <2> QED BY <1>1, <1>5, <2>2 DEF Gap
<1>12. \A k \in 1..n : k = low \/ k = previous \/ low < k \/ k < previous BY <1>1, <1>2, <1>4
<1>13. Gap(near, target) \in Int BY <1>6, <1>7
<1>14. ASSUME NEW k \in 1..n PROVE Gap(near, target) <= Gap(dates[k], target)
  <2>1. CASE k = low \/ k = previous BY <1>8, <2>1
  <2>2. CASE low < k BY <1>2, <1>7, <1>8, <1>10, <1>13, <2>2
  <2>3. CASE k < previous BY <1>5, <1>7, <1>8, <1>11, <1>13, <2>3
  <2> QED BY <1>12, <2>1, <2>2, <2>3
<1> QED BY <1>6, <1>14 DEF near

LEMMA CompleteRows ==
  ASSUME buckets \in TPSAnswers
  PROVE  /\ Complete \in Seq(TPSRow) /\ DOMAIN Complete = 1..Len(Complete) /\ Len(Complete) \in Nat
         /\ \A i \in DOMAIN Complete : Complete[i] \in TPSRow
         /\ \A i, j \in DOMAIN Complete :
              Complete[i].venue = Complete[j].venue /\ Complete[i].start = Complete[j].start => i = j
<1> DEFINE P == {i \in DOMAIN buckets : buckets[i].complete}
           n == Cardinality(P)
<1>1. buckets \in Seq(TPSRow) BY TPSChartAssumption
<1>2. P \in SUBSET DOMAIN buckets OBVIOUS
<1>3. Complete = Kept(buckets, P) BY DEF Complete
<1> HIDE DEF P
<1>4. Complete \in Seq(TPSRow) BY <1>1, <1>2, <1>3, Keeping
<1>5. PICK order : Taken(Complete, buckets, P, order) BY <1>1, <1>2, <1>3, Keeping
<1>6. DOMAIN Complete = 1..Len(Complete) /\ Len(Complete) \in Nat /\ \A i \in DOMAIN Complete : Complete[i] \in TPSRow
  BY <1>4, LenProperties, ElementOfSeq
<1>7. /\ DOMAIN Complete = 1..n
      /\ \A k \in 1..n : Complete[k] = buckets[order[k]] /\ order[k] \in P
      /\ \A k, l \in 1..n : order[k] = order[l] => k = l
  BY <1>5 DEF Taken, Picks, n
<1>8. ASSUME NEW i \in DOMAIN Complete, NEW j \in DOMAIN Complete,
             Complete[i].venue = Complete[j].venue, Complete[i].start = Complete[j].start
      PROVE  i = j
  <2>1. order[i] \in DOMAIN buckets /\ order[j] \in DOMAIN buckets BY <1>2, <1>7
  <2>2. order[i] = order[j] BY <1>7, <1>8, <2>1, TPSChartAssumption
  <2> QED BY <1>7, <2>2
<1> QED BY <1>4, <1>6, <1>8

LEMMA DatesRise ==
  ASSUME buckets \in TPSAnswers
  PROVE  /\ Rising(Dates, Len(Dates)) /\ (Dates # <<>> => Len(Dates) # 0)
         /\ \A k \in 1..Len(Dates) : \E i \in DOMAIN Complete : Dates[k] = Complete[i].start
         /\ \A i \in DOMAIN Complete : \E k \in 1..Len(Dates) : Dates[k] = Complete[i].start
<1> DEFINE D == {Complete[i].start : i \in DOMAIN Complete}
           ahead == [d \in D |-> {e \in D : e < d}]
           n == Cardinality(D)
<1>1. D \subseteq Int BY CompleteRows DEF TPSRow
<1>2. IsFiniteSet(D) /\ n \in Nat
  <2>1. Complete \in Seq(TPSRow) /\ DOMAIN Complete \in SUBSET DOMAIN Complete BY CompleteRows
  <2>2. IsFiniteSet(DOMAIN Complete) BY <2>1, Places
  <2>3. IsFiniteSet({Complete[i].start : i \in DOMAIN Complete})
    <3> DEFINE f == [i \in DOMAIN Complete |-> Complete[i].start]
    <3>1. f \in Surjection(DOMAIN Complete, D) BY DEF Surjection
    <3> QED BY <2>2, <3>1, FS_Surjection
  <2> QED BY <2>3, FS_CardinalityType
<1>3. Dates = Arranged(D, ahead) BY DEF Dates
<1>3a. (\A d \in D : \E i \in DOMAIN Complete : d = Complete[i].start) /\ \A i \in DOMAIN Complete : Complete[i].start \in D
  OBVIOUS
<1> HIDE DEF D
<1>4. \A i \in D : ahead[i] \subseteq D /\ i \notin ahead[i] BY <1>1
<1>5. ASSUME NEW i \in D, NEW j \in D, j \in ahead[i] PROVE ahead[j] \subseteq ahead[i]
  <2>1. i \in Int /\ j \in Int /\ j < i BY <1>1, <1>5
  <2>2. \A e \in D : e \in Int /\ (e < j => e < i) BY <1>1, <2>1
  <2> QED BY <2>2
<1>6. \A i, j \in D : i = j \/ i \in ahead[j] \/ j \in ahead[i] BY <1>1
<1>7. \A i, j \in D : i \in ahead[j] => i < j OBVIOUS
<1> HIDE DEF ahead
<1>8. Picks(Dates, D) /\ \A k, l \in 1..n : k < l => Dates[k] \in ahead[Dates[l]]
  BY <1>2, <1>3, <1>4, <1>5, <1>6, Arranging
<1> HIDE DEF n
<1>9. Dates \in [1..n -> D] /\ \A i \in D : \E k \in 1..n : Dates[k] = i BY <1>8 DEF Picks, n
<1>10. Dates \in Seq(D) /\ Len(Dates) = n BY <1>2, <1>9, SeqDef, LenProperties
<1>11. \A k, l \in 1..n : k < l => Dates[k] < Dates[l] BY <1>7, <1>8, <1>9
<1>12. Rising(Dates, n) BY <1>1, <1>2, <1>9, <1>11 DEF Rising
<1>13. Dates # <<>> => Len(Dates) # 0 BY <1>10, EmptySeq
<1>14. \A k \in 1..n : Dates[k] \in D BY <1>9
<1>15. \A i \in DOMAIN Complete : \E k \in 1..n : Dates[k] = Complete[i].start BY <1>3a, <1>9
<1>16. \A k \in 1..n : \E i \in DOMAIN Complete : Dates[k] = Complete[i].start BY <1>3a, <1>14
<1> QED BY <1>10, <1>12, <1>13, <1>15, <1>16

\* What the tooltip says of a bucket.
TPSPoint(i) == [date |-> Complete[i].start, tps |-> Rate(Complete[i]), venue |-> Complete[i].venue]

\* A line of all the complete buckets of a venue, in the order of their dates.
LineOf(line, venue) ==
  /\ line \in Seq({TPSPoint(i) : i \in DOMAIN Complete})
  /\ Len(line) \in Nat /\ DOMAIN line = 1..Len(line)
  /\ \A i \in 1..Len(line) : line[i].date \in Int
  /\ \A i, j \in 1..Len(line) : i < j => line[i].date < line[j].date
  /\ \A k \in 1..Len(line) : \E i \in DOMAIN Complete : Complete[i].venue = venue /\ line[k] = TPSPoint(i)
  /\ \A i \in DOMAIN Complete : Complete[i].venue = venue => \E k \in 1..Len(line) : line[k] = TPSPoint(i)

LEMMA LineIs ==
  ASSUME buckets \in TPSAnswers, NEW venue
  PROVE  LineOf(Line(venue), venue)
<1> DEFINE rows == RowsOf(venue)
           P == {i \in DOMAIN Complete : Complete[i].venue = venue}
           n == Cardinality(P)
           points == [i \in DOMAIN rows |-> [date |-> rows[i].start, tps |-> Rate(rows[i]), venue |-> venue]]
           score == [i \in DOMAIN rows |-> rows[i].start]
           line == Line(venue)
<1>1. Complete \in Seq(TPSRow) BY CompleteRows
<1>2. P \in SUBSET DOMAIN Complete /\ \A i \in P : Complete[i].venue = venue OBVIOUS
<1>3. \A i \in DOMAIN Complete : Complete[i].venue = venue => i \in P OBVIOUS
<1>4. rows = Kept(Complete, P) BY DEF RowsOf
<1>5. line = SortedBy(points, score) BY DEF Line
<1>6. n \in Nat BY <1>1, <1>2, Places
<1> HIDE DEF P, rows, line
<1>7. PICK order : Taken(rows, Complete, P, order) BY <1>1, <1>2, <1>4, Keeping
<1>8. /\ DOMAIN rows = 1..n
      /\ \A k \in 1..n : rows[k] = Complete[order[k]] /\ order[k] \in P
      /\ \A k, l \in 1..n : order[k] = order[l] => k = l
      /\ \A i \in P : \E k \in 1..n : order[k] = i
  BY <1>7 DEF Taken, Picks, n
<1> HIDE DEF n
<1>9. \A k \in 1..n : points[k] = TPSPoint(order[k]) /\ order[k] \in DOMAIN Complete
  BY <1>2, <1>8 DEF TPSPoint
<1>10. points \in Seq({TPSPoint(i) : i \in DOMAIN Complete}) /\ Len(points) = n /\ DOMAIN points = 1..n
  <2>1. DOMAIN points = 1..n /\ points = [k \in DOMAIN points |-> points[k]] BY <1>8
  <2>2. \A k \in 1..n : points[k] \in {TPSPoint(i) : i \in DOMAIN Complete} BY <1>9
  <2> HIDE DEF points
  <2>3. points \in [1..n -> {TPSPoint(i) : i \in DOMAIN Complete}] BY <2>1, <2>2
  <2> QED BY <1>6, <2>3, SeqDef, LenProperties
<1>11. \A k \in 1..n : score[k] = points[k].date /\ score[k] \in Int /\ score[k] = Complete[order[k]].start
  BY <1>1, <1>2, <1>8, CompleteRows DEF TPSRow
<1> HIDE DEF points, score
<1>12. /\ line \in Seq({TPSPoint(i) : i \in DOMAIN Complete}) /\ Len(line) = n
       /\ \E by : /\ Taken(line, points, 1..n, by)
                  /\ \A k, l \in 1..n : k < l => \/ score[by[k]] < score[by[l]]
                                                 \/ score[by[k]] = score[by[l]] /\ by[k] < by[l]
  <2> DEFINE S == {TPSPoint(i) : i \in DOMAIN Complete}
  <2>1. points \in Seq(S) /\ DOMAIN points = 1..n /\ Len(points) = n /\ \A i \in DOMAIN points : score[i] \in Int
    BY <1>10, <1>11
  <2> HIDE DEF S
  <2>2. /\ SortedBy(points, score) \in Seq(S) /\ Len(SortedBy(points, score)) = Len(points)
        /\ \E by : /\ Taken(SortedBy(points, score), points, DOMAIN points, by)
                   /\ \A k, l \in 1..Len(points) : k < l =>
                        \/ score[by[k]] < score[by[l]]
                        \/ score[by[k]] = score[by[l]] /\ by[k] < by[l]
    BY ONLY <2>1, Sorting
  <2> QED BY <1>5, <2>1, <2>2 DEF S
<1>13. PICK by : /\ Taken(line, points, 1..n, by)
                 /\ \A k, l \in 1..n : k < l => \/ score[by[k]] < score[by[l]]
                                                \/ score[by[k]] = score[by[l]] /\ by[k] < by[l]
  BY <1>12
<1>14. DOMAIN line = 1..n BY <1>12, LenProperties
<1>15. Cardinality(1..n) = n BY <1>10, Places
<1>16. /\ \A k \in 1..n : line[k] = points[by[k]] /\ by[k] \in 1..n
       /\ \A k, l \in 1..n : by[k] = by[l] => k = l
       /\ \A i \in 1..n : \E k \in 1..n : by[k] = i
  BY <1>13, <1>15 DEF Taken, Picks
<1>17. \A k \in 1..n : line[k].date = score[by[k]] /\ line[k].date \in Int BY <1>11, <1>16
<1>18. ASSUME NEW k \in 1..n, NEW l \in 1..n, k < l PROVE line[k].date < line[l].date
  <2>1. score[by[k]] # score[by[l]]
    <3> SUFFICES ASSUME score[by[k]] = score[by[l]] PROVE FALSE OBVIOUS
    <3>1. by[k] \in 1..n /\ by[l] \in 1..n BY <1>16
    <3>2. order[by[k]] \in DOMAIN Complete /\ order[by[l]] \in DOMAIN Complete
          /\ Complete[order[by[k]]].venue = venue /\ Complete[order[by[l]]].venue = venue
      BY <1>2, <1>8, <3>1
    <3>3. Complete[order[by[k]]].start = Complete[order[by[l]]].start BY <1>11, <3>1
    <3>4. order[by[k]] = order[by[l]] BY <3>2, <3>3, CompleteRows
    <3>5. by[k] = by[l] BY <1>8, <3>1, <3>4
    <3>6. k = l BY <1>16, <3>5
    <3> QED BY <1>6, <1>18, <3>6
  <2> QED BY <1>13, <1>17, <1>18, <2>1
<1>19. ASSUME NEW k \in 1..n PROVE \E i \in DOMAIN Complete : Complete[i].venue = venue /\ line[k] = TPSPoint(i)
  <2>1. by[k] \in 1..n /\ line[k] = TPSPoint(order[by[k]]) BY <1>9, <1>16
  <2> QED BY <1>2, <1>8, <2>1
<1>20. ASSUME NEW i \in DOMAIN Complete, Complete[i].venue = venue PROVE \E k \in 1..n : line[k] = TPSPoint(i)
  <2>1. PICK j \in 1..n : order[j] = i BY <1>3, <1>8, <1>20
  <2>2. PICK k \in 1..n : by[k] = j BY <1>16
  <2> QED BY <1>9, <1>16, <2>1, <2>2
<1> QED BY <1>6, <1>12, <1>14, <1>17, <1>18, <1>19, <1>20 DEF line, LineOf

TPSInv == (viewed = "tps" => buckets \in TPSAnswers) /\ TPSTooltipCurrent

LEMMA StepKeepsTPSTooltip == TPSInv /\ [PanelNext]_panelVars => TPSInv'
<1> SUFFICES ASSUME TPSInv, [PanelNext]_panelVars PROVE TPSInv' OBVIOUS
<1>1. viewed' = viewed BY DEF PanelNext, panelVars
<1>2. CASE UNCHANGED tpsVars
  <2>1. Complete' = Complete BY <1>2 DEF Complete, tpsVars
  <2> QED BY <1>1, <1>2, <2>1 DEF TPSInv, TPSTooltipCurrent, tpsVars
<1>3. CASE viewed = "tps" /\ TPSNext
  <2>1. buckets \in TPSAnswers BY <1>3 DEF TPSInv
  <2>2. buckets' \in TPSAnswers BY <1>3, <2>1 DEF TPSNext, ReceiveTPS, Resize, LeaveTPS, PointAtTime
  <2>3. CASE tooltip' = Off BY <2>2, <2>3 DEF TPSInv, TPSTooltipCurrent
  <2>4. ASSUME NEW target \in Targets, PointAtTime(target) PROVE TPSInv'
    <3> DEFINE date == NearestDate(Dates, target)
               n == Len(Dates)
               told == {TPSPoint(i) : i \in {j \in DOMAIN Complete : Complete[j].start = date}}
    <3>1. target \in Int BY TPSChartAssumption
    <3>2. Dates # <<>> BY <2>4 DEF PointAtTime
    <3>3. /\ Rising(Dates, n) /\ n # 0
          /\ \A k \in 1..n : \E i \in DOMAIN Complete : Dates[k] = Complete[i].start
          /\ \A i \in DOMAIN Complete : \E k \in 1..n : Dates[k] = Complete[i].start
      BY <2>1, <3>2, DatesRise
    <3>4. /\ \E k \in 1..n : date = Dates[k]
          /\ \A k \in 1..n : Gap(date, target) <= Gap(Dates[k], target)
      BY <3>1, <3>3, NearestFound
    <3>5. \A i \in DOMAIN Complete : Gap(date, target) <= Gap(Complete[i].start, target) BY <3>3, <3>4
    <3>6. date \in Int BY <3>3, <3>4 DEF Rising
    <3>7. tooltip' = [date |-> date, target |-> target, points |-> UNION {PointAt(Line(v), date) : v \in TPSVenues}]
          /\ buckets' = buckets
      BY <2>4 DEF PointAtTime
    <3> HIDE DEF date, n
    <3>8. ASSUME NEW v
          PROVE  PointAt(Line(v), date)
                   = {TPSPoint(i) : i \in {j \in DOMAIN Complete : Complete[j].start = date /\ Complete[j].venue = v}}
      <4> DEFINE line == Line(v)
                 of == {j \in DOMAIN Complete : Complete[j].start = date /\ Complete[j].venue = v}
                 at == {j \in 1..Len(line) : line[j].date = date}
      <4>1. /\ Len(line) \in Nat
            /\ \A i \in 1..Len(line) : line[i].date \in Int
            /\ \A i, j \in 1..Len(line) : i < j => line[i].date < line[j].date
            /\ \A k \in 1..Len(line) : \E i \in DOMAIN Complete : Complete[i].venue = v /\ line[k] = TPSPoint(i)
            /\ \A i \in DOMAIN Complete : Complete[i].venue = v => \E k \in 1..Len(line) : line[k] = TPSPoint(i)
        <5>1. LineOf(line, v) BY <2>1, LineIs
        <5> HIDE DEF line
        <5> QED BY <5>1 DEF LineOf
      <4> HIDE DEF line
      <4>2. PointAt(line, date) = {line[k] : k \in at}
        <5> DEFINE m == Len(line)
        <5>1. m \in Nat /\ m = Len(line) BY <4>1
        <5>2. \A i \in 1..m : line[i].date \in Int BY <4>1
        <5>3. \A i, j \in 1..m : i < j => line[i].date < line[j].date BY <4>1
        <5> HIDE DEF m
        <5>4. PointAt(line, date) = {line[i] : i \in {j \in 1..m : line[j].date = date}}
          BY ONLY <3>6, <5>1, <5>2, <5>3, PointFound
        <5> QED BY <5>1, <5>4
      <4>3. \A i : TPSPoint(i).date = Complete[i].start BY DEF TPSPoint
      <4>4. ASSUME NEW k \in at PROVE \E i \in of : line[k] = TPSPoint(i) BY <4>1, <4>3
      <4>5. ASSUME NEW i \in of PROVE \E k \in at : line[k] = TPSPoint(i) BY <4>1, <4>3
      <4> HIDE DEF of, at
      <4>6. {line[k] : k \in at} = {TPSPoint(i) : i \in of} BY <4>4, <4>5
      <4> QED BY <4>2, <4>6 DEF of, line
    <3>9. UNION {PointAt(Line(v), date) : v \in TPSVenues} = told
      <4>1. \A i \in DOMAIN Complete : Complete[i].venue \in TPSVenues BY DEF TPSVenues
      <4> QED BY <3>8, <4>1
    <3>10. Complete' = Complete BY <3>7 DEF Complete
    <3>11. told = {[date |-> Complete[i].start, tps |-> Rate(Complete[i]), venue |-> Complete[i].venue] :
                     i \in {j \in DOMAIN Complete : Complete[j].start = date}}
      BY DEF TPSPoint
    <3>12. tooltip'.date = date /\ tooltip'.target = target /\ tooltip'.points = told BY <3>7, <3>9
    <3> QED BY <2>2, <3>5, <3>10, <3>11, <3>12 DEF TPSInv, TPSTooltipCurrent
  <2> QED BY <1>3, <2>3, <2>4 DEF TPSNext, ReceiveTPS, Resize, LeaveTPS
<1> QED BY <1>2, <1>3 DEF PanelNext, panelVars

\* Whatever the panels do while a tooltip is open: TooltipsCurrent.
THEOREM TooltipsAlwaysCurrent == PanelSpec => []TooltipsCurrent
<1>1. PanelInit => HoverCurrent /\ TPSInv /\ CostTooltipCurrent
  BY DEF PanelInit, ChartInit, ChartOff, TPSInit, TPSOff, CostInit, CostOff, HoverCurrent, TPSInv,
         TPSTooltipCurrent, CostTooltipCurrent
<1>2. HoverCurrent /\ TPSInv /\ CostTooltipCurrent => TooltipsCurrent BY DEF TPSInv, TooltipsCurrent
<1> QED BY <1>1, <1>2, StepKeepsHover, StepKeepsTPSTooltip, StepKeepsCostHover, PTL DEF PanelSpec

\* The sums of the first values, one after the other.
Sums(f, values, m) == f \in [0..m -> Int] /\ f[0] = 0 /\ \A k \in 1..m : f[k] = f[k - 1] + values[k]

LEMMA SumIs ==
  ASSUME NEW n \in Nat, NEW values, Len(values) = n, \A i \in 1..n : values[i] \in Int
  PROVE  \E f : Sums(f, values, n) /\ SumOf(values) = f[n]
<1> DEFINE Some(m) == \E f : Sums(f, values, m)
           Bad == {m \in Nat : m <= n /\ ~Some(m)}
<1>1. Some(0)
  <2>1. Sums([k \in 0..0 |-> 0], values, 0) BY DEF Sums
  <2> QED BY <2>1
<1>2. ASSUME NEW m \in Nat, m < n, Some(m) PROVE Some(m + 1)
  <2>1. PICK f : Sums(f, values, m) BY <1>2
  <2> DEFINE g == [k \in 0..m + 1 |-> IF k = m + 1 THEN f[m] + values[m + 1] ELSE f[k]]
  <2>2. m + 1 \in 1..n /\ m \in 0..m BY <1>2
  <2>3. \A k \in 0..m : g[k] = f[k] /\ f[k] \in Int BY <2>1 DEF Sums
  <2>4. g[m + 1] = f[m] + values[m + 1] OBVIOUS
  <2>5. values[m + 1] \in Int /\ f[m] \in Int BY <2>2, <2>3
  <2>6. \A k \in 0..m + 1 : k = m + 1 \/ k \in 0..m OBVIOUS
  <2>7. ASSUME NEW k \in 0..m + 1 PROVE g[k] \in Int
    <3> HIDE DEF g
    <3>1. CASE k = m + 1 BY <2>4, <2>5, <3>1
    <3>2. CASE k \in 0..m BY <2>3, <3>2
    <3> QED BY <2>6, <3>1, <3>2
  <2>8. g \in [0..m + 1 -> Int] BY <2>7
  <2>9. g[0] = 0 BY <2>1, <2>3 DEF Sums
  <2>10. ASSUME NEW k \in 1..m + 1 PROVE g[k] = g[k - 1] + values[k]
    <3>1. CASE k = m + 1
      <4>1. k - 1 = m BY <3>1
      <4> QED BY <2>2, <2>3, <2>4, <3>1, <4>1
    <3>2. CASE k # m + 1
      <4>1. k \in 1..m /\ k \in 0..m /\ k - 1 \in 0..m BY <3>2
      <4> QED BY <2>1, <2>3, <4>1 DEF Sums
    <3> QED BY <3>1, <3>2
  <2> HIDE DEF g
  <2> QED BY <2>8, <2>9, <2>10 DEF Sums
<1> HIDE DEF Some
<1>3. Bad = {}
  <2> SUFFICES ASSUME Bad # {} PROVE FALSE OBVIOUS
  <2>1. PICK m \in Bad : \A k \in Bad : m <= k
    <3>1. Bad \in SUBSET Nat OBVIOUS
    <3> HIDE DEF Bad
    <3> QED BY <3>1, LeastNumber
  <2>2. m \in Nat /\ m <= n /\ m # 0 BY <1>1, <2>1
  <2>3. m - 1 \in Nat /\ m - 1 < n /\ m - 1 + 1 = m /\ ~(m <= m - 1) BY <2>2
  <2>4. Some(m - 1) BY <2>1, <2>3
  <2>5. Some(m) BY <1>2, <2>3, <2>4
  <2> QED BY <2>1, <2>5
<1>4. PICK f : Sums(f, values, n)
  <2>1. n <= n OBVIOUS
  <2>2. Some(n) BY <1>3, <2>1
  <2> QED BY <2>2 DEF Some
<1> DEFINE Adds(h) == h = [m \in 0..n |-> IF m = 0 THEN 0 ELSE h[m - 1] + values[m]]
           g == CHOOSE h : Adds(h)
<1>5. Adds(f)
  <2>1. f = [m \in 0..n |-> f[m]] BY <1>4 DEF Sums
  <2>2. ASSUME NEW m \in 0..n PROVE f[m] = IF m = 0 THEN 0 ELSE f[m - 1] + values[m]
    <3>1. m = 0 \/ m \in 1..n OBVIOUS
    <3> QED BY <1>4, <3>1 DEF Sums
  <2> QED BY <2>1, <2>2
<1>6. Adds(g)
  <2> HIDE DEF Adds
  <2> QED BY <1>5
<1>7. SumOf(values) = g[n] BY DEF SumOf
<1> HIDE DEF g
<1>8. g[0] = 0 /\ \A m \in 1..n : g[m] = g[m - 1] + values[m] BY <1>6
<1> DEFINE Wrong == {m \in Nat : m <= n /\ g[m] # f[m]}
<1>9. Wrong = {}
  <2> SUFFICES ASSUME Wrong # {} PROVE FALSE OBVIOUS
  <2>1. PICK m \in Wrong : \A k \in Wrong : m <= k
    <3>1. Wrong \in SUBSET Nat OBVIOUS
    <3> HIDE DEF Wrong
    <3> QED BY <3>1, LeastNumber
  <2>2. m \in Nat /\ m <= n /\ m # 0 BY <1>4, <1>8, <2>1 DEF Sums
  <2>3. m - 1 \in Nat /\ m - 1 <= n /\ ~(m <= m - 1) /\ m \in 1..n BY <2>2
  <2>4. g[m - 1] = f[m - 1] BY <2>1, <2>3
  <2>5. g[m] = f[m] BY <1>4, <1>8, <2>3, <2>4 DEF Sums
  <2> QED BY <2>1, <2>5
<1>10. g[n] = f[n]
  <2>1. n <= n OBVIOUS
  <2> QED BY <1>9, <2>1
<1> QED BY <1>4, <1>7, <1>10

\* Of each value of two sums c times the one is no more than d times the other.
Compared(n, a, b, c, d) ==
  /\ Len(a) = n /\ Len(b) = n
  /\ \A i \in 1..n : a[i] \in Int /\ b[i] \in Int /\ c * a[i] <= d * b[i]

\* What each value of two sums is to the other, their sums are.
LEMMA SumsCompare ==
  ASSUME NEW n \in Nat, NEW a, NEW b, NEW c \in Int, NEW d \in Int, Compared(n, a, b, c, d)
  PROVE  SumOf(a) \in Int /\ SumOf(b) \in Int /\ c * SumOf(a) <= d * SumOf(b)
<1> USE DEF Compared
<1>1. PICK f : Sums(f, a, n) /\ SumOf(a) = f[n] BY SumIs
<1>2. PICK g : Sums(g, b, n) /\ SumOf(b) = g[n] BY SumIs
<1>3. /\ f[0] = 0 /\ g[0] = 0 /\ \A k \in 0..n : f[k] \in Int /\ g[k] \in Int
      /\ \A k \in 1..n : f[k] = f[k - 1] + a[k] /\ g[k] = g[k - 1] + b[k]
  BY <1>1, <1>2 DEF Sums
<1> DEFINE Bad == {m \in Nat : m <= n /\ ~(c * f[m] <= d * g[m])}
<1>4. Bad = {}
  <2> SUFFICES ASSUME Bad # {} PROVE FALSE OBVIOUS
  <2>1. PICK m \in Bad : \A k \in Bad : m <= k
    <3>1. Bad \in SUBSET Nat OBVIOUS
    <3> HIDE DEF Bad
    <3> QED BY <3>1, LeastNumber
  <2>2. m \in Nat /\ m <= n /\ ~(c * f[m] <= d * g[m]) BY <2>1
  <2>3. m # 0
    <3> SUFFICES ASSUME m = 0 PROVE FALSE OBVIOUS
    <3>1. c * f[m] = 0 /\ d * g[m] = 0 BY <1>3
    <3> QED BY <2>2, <3>1
  <2>4. m - 1 \in Nat /\ m - 1 <= n /\ ~(m <= m - 1) /\ m \in 1..n /\ m - 1 \in 0..n BY <2>2, <2>3
  <2>5. c * f[m - 1] <= d * g[m - 1] BY <2>1, <2>4
  <2>6. /\ f[m - 1] \in Int /\ g[m - 1] \in Int /\ a[m] \in Int /\ b[m] \in Int /\ c * a[m] <= d * b[m]
        /\ f[m] = f[m - 1] + a[m] /\ g[m] = g[m - 1] + b[m]
    BY <1>3, <2>4
  <2> DEFINE x == f[m - 1]  y == g[m - 1]  p == a[m]  q == b[m]
  <2>7. x \in Int /\ y \in Int /\ p \in Int /\ q \in Int /\ c * p <= d * q /\ c * x <= d * y BY <2>5, <2>6
  <2>8. f[m] = x + p /\ g[m] = y + q BY <2>6
  <2> HIDE DEF x, y, p, q
  <2>9. c * (x + p) = c * x + c * p /\ d * (y + q) = d * y + d * q BY <2>7
  <2>10. c * x \in Int /\ c * p \in Int /\ d * y \in Int /\ d * q \in Int BY <2>7
  <2>11. c * (x + p) <= d * (y + q) BY <2>7, <2>9, <2>10
  <2> QED BY <2>2, <2>8, <2>11
<1>5. n \in 0..n /\ n <= n OBVIOUS
<1>6. c * f[n] <= d * g[n] BY <1>4, <1>5
<1> QED BY <1>1, <1>2, <1>3, <1>5, <1>6

\* A rate is exact.
LEMMA RateOfRow ==
  ASSUME NEW row \in TPSRow
  PROVE  Rate(row) \in Int /\ Rate(row) * row.seconds = 3600 * row.tx /\ row.seconds \in {60, 3600} /\ row.tx \in Nat
<1>1. row.seconds \in {60, 3600} /\ row.tx \in Nat BY DEF TPSRow
<1>2. CASE row.seconds = 60
  <2>1. (3600 * row.tx) \div 60 = 60 * row.tx BY <1>1
  <2> QED BY <1>1, <1>2, <2>1 DEF Rate
<1>3. CASE row.seconds = 3600
  <2>1. (3600 * row.tx) \div 3600 = row.tx BY <1>1
  <2> QED BY <1>1, <1>3, <2>1 DEF Rate
<1> QED BY <1>1, <1>2, <1>3

RatesWithin(line, low, high) == \A k \in 1..Len(line) : low <= line[k].tps /\ line[k].tps <= high

\* An exchange's average is between its rates.
LEMMA AverageBetween ==
  ASSUME buckets \in TPSAnswers, NEW venue, NEW low \in Int, NEW high \in Int,
         RatesWithin(Line(venue), low, high)
  PROVE  low * Average(venue)[2] <= 3600 * Average(venue)[1] /\ high * Average(venue)[2] >= 3600 * Average(venue)[1]
<1> USE DEF RatesWithin
<1> DEFINE rows == RowsOf(venue)
           P == {i \in DOMAIN Complete : Complete[i].venue = venue}
           n == Len(rows)
           txs == [i \in DOMAIN rows |-> rows[i].tx]
           secs == [i \in DOMAIN rows |-> rows[i].seconds]
<1>1. Complete \in Seq(TPSRow) /\ P \in SUBSET DOMAIN Complete BY CompleteRows
<1>2. rows = Kept(Complete, P) BY DEF RowsOf
<1>3. rows \in Seq(TPSRow) /\ \E order : Taken(rows, Complete, P, order)
  <2> HIDE DEF P, rows
  <2> QED BY <1>1, <1>2, Keeping
<1>4. n \in Nat /\ DOMAIN rows = 1..n /\ \A i \in 1..n : rows[i] \in TPSRow
  <2> HIDE DEF rows
  <2> QED BY <1>3, LenProperties, ElementOfSeq
<1>5. ASSUME NEW i \in 1..n PROVE low <= Rate(rows[i]) /\ Rate(rows[i]) <= high
  <2>1. PICK order : Taken(rows, Complete, P, order) BY <1>3
  <2> HIDE DEF rows
  <2>2. rows[i] = Complete[order[i]] /\ order[i] \in P
    <3> HIDE DEF P
    <3> QED BY <1>4, <2>1 DEF Taken, Picks
  <2>3. PICK k \in 1..Len(Line(venue)) : Line(venue)[k] = TPSPoint(order[i])
    <3>1. LineOf(Line(venue), venue) BY LineIs
    <3>2. order[i] \in DOMAIN Complete /\ Complete[order[i]].venue = venue BY <2>2
    <3> QED BY <3>1, <3>2 DEF LineOf
  <2>4. Line(venue)[k].tps = Rate(rows[i]) BY <2>2, <2>3 DEF TPSPoint
  <2> QED BY <2>4
<1> HIDE DEF rows, P
<1>6. txs \in Seq(Int) /\ secs \in Seq(Int) /\ Len(txs) = n /\ Len(secs) = n
  <2>1. \A i \in 1..n : rows[i].tx \in Int /\ rows[i].seconds \in Int BY <1>4, RateOfRow
  <2>2. txs \in [1..n -> Int] /\ secs \in [1..n -> Int] BY <1>4, <2>1
  <2> HIDE DEF txs, secs
  <2> QED BY <1>4, <2>2, SeqDef, LenProperties
<1>7. Average(venue) = <<SumOf(txs), SumOf(secs)>> BY DEF Average, rows
<1>8. ASSUME NEW i \in 1..n
      PROVE  /\ txs[i] \in Int /\ secs[i] \in Int
             /\ low * secs[i] <= 3600 * txs[i] /\ 3600 * txs[i] <= high * secs[i]
  <2> DEFINE r == Rate(rows[i])  s == rows[i].seconds
  <2>1. r \in Int /\ r * s = 3600 * rows[i].tx /\ s \in {60, 3600} /\ rows[i].tx \in Nat BY <1>4, RateOfRow
  <2>2. txs[i] = rows[i].tx /\ secs[i] = s BY <1>4
  <2>3. low <= r /\ r <= high BY <1>5
  <2> HIDE DEF r, s
  <2>4. low * s <= r * s /\ r * s <= high * s
    <3>1. CASE s = 60 BY <2>1, <2>3, <3>1
    <3>2. CASE s = 3600 BY <2>1, <2>3, <3>2
    <3> QED BY <2>1, <3>1, <3>2
  <2> QED BY <2>1, <2>2, <2>4
<1> HIDE DEF txs, secs, n
<1>9. n \in Nat BY <1>4
<1> HIDE DEF Average
<1>9a. 3600 \in Int OBVIOUS
<1>9b. Compared(n, secs, txs, low, 3600) /\ Compared(n, txs, secs, 3600, high) BY <1>6, <1>8 DEF Compared
<1>10. low * SumOf(secs) <= 3600 * SumOf(txs) BY ONLY <1>9, <1>9a, <1>9b, SumsCompare, low \in Int
<1>11. /\ 3600 * SumOf(txs) <= high * SumOf(secs)
       /\ SumOf(txs) \in Int /\ SumOf(secs) \in Int
  BY ONLY <1>9, <1>9a, <1>9b, SumsCompare, high \in Int
<1> QED BY <1>7, <1>10, <1>11

\* A line of integers in the order of their dates.
LineShape(line, n) ==
  /\ n \in Nat \ {0} /\ Len(line) = n /\ DOMAIN line = 1..n
  /\ \A i \in 1..n : line[i].date \in Int /\ line[i].tps \in Int
  /\ \A i, j \in 1..n : i < j => line[i].date < line[j].date

\* Every point of a line is in one of BucketCount buckets.
LEMMA BucketsFew ==
  ASSUME NEW n, NEW line, LineShape(line, n), maxPoints \in Nat \ 0..3
  PROVE  /\ BucketCount \in Nat /\ 2 * BucketCount <= maxPoints
         /\ \A i \in 1..n : Bucket(line[i], line) \in 0..BucketCount - 1
<1>1. BucketCount = maxPoints \div 2
  <2>1. 2 \in Int /\ maxPoints \div 2 \in Int /\ maxPoints \div 2 >= 2 OBVIOUS
  <2> QED BY <2>1, MaxOfTwo DEF BucketCount
<1>2. BucketCount \in Nat /\ BucketCount >= 2 /\ 2 * BucketCount <= maxPoints BY <1>1
<1>3. ASSUME NEW i \in 1..n PROVE Bucket(line[i], line) \in 0..BucketCount - 1
  <2> DEFINE count == BucketCount
             past == line[i].date - line[1].date
             span == Max({line[n].date - line[1].date, 1})
             quotient == (past * count) \div span
  <2>1. n \in Nat \ {0} /\ Len(line) = n /\ 1 \in 1..n /\ n \in 1..n
        /\ line[i].date \in Int /\ line[1].date \in Int /\ line[n].date \in Int
    BY DEF LineShape
  <2>2. i = 1 \/ line[1].date < line[i].date BY <2>1 DEF LineShape
  <2>3. past \in Nat BY <2>1, <2>2
  <2>4. span \in Nat \ {0} BY <2>1, MaxOfTwo
  <2>5. Bucket(line[i], line) = Min({count - 1, quotient}) BY <2>1 DEF Bucket
  <2> HIDE DEF past, span
  <2>6. count \in Nat /\ count >= 2 BY <1>2
  <2> HIDE DEF count
  <2>7. past * count \in Nat BY <2>3, <2>6
  <2>8. quotient \in Nat BY <2>4, <2>7
  <2> HIDE DEF quotient
  <2>9. Min({count - 1, quotient}) \in 0..count - 1
    <3> DEFINE S == {count - 1, quotient}
               m == IF count - 1 <= quotient THEN count - 1 ELSE quotient
    <3>1. m \in S /\ \A y \in S : m <= y BY <2>6, <2>8
    <3>2. PICK k \in S : k = Min(S) /\ \A y \in S : k <= y BY <3>1 DEF Min
    <3> QED BY <2>6, <2>8, <3>2
  <2> QED BY <2>5, <2>9 DEF count
<1> QED BY <1>2, <1>3

\* A set that a function of some things gives has no more members than there are things.
LEMMA ImageSmall ==
  ASSUME NEW S, IsFiniteSet(S), NEW f, DOMAIN f = S
  PROVE  IsFiniteSet({f[x] : x \in S}) /\ Cardinality({f[x] : x \in S}) <= Cardinality(S)
         /\ Cardinality({f[x] : x \in S}) \in Nat /\ Cardinality(S) \in Nat
<1> DEFINE T == {f[x] : x \in S}
           g == [x \in S |-> f[x]]
<1>1. g \in Surjection(S, T) BY DEF Surjection
<1> QED BY <1>1, FS_Surjection, FS_CardinalityType

\* What thinning keeps of each bucket: some of its places, and of each bucket one
\* that nothing in it is below and one that nothing in it is above.
LEMMA ExtremesKept ==
  ASSUME NEW n, NEW line, LineShape(line, n), maxPoints \in Nat \ 0..3
  PROVE  /\ Extremes(line) \subseteq 1..n /\ IsFiniteSet(Extremes(line))
         /\ Cardinality(Extremes(line)) \in Nat /\ Cardinality(Extremes(line)) <= maxPoints
         /\ \A i \in 1..n : \E j \in Extremes(line) : line[j].tps <= line[i].tps
         /\ \A i \in 1..n : \E j \in Extremes(line) : line[i].tps <= line[j].tps
<1> DEFINE B == {Bucket(line[i], line) : i \in 1..n}
           Lo(b) == Lowest(line, OfBucket(line, b))
           Hi(b) == Highest(line, OfBucket(line, b))
           lo == [b \in B |-> Lo(b)]
           hi == [b \in B |-> Hi(b)]
           L == {lo[b] : b \in B}
           H == {hi[b] : b \in B}
<1>1. n \in Nat /\ DOMAIN line = 1..n /\ \A i \in 1..n : line[i].tps \in Int BY DEF LineShape
<1>2. BucketCount \in Nat /\ 2 * BucketCount <= maxPoints /\ \A i \in 1..n : Bucket(line[i], line) \in 0..BucketCount - 1
  BY BucketsFew
<1>3. ASSUME NEW b \in B
      PROVE  /\ Lo(b) \in OfBucket(line, b) /\ \A j \in OfBucket(line, b) : line[Lo(b)].tps <= line[j].tps
             /\ Hi(b) \in OfBucket(line, b) /\ \A j \in OfBucket(line, b) : line[j].tps <= line[Hi(b)].tps
  <2> DEFINE of == OfBucket(line, b)
             up == [i \in of |-> line[i].tps]
             down == [i \in of |-> -line[i].tps]
  <2>1. of \subseteq 1..n /\ of # {} BY <1>1 DEF OfBucket
  <2>2. IsFiniteSet(1..n) BY <1>1, FS_Interval
  <2>3. IsFiniteSet(of) BY <2>1, <2>2, FS_Subset
  <2>4. Lo(b) = BestOf(of, up) /\ Hi(b) = BestOf(of, down) BY DEF Lowest, Highest
  <2> HIDE DEF of, Lo, Hi
  <2>5. \A i \in of : i \in Int /\ line[i].tps \in Int /\ up[i] = line[i].tps /\ up[i] \in Int
                      /\ down[i] = -line[i].tps /\ down[i] \in Int
    BY <1>1, <2>1
  <2> HIDE DEF up, down
  <2>6. /\ BestOf(of, up) \in of
        /\ \A j \in of : up[BestOf(of, up)] < up[j] \/ (up[BestOf(of, up)] = up[j] /\ BestOf(of, up) <= j)
    BY <2>1, <2>3, <2>5, BestPlace
  <2>7. /\ BestOf(of, down) \in of
        /\ \A j \in of : down[BestOf(of, down)] < down[j] \/ (down[BestOf(of, down)] = down[j] /\ BestOf(of, down) <= j)
    BY <2>1, <2>3, <2>5, BestPlace
  <2>8. Lo(b) \in of /\ \A j \in of : line[Lo(b)].tps <= line[j].tps BY <2>4, <2>5, <2>6
  <2>9. Hi(b) \in of /\ \A j \in of : line[j].tps <= line[Hi(b)].tps BY <2>4, <2>5, <2>7
  <2> QED BY <2>8, <2>9 DEF of
<1>4a. Extremes(line) = UNION {{Lo(b), Hi(b)} : b \in B} BY <1>1 DEF Extremes
<1> HIDE DEF Lo, Hi
<1>5. \A b \in B : lo[b] = Lo(b) /\ hi[b] = Hi(b) OBVIOUS
<1>4. Extremes(line) = L \cup H
  <2> HIDE DEF B, lo, hi
  <2> QED BY <1>4a, <1>5
<1>6. \A b : OfBucket(line, b) \subseteq 1..n BY <1>1 DEF OfBucket
<1>7. L \cup H \subseteq 1..n
  <2> HIDE DEF B, lo, hi
  <2> QED BY <1>3, <1>5, <1>6
<1>8. IsFiniteSet(B) /\ Cardinality(B) \in Nat /\ Cardinality(B) <= BucketCount
  <2>1. B \subseteq 0..BucketCount - 1 BY <1>2
  <2>2. IsFiniteSet(0..BucketCount - 1) /\ Cardinality(0..BucketCount - 1) = BucketCount
    <3>1. 0 \in Int /\ BucketCount - 1 \in Int BY <1>2
    <3>2. IsFiniteSet(0..BucketCount - 1)
          /\ Cardinality(0..BucketCount - 1) = IF 0 > BucketCount - 1 THEN 0 ELSE BucketCount - 1 - 0 + 1
      BY ONLY <3>1, FS_Interval
    <3> QED BY <1>2, <3>2
  <2> HIDE DEF B
  <2>3. IsFiniteSet(B) /\ Cardinality(B) <= Cardinality(0..BucketCount - 1) BY <2>1, <2>2, FS_Subset
  <2>4. Cardinality(B) \in Nat BY <2>3, FS_CardinalityType
  <2> QED BY <2>2, <2>3, <2>4
<1>9. /\ IsFiniteSet(L) /\ Cardinality(L) \in Nat /\ Cardinality(L) <= Cardinality(B)
      /\ IsFiniteSet(H) /\ Cardinality(H) \in Nat /\ Cardinality(H) <= Cardinality(B)
  <2>1. DOMAIN lo = B /\ DOMAIN hi = B OBVIOUS
  <2> HIDE DEF B, lo, hi
  <2> QED BY <1>8, <2>1, ImageSmall
<1>10. ASSUME NEW i \in 1..n
       PROVE  /\ \E j \in L \cup H : line[j].tps <= line[i].tps
              /\ \E j \in L \cup H : line[i].tps <= line[j].tps
  <2> DEFINE b == Bucket(line[i], line)
  <2>1. b \in B /\ i \in OfBucket(line, b) BY <1>1 DEF OfBucket
  <2> HIDE DEF b, B
  <2>2. Lo(b) \in L /\ Hi(b) \in H BY <1>5, <2>1
  <2> HIDE DEF L, H
  <2> QED BY <1>3, <2>1, <2>2
<1> HIDE DEF L, H, B
<1>11. /\ IsFiniteSet(L \cup H) /\ Cardinality(L \cup H) \in Nat
       /\ Cardinality(L \cup H) <= Cardinality(L) + Cardinality(H)
  <2>1. /\ IsFiniteSet(L \cup H) /\ IsFiniteSet(L \cap H)
        /\ Cardinality(L \cup H) = Cardinality(L) + Cardinality(H) - Cardinality(L \cap H)
    BY <1>9, FS_Union, FS_Intersection
  <2> QED BY <1>9, <2>1, FS_CardinalityType
<1>12. Cardinality(L \cup H) <= maxPoints
  <2>1. Cardinality(L) + Cardinality(H) <= 2 * BucketCount BY <1>2, <1>8, <1>9
  <2> QED BY <1>2, <1>9, <1>11, <2>1
<1> QED BY <1>4, <1>7, <1>10, <1>11, <1>12

\* What Downsampled leaves of a line.
Thinned(thin, m, line, n) ==
  /\ m \in Nat \ {0} /\ DOMAIN thin = 1..m /\ m <= maxPoints + 2
  /\ thin[1] = line[1] /\ thin[m] = line[n]
  /\ \A k \in 1..m : \E i \in 1..n : thin[k] = line[i]
  /\ \A k, l \in 1..m : k < l => thin[k].date < thin[l].date
  /\ \A i \in 1..n : \E k \in 1..m : thin[k].tps <= line[i].tps
  /\ \A i \in 1..n : \E k \in 1..m : line[i].tps <= thin[k].tps

LEMMA ThinIs ==
  ASSUME NEW n, NEW line, NEW S, line \in Seq(S), LineShape(line, n), maxPoints \in Nat \ 0..3
  PROVE  Thinned(Downsampled(line), Len(Downsampled(line)), line, n)
<1> USE DEF Thinned
<1> DEFINE thin == Downsampled(line)
           P == {1, n} \cup Extremes(line)
           m == Cardinality(P)
<1>1. /\ n \in Nat \ {0} /\ Len(line) = n /\ DOMAIN line = 1..n
      /\ \A i \in 1..n : line[i].date \in Int /\ line[i].tps \in Int
      /\ \A i, j \in 1..n : i < j => line[i].date < line[j].date
  BY DEF LineShape
<1>2. CASE n <= maxPoints
  <2>1. thin = line BY <1>1, <1>2 DEF Downsampled
  <2> HIDE DEF thin
  <2>2. \A i \in 1..n : line[i].tps <= line[i].tps BY <1>1
  <2>3. n <= maxPoints + 2 BY <1>1, <1>2
  <2> QED BY <1>1, <2>1, <2>2, <2>3 DEF thin
<1>3. CASE ~(n <= maxPoints)
  <2>0. ~(maxPoints < 4) OBVIOUS
  <2>1. thin = Kept(line, P) BY <1>1, <1>3, <2>0 DEF Downsampled
  <2>2. /\ Extremes(line) \subseteq 1..n /\ IsFiniteSet(Extremes(line))
        /\ Cardinality(Extremes(line)) \in Nat /\ Cardinality(Extremes(line)) <= maxPoints
        /\ \A i \in 1..n : \E j \in Extremes(line) : line[j].tps <= line[i].tps
        /\ \A i \in 1..n : \E j \in Extremes(line) : line[i].tps <= line[j].tps
    BY ExtremesKept
  <2>3. P \in SUBSET DOMAIN line /\ 1 \in P /\ n \in P
    <3>1. 1 \in 1..n /\ n \in 1..n BY <1>1
    <3> QED BY <1>1, <2>2, <3>1
  <2>4. IsFiniteSet(P) /\ m \in Nat /\ m <= maxPoints + 2
    <3>1. IsFiniteSet({1, n}) /\ Cardinality({1, n}) \in Nat /\ Cardinality({1, n}) <= 2
      <4>1. IsFiniteSet({1}) /\ Cardinality({1}) = 1 /\ {1, n} = {1} \cup {n} BY FS_Singleton
      <4>2. /\ IsFiniteSet({1} \cup {n})
            /\ Cardinality({1} \cup {n}) = IF n \in {1} THEN Cardinality({1}) ELSE Cardinality({1}) + 1
        BY <4>1, FS_AddElement
      <4>3. Cardinality({1} \cup {n}) \in {1, 2}
        <5>1. CASE n \in {1} BY <4>1, <4>2, <5>1
        <5>2. CASE n \notin {1}
          <6>1. Cardinality({1} \cup {n}) = Cardinality({1}) + 1 BY <4>2, <5>2
          <6> DEFINE c == Cardinality({1} \cup {n})  d == Cardinality({1})
          <6>2. c = d + 1 /\ d = 1 BY <4>1, <6>1
          <6> HIDE DEF c, d
          <6>3. c = 2 BY <6>2
          <6> QED BY <6>3 DEF c
        <5> QED BY <5>1, <5>2
      <4>4. Cardinality({1, n}) \in {1, 2} /\ IsFiniteSet({1, n}) BY <4>1, <4>2, <4>3
      <4> QED BY <4>4
    <3>2. /\ IsFiniteSet(P) /\ IsFiniteSet({1, n} \cap Extremes(line))
          /\ m = Cardinality({1, n}) + Cardinality(Extremes(line)) - Cardinality({1, n} \cap Extremes(line))
      BY <2>2, <3>1, FS_Union, FS_Intersection
    <3>3. Cardinality({1, n} \cap Extremes(line)) \in Nat /\ m \in Nat BY <3>2, FS_CardinalityType
    <3> QED BY <2>2, <3>1, <3>2, <3>3
  <2>5. \A i \in 1..n : (\E j \in P : line[j].tps <= line[i].tps) /\ \E j \in P : line[i].tps <= line[j].tps
    BY <2>2
  <2> HIDE DEF P, thin
  <2>6. thin \in Seq(S) BY <2>1, <2>3, Keeping
  <2>7. PICK order : /\ Taken(thin, line, P, order)
                     /\ \A k, l \in 1..m : k < l => order[k] < order[l]
    BY <2>1, <2>3, Keeping
  <2> HIDE DEF m
  <2>8. /\ Len(thin) = m /\ DOMAIN thin = 1..m
        /\ \A k \in 1..m : thin[k] = line[order[k]] /\ order[k] \in P /\ order[k] \in 1..n
        /\ \A j \in P : \E k \in 1..m : order[k] = j
    BY <1>1, <2>3, <2>7 DEF Taken, Picks, m
  <2>9. PICK a \in 1..m : order[a] = 1 BY <2>3, <2>8
  <2>10. PICK z \in 1..m : order[z] = n BY <2>3, <2>8
  <2>11. 1 \in 1..m /\ m \in 1..m /\ m # 0 BY <2>4, <2>9
  <2>12. order[1] = 1
    <3>1. a = 1 \/ 1 < a BY <2>4
    <3>2. CASE 1 < a
      <4>1. order[1] < order[a] /\ order[1] \in 1..n BY <2>7, <2>8, <2>11, <3>2
      <4> QED BY <2>9, <4>1
    <3> QED BY <2>9, <3>1, <3>2
  <2>13. order[m] = n
    <3>1. z = m \/ z < m BY <2>4
    <3>2. CASE z < m
      <4>1. order[z] < order[m] /\ order[m] \in 1..n BY <2>7, <2>8, <2>11, <3>2
      <4> QED BY <1>1, <2>10, <4>1
    <3> QED BY <2>10, <3>1, <3>2
  <2>14. thin[1] = line[1] /\ thin[m] = line[n] BY <2>8, <2>11, <2>12, <2>13
  <2>15. ASSUME NEW k \in 1..m, NEW l \in 1..m, k < l PROVE thin[k].date < thin[l].date
    <3>1. order[k] < order[l] BY <2>7, <2>15
    <3>2. line[order[k]].date < line[order[l]].date BY <1>1, <2>8, <3>1
    <3> QED BY <2>8, <3>2
  <2>16. ASSUME NEW i \in 1..n
         PROVE  (\E k \in 1..m : thin[k].tps <= line[i].tps) /\ \E k \in 1..m : line[i].tps <= thin[k].tps
    <3>1. PICK j \in P : line[j].tps <= line[i].tps BY <2>5
    <3>2. PICK k \in 1..m : order[k] = j BY <2>8
    <3>3. thin[k].tps <= line[i].tps BY <2>8, <3>1, <3>2
    <3>4. PICK g \in P : line[i].tps <= line[g].tps BY <2>5
    <3>5. PICK l \in 1..m : order[l] = g BY <2>8
    <3>6. line[i].tps <= thin[l].tps BY <2>8, <3>4, <3>5
    <3> QED BY <3>3, <3>6
  <2>17. \A k \in 1..m : \E i \in 1..n : thin[k] = line[i] BY <2>8
  <2> QED BY <2>4, <2>8, <2>11, <2>14, <2>15, <2>16, <2>17 DEF thin, m
<1> QED BY <1>1, <1>2, <1>3

\* There is a greatest and a least of the points of a line.
LEMMA Greatest ==
  ASSUME NEW n, NEW line, LineShape(line, n)
  PROVE  /\ \E h \in 1..n : \A i \in 1..n : line[i].tps <= line[h].tps
         /\ \E l \in 1..n : \A i \in 1..n : line[l].tps <= line[i].tps
<1> DEFINE P == 1..n
           up == [i \in P |-> line[i].tps]
           down == [i \in P |-> -line[i].tps]
<1>1. n \in Nat \ {0} /\ \A i \in 1..n : line[i].tps \in Int BY DEF LineShape
<1>2. IsFiniteSet(P)
  <2>1. 1 \in Int /\ n \in Int BY <1>1
  <2> QED BY ONLY <2>1, FS_Interval
<1>3. P # {}
  <2>1. 1 \in 1..n BY <1>1
  <2> QED BY <2>1
<1>4. \A i \in P : i \in Int /\ line[i].tps \in Int /\ up[i] = line[i].tps /\ up[i] \in Int
                   /\ down[i] = -line[i].tps /\ down[i] \in Int
  BY <1>1
<1> HIDE DEF up, down, P
<1>5. /\ BestOf(P, up) \in P
      /\ \A j \in P : up[BestOf(P, up)] < up[j] \/ (up[BestOf(P, up)] = up[j] /\ BestOf(P, up) <= j)
  BY <1>2, <1>3, <1>4, BestPlace
<1>6. /\ BestOf(P, down) \in P
      /\ \A j \in P : down[BestOf(P, down)] < down[j] \/ (down[BestOf(P, down)] = down[j] /\ BestOf(P, down) <= j)
  BY <1>2, <1>3, <1>4, BestPlace
<1>7. \A j \in P : line[BestOf(P, up)].tps <= line[j].tps BY <1>4, <1>5
<1>8. \A j \in P : line[j].tps <= line[BestOf(P, down)].tps BY <1>4, <1>6
<1> QED BY <1>5, <1>6, <1>7, <1>8 DEF P

PlotInv == IF viewed = "tps" THEN buckets \in TPSAnswers /\ maxPoints \in Widths ELSE buckets = Off

\* What ThinnedTrue says of one line.
ThinTrue(line, thin, average) ==
  /\ thin[1] = line[1] /\ thin[Len(thin)] = line[Len(line)]
  /\ Range(thin) \subseteq Range(line)
  /\ \A i, j \in DOMAIN thin : i < j => thin[i].date < thin[j].date
  /\ \E p \in Range(thin) : \A q \in Range(line) : q.tps <= p.tps
  /\ \E p \in Range(thin) : \A q \in Range(line) : p.tps <= q.tps
  /\ Len(thin) <= maxPoints + 2
  /\ \E p \in Range(thin) : p.tps * average[2] <= 3600 * average[1]
  /\ \E p \in Range(thin) : p.tps * average[2] >= 3600 * average[1]

LEMMA PlotThinned == PlotInv => ThinnedTrue
<1> SUFFICES ASSUME PlotInv, buckets # Off, NEW v \in TPSVenues
             PROVE  ThinTrue(Line(v), Downsampled(Line(v)), Average(v))
  BY DEF ThinnedTrue, ThinTrue
<1> DEFINE line == Line(v)
           n == Len(line)
           thin == Downsampled(line)
           m == Len(thin)
           average == Average(v)
           S == {TPSPoint(i) : i \in DOMAIN Complete}
<1>1. buckets \in TPSAnswers /\ maxPoints \in Nat \ 0..3 BY TPSChartAssumption DEF PlotInv
<1>2. /\ n \in Nat /\ DOMAIN line = 1..n
      /\ \A i \in 1..n : line[i].date \in Int
      /\ \A i, j \in 1..n : i < j => line[i].date < line[j].date
      /\ \A k \in 1..n : \E i \in DOMAIN Complete : line[k] = TPSPoint(i)
      /\ \A i \in DOMAIN Complete : Complete[i].venue = v => \E k \in 1..n : line[k] = TPSPoint(i)
  <2>1. LineOf(line, v) BY <1>1, LineIs
  <2> HIDE DEF line
  <2> QED BY <2>1 DEF LineOf
<1> HIDE DEF line
<1>3. \A k \in 1..n : line[k].tps \in Int
  <2>1. ASSUME NEW i \in DOMAIN Complete PROVE TPSPoint(i).tps \in Int
    BY <1>1, CompleteRows, RateOfRow DEF TPSPoint
  <2> QED BY <1>2, <2>1
<1>4. n # 0
  <2>1. PICK i \in DOMAIN Complete : Complete[i].venue = v BY DEF TPSVenues
  <2>2. PICK k \in 1..n : line[k] = TPSPoint(i) BY <1>2, <2>1
  <2> QED BY <2>2
<1>5. LineShape(line, n) BY <1>2, <1>3, <1>4 DEF LineShape
<1>6. line \in Seq(S)
  <2>0. LineOf(line, v) BY <1>1, LineIs DEF line
  <2>1. line \in Seq({TPSPoint(i) : i \in DOMAIN Complete}) BY <2>0 DEF LineOf
  <2> QED BY <2>1 DEF line
<1> HIDE DEF S, n
<1>7. /\ m \in Nat \ {0} /\ DOMAIN thin = 1..m /\ m <= maxPoints + 2
      /\ thin[1] = line[1] /\ thin[m] = line[n]
      /\ \A k \in 1..m : \E i \in 1..n : thin[k] = line[i]
      /\ \A k, l \in 1..m : k < l => thin[k].date < thin[l].date
      /\ \A i \in 1..n : \E k \in 1..m : thin[k].tps <= line[i].tps
      /\ \A i \in 1..n : \E k \in 1..m : line[i].tps <= thin[k].tps
  <2>1. Thinned(thin, m, line, n)
    <3> HIDE DEF S
    <3> QED BY <1>1, <1>5, <1>6, ThinIs
  <2> HIDE DEF thin, m
  <2> QED BY <2>1 DEF Thinned
<1> HIDE DEF thin, m
<1>8. \A k \in 1..m : thin[k].tps \in Int BY <1>3, <1>7
<1>9. PICK a \in 1..m : \A i \in 1..n : line[i].tps <= thin[a].tps
  <2>1. PICK h \in 1..n : \A i \in 1..n : line[i].tps <= line[h].tps BY <1>5, Greatest
  <2>2. PICK k \in 1..m : line[h].tps <= thin[k].tps BY <1>7
  <2>3. \A i \in 1..n : line[i].tps <= thin[k].tps BY <1>3, <1>8, <2>1, <2>2
  <2> QED BY <2>3
<1>10. PICK z \in 1..m : \A i \in 1..n : thin[z].tps <= line[i].tps
  <2>1. PICK l \in 1..n : \A i \in 1..n : line[l].tps <= line[i].tps BY <1>5, Greatest
  <2>2. PICK k \in 1..m : thin[k].tps <= line[l].tps BY <1>7
  <2>3. \A i \in 1..n : thin[k].tps <= line[i].tps BY <1>3, <1>8, <2>1, <2>2
  <2> QED BY <2>3
<1>11. thin[z].tps * average[2] <= 3600 * average[1] /\ thin[a].tps * average[2] >= 3600 * average[1]
  <2> DEFINE low == thin[z].tps  high == thin[a].tps
  <2>1. low \in Int /\ high \in Int /\ RatesWithin(Line(v), low, high)
    BY <1>8, <1>9, <1>10 DEF line, n, RatesWithin
  <2> HIDE DEF low, high
  <2>2. low * Average(v)[2] <= 3600 * Average(v)[1] /\ high * Average(v)[2] >= 3600 * Average(v)[1]
    BY <1>1, <2>1, AverageBetween
  <2> QED BY <2>2 DEF low, high
<1> HIDE DEF average
<1>12. DOMAIN line = 1..n BY <1>5 DEF LineShape
<1>13. thin[a] \in Range(thin) /\ thin[z] \in Range(thin) BY <1>7 DEF Range
<1>14. Range(thin) \subseteq Range(line) BY <1>7, <1>12 DEF Range
<1>15. \A q \in Range(line) : q.tps <= thin[a].tps /\ thin[z].tps <= q.tps BY <1>9, <1>10, <1>12 DEF Range
<1>16. (\E p \in Range(thin) : \A q \in Range(line) : q.tps <= p.tps)
       /\ \E p \in Range(thin) : \A q \in Range(line) : p.tps <= q.tps
  BY <1>13, <1>15
<1>17. (\E p \in Range(thin) : p.tps * average[2] <= 3600 * average[1])
       /\ \E p \in Range(thin) : p.tps * average[2] >= 3600 * average[1]
  <2> HIDE DEF average
  <2> QED BY <1>11, <1>13
<1>18. \A i, j \in DOMAIN thin : i < j => thin[i].date < thin[j].date BY <1>7
<1>19. m <= maxPoints + 2 /\ thin[1] = line[1] /\ thin[m] = line[n] BY <1>7
<1>20. ThinTrue(line, thin, average) BY <1>14, <1>16, <1>17, <1>18, <1>19 DEF ThinTrue, m, n
<1> QED BY <1>20 DEF line, thin, average

LEMMA StepKeepsPlot == PlotInv /\ [PanelNext]_panelVars => PlotInv'
<1> SUFFICES ASSUME PlotInv, [PanelNext]_panelVars PROVE PlotInv' OBVIOUS
<1>1. viewed' = viewed BY DEF PanelNext, panelVars
<1>2. CASE UNCHANGED tpsVars BY <1>1, <1>2 DEF PlotInv, tpsVars
<1>3. CASE viewed = "tps" /\ TPSNext
  BY <1>1, <1>3 DEF PlotInv, TPSNext, ReceiveTPS, Resize, LeaveTPS, PointAtTime
<1> QED BY <1>2, <1>3 DEF PanelNext, panelVars

\* Whatever the exchanges' rates and the width: ThinnedTrue.
THEOREM ThinningTrue == PanelSpec => []ThinnedTrue
<1>1. PanelInit => PlotInv BY DEF PanelInit, TPSInit, TPSOff, PlotInv
<1> QED BY <1>1, PlotThinned, StepKeepsPlot, PTL DEF PanelSpec

-----------------------------------------------------------------------------
(* Order statistics                                                        *)

LEMMA CountTo ==
  ASSUME NEW a \in Int, NEW b \in Int, a <= b + 1
  PROVE  IsFiniteSet(a..b) /\ Cardinality(a..b) = b - a + 1
<1>1. IsFiniteSet(a..b) /\ Cardinality(a..b) = IF a > b THEN 0 ELSE b - a + 1 BY ONLY a \in Int, b \in Int, FS_Interval
<1> QED BY <1>1

\* The values that order takes from their places, in ascending order.
Ordered(sorted, values, n, order) ==
  /\ n \in Nat /\ Len(sorted) = n /\ DOMAIN sorted = 1..n /\ DOMAIN values = 1..n
  /\ order \in [1..n -> 1..n]
  /\ \A k \in 1..n : sorted[k] = values[order[k]] /\ sorted[k] \in Int
  /\ \A i \in 1..n : \E k \in 1..n : order[k] = i
  /\ \A k, l \in 1..n : k <= l => sorted[k] <= sorted[l]

LEMMA AscendingIs ==
  ASSUME NEW values \in Seq(Int)
  PROVE  \E order : Ordered(Ascending(values), values, Len(values), order)
<1> DEFINE n == Len(values)
           sorted == Ascending(values)
<1>1. n \in Nat /\ DOMAIN values = 1..n /\ Cardinality(1..n) = n BY Places
<1>2. \A i \in 1..n : values[i] \in Int BY <1>1, ElementOfSeq
<1>3. sorted = SortedBy(values, values) BY DEF Ascending
<1>4. PICK order :
        /\ Taken(sorted, values, 1..n, order)
        /\ \A k, l \in 1..n : k < l => \/ values[order[k]] < values[order[l]]
                                       \/ values[order[k]] = values[order[l]] /\ order[k] < order[l]
  <2>1. \E order : /\ Taken(SortedBy(values, values), values, DOMAIN values, order)
                   /\ \A k, l \in 1..Len(values) : k < l =>
                        \/ values[order[k]] < values[order[l]]
                        \/ values[order[k]] = values[order[l]] /\ order[k] < order[l]
    <3>1. \A i \in DOMAIN values : values[i] \in Int BY <1>1, <1>2
    <3> HIDE DEF n, sorted
    <3> QED BY <3>1, Sorting
  <2> QED BY <1>1, <1>3, <2>1
<1>5. Len(sorted) = n BY <1>1, <1>2, <1>3, Sorting
<1> HIDE DEF sorted, n
<1>6. /\ DOMAIN sorted = 1..n /\ order \in [1..n -> 1..n]
      /\ \A k \in 1..n : sorted[k] = values[order[k]]
      /\ \A i \in 1..n : \E k \in 1..n : order[k] = i
  BY <1>1, <1>4 DEF Taken, Picks
<1>7. \A k \in 1..n : sorted[k] \in Int BY <1>2, <1>6
<1>8. ASSUME NEW k \in 1..n, NEW l \in 1..n, k <= l PROVE sorted[k] <= sorted[l]
  <2>1. CASE k = l BY <1>7, <2>1
  <2>2. CASE k < l
    <3>1. order[k] \in 1..n /\ order[l] \in 1..n BY <1>6
    <3>2. values[order[k]] \in Int /\ values[order[l]] \in Int BY <1>2, <3>1
    <3>3. values[order[k]] < values[order[l]] \/ values[order[k]] = values[order[l]] BY <1>4, <2>2
    <3>4. \A a, b \in Int : a < b \/ a = b => a <= b OBVIOUS
    <3>5. values[order[k]] <= values[order[l]] BY ONLY <3>2, <3>3, <3>4
    <3> QED BY <1>6, <3>5
  <2> QED BY <1>1, <1>8, <2>1, <2>2
<1> QED BY <1>1, <1>5, <1>6, <1>7, <1>8 DEF Ordered, sorted, n

\* The k-th quartile is that place or lies between it and the next one.
LEMMA QuantileBetween ==
  ASSUME NEW n, NEW sorted, NEW values, NEW order, Ordered(sorted, values, n, order), n # 0, NEW k \in {1, 2, 3}
  PROVE  /\ Quantile(sorted, k) \in Int
         /\ \E i, j \in 1..n : 4 * sorted[i] <= Quantile(sorted, k) /\ Quantile(sorted, k) <= 4 * sorted[j]
<1> DEFINE at == (n - 1) * k
           low == 1 + at \div 4
           w == at % 4
<1>1. n \in Nat \ {0} /\ (\A i \in 1..n : sorted[i] \in Int) /\ \A i, j \in 1..n : i <= j => sorted[i] <= sorted[j]
  BY DEF Ordered
<1>2. at \in Nat /\ low \in 1..n /\ w \in 0..3 /\ (w # 0 => low + 1 \in 1..n) BY <1>1
<1>3. Quantile(sorted, k) = IF w = 0 THEN 4 * sorted[low] ELSE sorted[low] * (4 - w) + sorted[low + 1] * w
  BY DEF Quantile, Ordered
<1> HIDE DEF at, low, w
<1>4. CASE w = 0 BY <1>1, <1>2, <1>3, <1>4
<1>5. CASE w # 0
  <2>1. sorted[low] \in Int /\ sorted[low + 1] \in Int /\ sorted[low] <= sorted[low + 1] BY <1>1, <1>2, <1>5
  <2>2. /\ Quantile(sorted, k) \in Int
        /\ 4 * sorted[low] <= Quantile(sorted, k) /\ Quantile(sorted, k) <= 4 * sorted[low + 1]
    <3>1. CASE w = 1 BY <1>3, <2>1, <3>1
    <3>2. CASE w = 2 BY <1>3, <2>1, <3>2
    <3>3. CASE w = 3 BY <1>3, <2>1, <3>3
    <3> QED BY <1>2, <1>5, <3>1, <3>2, <3>3
  <2> QED BY <1>2, <1>5, <2>2
<1> QED BY <1>4, <1>5

\* With a quarter of the values taken from either end, the next one is not out of the range.
Framed(n, sorted, q1, q3) ==
  /\ n \div 4 \in Nat /\ 4 * (n \div 4) <= n /\ n \div 4 + 1 \in 1..n /\ n - n \div 4 \in 1..n
  /\ q1 \in Int /\ q3 \in Int /\ q1 <= q3
  /\ 8 * sorted[n \div 4 + 1] >= 5 * q1 - 3 * q3
  /\ 8 * sorted[n - n \div 4] <= 5 * q3 - 3 * q1

LEMMA QuarterIsEnough ==
  ASSUME NEW n, NEW sorted, NEW values, NEW order, Ordered(sorted, values, n, order), n # 0
  PROVE  Framed(n, sorted, Quantile(sorted, 1), Quantile(sorted, 3))
<1> DEFINE q1 == Quantile(sorted, 1)
           q3 == Quantile(sorted, 3)
<1>1. n \in Nat \ {0} /\ (\A i \in 1..n : sorted[i] \in Int) /\ \A i, j \in 1..n : i <= j => sorted[i] <= sorted[j]
  BY DEF Ordered
<1>2. PICK m \in Nat, r \in 0..3 : n = 4 * m + r + 1
  <2>1. (n - 1) \div 4 \in Nat /\ (n - 1) % 4 \in 0..3 /\ n = 4 * ((n - 1) \div 4) + ((n - 1) % 4) + 1 BY <1>1
  <2> QED BY <2>1
<1>3. q1 = LET at == n - 1 low == 1 + at \div 4 w == at % 4
           IN IF w = 0 THEN 4 * sorted[low] ELSE sorted[low] * (4 - w) + sorted[low + 1] * w
  <2>1. (n - 1) * 1 = n - 1 BY <1>1
  <2> QED BY <2>1 DEF Quantile, Ordered
<1>4. q3 = LET at == 3 * (n - 1) low == 1 + at \div 4 w == at % 4
           IN IF w = 0 THEN 4 * sorted[low] ELSE sorted[low] * (4 - w) + sorted[low + 1] * w
  <2>1. (n - 1) * 3 = 3 * (n - 1) BY <1>1
  <2> QED BY <2>1 DEF Quantile, Ordered
<1> HIDE DEF q1, q3
<1>5. ASSUME r = 0 PROVE Framed(n, sorted, q1, q3)
  <2>1. n = 4 * m + 1 /\ n \div 4 = m BY <1>2, <1>5
  <2>2. (n - 1) \div 4 = m /\ (n - 1) % 4 = 0 /\ (3 * (n - 1)) \div 4 = 3 * m /\ (3 * (n - 1)) % 4 = 0 BY <2>1
  <2>3. q1 = 4 * sorted[1 + m] /\ q3 = 4 * sorted[1 + 3 * m] BY <1>3, <1>4, <2>2
  <2>4. /\ n - m = 1 + 3 * m /\ m + 1 = 1 + m
        /\ 1 + m \in 1..n /\ 1 + 3 * m \in 1..n /\ 1 + m <= 1 + 3 * m /\ 4 * m <= n
    BY <2>1
  <2>5. sorted[1 + m] <= sorted[1 + 3 * m] /\ sorted[1 + m] \in Int /\ sorted[1 + 3 * m] \in Int BY <1>1, <2>4
  <2>6. q1 \in Int /\ q3 \in Int /\ q1 <= q3
        /\ 8 * sorted[1 + m] >= 5 * q1 - 3 * q3 /\ 8 * sorted[1 + 3 * m] <= 5 * q3 - 3 * q1
    BY <2>3, <2>5
  <2> QED BY <2>1, <2>4, <2>6 DEF Framed
<1>6. ASSUME r = 1 PROVE Framed(n, sorted, q1, q3)
  <2>1. n = 4 * m + 2 /\ n \div 4 = m BY <1>2, <1>6
  <2>2. (n - 1) \div 4 = m /\ (n - 1) % 4 = 1 /\ (3 * (n - 1)) \div 4 = 3 * m /\ (3 * (n - 1)) % 4 = 3 BY <2>1
  <2>3. /\ n - m = 1 + 3 * m + 1 /\ m + 1 = 1 + m /\ 4 * m <= n
        /\ 1 + m \in 1..n /\ 1 + m + 1 \in 1..n /\ 1 + 3 * m \in 1..n /\ 1 + 3 * m + 1 \in 1..n
    BY <2>1
  <2>4. PICK a, b, c, e : a = sorted[1 + m] /\ b = sorted[1 + m + 1] /\ c = sorted[1 + 3 * m] /\ e = sorted[1 + 3 * m + 1]
    OBVIOUS
  <2>5. a \in Int /\ b \in Int /\ c \in Int /\ e \in Int BY <1>1, <2>3, <2>4
  <2>6. q1 = a * 3 + b * 1 /\ q3 = c * 1 + e * 3 BY <1>3, <1>4, <2>2, <2>4
  <2>7. a <= b /\ c <= e /\ (m # 0 => b <= c) /\ (m = 0 => a = c /\ b = e)
    <3>1. 1 + m <= 1 + m + 1 /\ 1 + 3 * m <= 1 + 3 * m + 1 /\ (m # 0 => 1 + m + 1 <= 1 + 3 * m) OBVIOUS
    <3>2. m = 0 => 1 + m = 1 + 3 * m /\ 1 + m + 1 = 1 + 3 * m + 1 OBVIOUS
    <3> QED BY <1>1, <2>3, <2>4, <3>1, <3>2
  <2>8. q1 \in Int /\ q3 \in Int /\ q1 <= q3 /\ 8 * a >= 5 * q1 - 3 * q3 /\ 8 * e <= 5 * q3 - 3 * q1
    BY <2>5, <2>6, <2>7
  <2> QED BY <2>1, <2>3, <2>4, <2>8 DEF Framed
<1>7. ASSUME r = 2 PROVE Framed(n, sorted, q1, q3)
  <2>1. n = 4 * m + 3 /\ n \div 4 = m BY <1>2, <1>7
  <2>2. (n - 1) \div 4 = m /\ (n - 1) % 4 = 2 /\ (3 * (n - 1)) \div 4 = 3 * m + 1 /\ (3 * (n - 1)) % 4 = 2 BY <2>1
  <2>3. /\ n - m = 1 + (3 * m + 1) + 1 /\ m + 1 = 1 + m /\ 4 * m <= n
        /\ 1 + m \in 1..n /\ 1 + m + 1 \in 1..n /\ 1 + (3 * m + 1) \in 1..n /\ 1 + (3 * m + 1) + 1 \in 1..n
    BY <2>1
  <2>4. PICK a, b, c, e :
          a = sorted[1 + m] /\ b = sorted[1 + m + 1] /\ c = sorted[1 + (3 * m + 1)] /\ e = sorted[1 + (3 * m + 1) + 1]
    OBVIOUS
  <2>5. a \in Int /\ b \in Int /\ c \in Int /\ e \in Int BY <1>1, <2>3, <2>4
  <2>6. q1 = a * 2 + b * 2 /\ q3 = c * 2 + e * 2 BY <1>3, <1>4, <2>2, <2>4
  <2>7. a <= b /\ c <= e /\ b <= c
    <3>1. 1 + m <= 1 + m + 1 /\ 1 + (3 * m + 1) <= 1 + (3 * m + 1) + 1 /\ 1 + m + 1 <= 1 + (3 * m + 1) OBVIOUS
    <3> QED BY <1>1, <2>3, <2>4, <3>1
  <2>8. q1 \in Int /\ q3 \in Int /\ q1 <= q3 /\ 8 * a >= 5 * q1 - 3 * q3 /\ 8 * e <= 5 * q3 - 3 * q1
    BY <2>5, <2>6, <2>7
  <2> QED BY <2>1, <2>3, <2>4, <2>8 DEF Framed
<1>8. ASSUME r = 3 PROVE Framed(n, sorted, q1, q3)
  <2>1. n = 4 * m + 4 /\ n \div 4 = m + 1 BY <1>2, <1>8
  <2>2. (n - 1) \div 4 = m /\ (n - 1) % 4 = 3 /\ (3 * (n - 1)) \div 4 = 3 * m + 2 /\ (3 * (n - 1)) % 4 = 1 BY <2>1
  <2>3. /\ n - (m + 1) = 1 + (3 * m + 2) /\ m + 1 + 1 = 1 + m + 1 /\ 4 * (m + 1) <= n /\ m + 1 \in Nat
        /\ 1 + m \in 1..n /\ 1 + m + 1 \in 1..n /\ 1 + (3 * m + 2) \in 1..n /\ 1 + (3 * m + 2) + 1 \in 1..n
    BY <2>1
  <2>4. PICK a, b, c, e :
          a = sorted[1 + m] /\ b = sorted[1 + m + 1] /\ c = sorted[1 + (3 * m + 2)] /\ e = sorted[1 + (3 * m + 2) + 1]
    OBVIOUS
  <2>5. a \in Int /\ b \in Int /\ c \in Int /\ e \in Int BY <1>1, <2>3, <2>4
  <2>6. q1 = a * 1 + b * 3 /\ q3 = c * 3 + e * 1 BY <1>3, <1>4, <2>2, <2>4
  <2>7. a <= b /\ c <= e /\ b <= c
    <3>1. 1 + m <= 1 + m + 1 /\ 1 + (3 * m + 2) <= 1 + (3 * m + 2) + 1 /\ 1 + m + 1 <= 1 + (3 * m + 2) OBVIOUS
    <3> QED BY <1>1, <2>3, <2>4, <3>1
  <2>8. q1 \in Int /\ q3 \in Int /\ q1 <= q3 /\ 8 * b >= 5 * q1 - 3 * q3 /\ 8 * c <= 5 * q3 - 3 * q1
    BY <2>5, <2>6, <2>7
  <2> QED BY <2>1, <2>3, <2>4, <2>8 DEF Framed
<1> QED BY <1>2, <1>5, <1>6, <1>7, <1>8 DEF q1, q3

\* What comes from few places of the order is few.
LEMMA FewPlaces ==
  ASSUME NEW n, NEW sorted, NEW values, NEW order, Ordered(sorted, values, n, order),
         NEW K \in SUBSET (1..n), NEW bad \in SUBSET (1..n), \A k \in 1..n : order[k] \in bad => k \in K
  PROVE  /\ Cardinality(bad) \in Nat /\ Cardinality(K) \in Nat /\ Cardinality(bad) <= Cardinality(K)
         /\ Cardinality((1..n) \ bad) \in Nat /\ Cardinality((1..n) \ bad) >= n - Cardinality(K)
<1> DEFINE f == [k \in K |-> order[k]]
           T == {f[k] : k \in K}
<1>1. n \in Nat /\ order \in [1..n -> 1..n] /\ \A i \in 1..n : \E k \in 1..n : order[k] = i BY DEF Ordered
<1>2. IsFiniteSet(1..n) /\ Cardinality(1..n) = n
  <2>1. 1 \in Int /\ n \in Int /\ 1 <= n + 1 /\ n - 1 + 1 = n BY <1>1
  <2>2. IsFiniteSet(1..n) /\ Cardinality(1..n) = n - 1 + 1 BY ONLY <2>1, CountTo
  <2> QED BY <2>1, <2>2
<1>3. IsFiniteSet(K) BY <1>2, FS_Subset
<1>4. IsFiniteSet(T) /\ Cardinality(T) <= Cardinality(K) /\ Cardinality(T) \in Nat /\ Cardinality(K) \in Nat
  <2>1. DOMAIN f = K OBVIOUS
  <2> HIDE DEF f
  <2> QED BY <1>3, <2>1, ImageSmall
<1>5. bad \subseteq T
  <2> SUFFICES ASSUME NEW i \in bad PROVE i \in T OBVIOUS
  <2>1. PICK k \in 1..n : order[k] = i BY <1>1
  <2>2. k \in K /\ f[k] = i BY <2>1
  <2> QED BY <2>2
<1> HIDE DEF T
<1>6. IsFiniteSet(bad) /\ Cardinality(bad) <= Cardinality(T) BY <1>4, <1>5, FS_Subset
<1>7. Cardinality(bad) \in Nat BY <1>6, FS_CardinalityType
<1>8. Cardinality((1..n) \ bad) = Cardinality(1..n) - Cardinality((1..n) \cap bad) /\ IsFiniteSet((1..n) \ bad)
  BY <1>2, FS_Difference
<1>9. (1..n) \cap bad = bad OBVIOUS
<1>10. Cardinality((1..n) \ bad) \in Nat BY <1>8, FS_CardinalityType
<1>11. Cardinality((1..n) \ bad) = n - Cardinality(bad) BY <1>2, <1>8, <1>9
<1>12. \A a, b, c, e \in Nat : a <= b /\ b <= c /\ e = n - a => a <= c /\ e >= n - c BY <1>1
<1> QED BY ONLY <1>4, <1>6, <1>7, <1>10, <1>11, <1>12

\* The nearest rank is where it should be.
LEMMA NearestRank ==
  ASSUME NEW values \in Seq(Int), values # <<>>
  PROVE  /\ 100 * Cardinality({i \in DOMAIN values : values[i] <= P95(values)}) >= 95 * Len(values)
         /\ 100 * Cardinality({i \in DOMAIN values : values[i] < P95(values)}) < 95 * Len(values)
<1> DEFINE n == Len(values)
           sorted == Ascending(values)
           r == Max({1, (95 * n + 99) \div 100})
           p == P95(values)
<1>1. PICK order : Ordered(sorted, values, n, order) BY AscendingIs
<1>2. n \in Nat \ {0} /\ DOMAIN values = 1..n /\ \A i \in 1..n : values[i] \in Int
  BY Empty, LenProperties, ElementOfSeq
<1>3. p = sorted[r] BY DEF P95
<1> HIDE DEF p, sorted, n
<1>4. r \in 1..n /\ 100 * r >= 95 * n /\ 100 * (r - 1) < 95 * n
  <2> DEFINE t == (95 * n + 99) \div 100
  <2>1. t \in Int /\ t >= 1 /\ t <= n /\ 100 * t >= 95 * n /\ 100 * (t - 1) < 95 * n BY <1>2
  <2> HIDE DEF t
  <2>2. Max({1, t}) = t BY <2>1, MaxOfTwo
  <2>3. r = t BY <2>2 DEF r, t
  <2> QED BY <1>2, <2>1, <2>3
<1> HIDE DEF r
<1>5. /\ order \in [1..n -> 1..n] /\ \A k \in 1..n : sorted[k] = values[order[k]] /\ sorted[k] \in Int
      /\ \A k, l \in 1..n : k <= l => sorted[k] <= sorted[l]
  BY <1>1 DEF Ordered
<1>6. p \in Int BY <1>3, <1>4, <1>5
<1>7. 100 * Cardinality({i \in 1..n : values[i] <= p}) >= 95 * n
  <2> DEFINE K == r+1..n  bad == {i \in 1..n : values[i] > p}
  <2>1. ASSUME NEW k \in 1..n, order[k] \in bad PROVE k \in K
    <3>1. sorted[k] > sorted[r] BY <1>3, <1>5, <2>1
    <3>2. ~(sorted[k] <= sorted[r]) BY <1>4, <1>5, <3>1
    <3> QED BY <1>2, <1>4, <1>5, <3>2
  <2>2. K \in SUBSET (1..n) /\ bad \in SUBSET (1..n) BY <1>2, <1>4
  <2>3. Cardinality(K) = n - r
    <3>1. r + 1 \in Int /\ n \in Int /\ r + 1 <= n + 1 /\ n - (r + 1) + 1 = n - r BY <1>2, <1>4
    <3>2. Cardinality(r + 1..n) = n - (r + 1) + 1 BY ONLY <3>1, CountTo
    <3> QED BY <3>1, <3>2
  <2>4. {i \in 1..n : values[i] <= p} = (1..n) \ bad BY <1>2, <1>6
  <2> HIDE DEF K, bad
  <2>5. Cardinality((1..n) \ bad) \in Nat /\ Cardinality((1..n) \ bad) >= n - Cardinality(K)
    BY <1>1, <2>1, <2>2, FewPlaces
  <2>6. Cardinality((1..n) \ bad) >= r BY <1>2, <1>4, <2>3, <2>5
  <2>7. 100 * Cardinality((1..n) \ bad) >= 95 * n BY <1>2, <1>4, <2>5, <2>6
  <2> QED BY <2>4, <2>7
<1>8. 100 * Cardinality({i \in 1..n : values[i] < p}) < 95 * n
  <2> DEFINE K == 1..r-1  bad == {i \in 1..n : values[i] < p}
  <2>1. ASSUME NEW k \in 1..n, order[k] \in bad PROVE k \in K
    <3>1. sorted[k] < sorted[r] BY <1>3, <1>5, <2>1
    <3>2. ~(sorted[r] <= sorted[k]) BY <1>4, <1>5, <3>1
    <3> QED BY <1>2, <1>4, <1>5, <3>2
  <2>2. K \in SUBSET (1..n) /\ bad \in SUBSET (1..n) BY <1>2, <1>4
  <2>3. Cardinality(K) = r - 1
    <3>1. 1 \in Int /\ r - 1 \in Int /\ 1 <= r - 1 + 1 /\ r - 1 - 1 + 1 = r - 1 BY <1>2, <1>4
    <3>2. Cardinality(1..r - 1) = r - 1 - 1 + 1 BY ONLY <3>1, CountTo
    <3> QED BY <3>1, <3>2
  <2> HIDE DEF K, bad
  <2>5. Cardinality(bad) \in Nat /\ Cardinality(bad) <= Cardinality(K)
    BY <1>1, <2>1, <2>2, FewPlaces
  <2> QED BY <1>2, <1>4, <2>3, <2>5 DEF bad
<1> QED BY <1>2, <1>7, <1>8 DEF n, p

\* Hiding the outliers leaves at least half of a line of costs.
LEMMA HalfLeft ==
  ASSUME NEW S, NEW line \in Seq(S), \A x \in S : x.value \in Int
  PROVE  2 * Len(WithoutCostOutliers(line)) >= Len(line)
<1> DEFINE n == Len(line)
           values == CostValues(line)
           sorted == Ascending(values)
           good == {i \in DOMAIN line : ~CostOutlier(line[i].value, sorted)}
           bad == {i \in 1..n : CostOutlier(line[i].value, sorted)}
<1>1. n \in Nat /\ DOMAIN line = 1..n /\ \A i \in 1..n : line[i].value \in Int BY LenProperties, ElementOfSeq
<1>2. CASE n < OutlierMin BY <1>1, <1>2 DEF WithoutCostOutliers
<1>3. CASE ~(n < OutlierMin)
  <2>1. WithoutCostOutliers(line) = Kept(line, good) BY <1>3 DEF WithoutCostOutliers
  <2>2. Len(Kept(line, good)) = Cardinality(good)
    <3>1. good \in SUBSET DOMAIN line OBVIOUS
    <3> HIDE DEF good
    <3> QED BY <3>1, Keeping DEF Taken
  <2>3. good = (1..n) \ bad BY <1>1
  <2>4. CASE n = 0
    <3>1. Cardinality(good) \in Nat BY <1>1, Places
    <3> QED BY <2>1, <2>2, <2>4, <3>1
  <2>5. CASE n # 0
    <3>1. values \in Seq(Int) /\ Len(values) = n /\ \A i \in 1..n : values[i] = line[i].value
      <4>1. values = [i \in 1..n |-> line[i].value] BY <1>1 DEF CostValues
      <4>2. values \in [1..n -> Int] BY <1>1, <4>1
      <4> QED BY <1>1, <4>1, <4>2, SeqDef, LenProperties
    <3> HIDE DEF values
    <3>2. PICK order : Ordered(sorted, values, n, order) BY <3>1, AscendingIs
    <3> HIDE DEF sorted, n
    <3> DEFINE q1 == Quantile(sorted, 1)  q3 == Quantile(sorted, 3)  d == n \div 4
               K == (1..d) \cup (n - d + 1..n)
    <3>3. Framed(n, sorted, q1, q3) BY <2>5, <3>2, QuarterIsEnough
    <3>4. /\ d \in Nat /\ 4 * d <= n /\ d + 1 \in 1..n /\ n - d \in 1..n
          /\ q1 \in Int /\ q3 \in Int /\ q1 <= q3
          /\ 8 * sorted[d + 1] >= 5 * q1 - 3 * q3
          /\ 8 * sorted[n - d] <= 5 * q3 - 3 * q1
      BY <3>3 DEF Framed
    <3>5. /\ order \in [1..n -> 1..n] /\ \A k \in 1..n : sorted[k] = values[order[k]] /\ sorted[k] \in Int
          /\ \A k, l \in 1..n : k <= l => sorted[k] <= sorted[l]
      BY <3>2 DEF Ordered
    <3> HIDE DEF d
    <3>6. ASSUME NEW k \in 1..n, order[k] \in bad PROVE k \in K
      <4>1. CostOutlier(sorted[k], sorted) BY <3>1, <3>5, <3>6
      <4> DEFINE padding == IF q3 > q1 THEN 3 * (q3 - q1) ELSE 6 * Max({q3, -q3})
      <4>2. 8 * sorted[k] < 2 * q1 - padding \/ 8 * sorted[k] > 2 * q3 + padding BY <4>1 DEF CostOutlier
      <4> HIDE DEF q1, q3
      <4>3. padding \in Int /\ padding >= 3 * (q3 - q1)
        <5>1. Max({q3, -q3}) \in Int /\ Max({q3, -q3}) >= 0
          <6>1. Max({q3, -q3}) = IF q3 >= -q3 THEN q3 ELSE -q3 BY <3>4, MaxOfTwo
          <6> QED BY <3>4, <6>1
        <5> QED BY <3>4, <5>1
      <4> HIDE DEF padding
      <4>4. 8 * sorted[k] < 5 * q1 - 3 * q3 \/ 8 * sorted[k] > 5 * q3 - 3 * q1
        <5>1. \A x, a, b, p \in Int : p >= 3 * (b - a) /\ (8 * x < 2 * a - p \/ 8 * x > 2 * b + p)
                                      => 8 * x < 5 * a - 3 * b \/ 8 * x > 5 * b - 3 * a
          OBVIOUS
        <5>2. sorted[k] \in Int /\ q1 \in Int /\ q3 \in Int BY <3>4, <3>5
        <5> QED BY ONLY <4>2, <4>3, <5>1, <5>2
      <4>5. ~(d + 1 <= k /\ k <= n - d)
        <5> SUFFICES ASSUME d + 1 <= k, k <= n - d PROVE FALSE OBVIOUS
        <5>1. sorted[d + 1] <= sorted[k] /\ sorted[k] <= sorted[n - d] BY <3>4, <3>5
        <5>2. /\ sorted[d + 1] \in Int /\ sorted[k] \in Int /\ sorted[n - d] \in Int /\ q1 \in Int /\ q3 \in Int
              /\ 8 * sorted[d + 1] >= 5 * q1 - 3 * q3 /\ 8 * sorted[n - d] <= 5 * q3 - 3 * q1
          BY <3>4, <3>5
        <5>3. \A x, a, b, l, h \in Int : l <= x /\ x <= h /\ 8 * l >= 5 * a - 3 * b /\ 8 * h <= 5 * b - 3 * a
                                         => ~(8 * x < 5 * a - 3 * b \/ 8 * x > 5 * b - 3 * a)
          OBVIOUS
        <5> QED BY ONLY <4>4, <5>1, <5>2, <5>3
      <4> QED BY <1>1, <3>4, <4>5
    <3>7. K \in SUBSET (1..n) /\ bad \in SUBSET (1..n) BY <1>1, <3>4
    <3>8. Cardinality(K) <= 2 * d /\ Cardinality(K) \in Nat
      <4>1. 1 \in Int /\ d \in Int /\ 1 <= d + 1 /\ d - 1 + 1 = d BY <3>4
      <4>2. n - d + 1 \in Int /\ n \in Int /\ n - d + 1 <= n + 1 /\ n - (n - d + 1) + 1 = d BY <1>1, <3>4
      <4>3. IsFiniteSet(1..d) /\ Cardinality(1..d) = d - 1 + 1 BY ONLY <4>1, CountTo
      <4>4. IsFiniteSet(n - d + 1..n) /\ Cardinality(n - d + 1..n) = n - (n - d + 1) + 1 BY ONLY <4>2, CountTo
      <4>5. IsFiniteSet(K) /\ Cardinality(K) = Cardinality(1..d) + Cardinality(n - d + 1..n)
                                             - Cardinality((1..d) \cap (n - d + 1..n))
        BY <4>3, <4>4, FS_Union
      <4>6. Cardinality((1..d) \cap (n - d + 1..n)) \in Nat BY <4>3, FS_Intersection, FS_CardinalityType
      <4>7. Cardinality(K) \in Nat BY <4>5, FS_CardinalityType
      <4> QED BY <4>1, <4>2, <4>3, <4>4, <4>5, <4>6, <4>7
    <3> HIDE DEF K, bad
    <3>9. Cardinality((1..n) \ bad) \in Nat /\ Cardinality((1..n) \ bad) >= n - Cardinality(K)
      BY <3>2, <3>6, <3>7, FewPlaces
    <3>10. 2 * Cardinality((1..n) \ bad) >= n BY <1>1, <3>4, <3>8, <3>9
    <3> QED BY <2>1, <2>2, <2>3, <3>10 DEF n
  <2> QED BY <2>4, <2>5
<1> QED BY <1>2, <1>3

LEMMA LeastIs ==
  ASSUME NEW S \in SUBSET Int, IsFiniteSet(S), S # {}
  PROVE  Min(S) \in S /\ \A x \in S : Min(S) <= x
<1> DEFINE score == [x \in S |-> x]
<1>1. \A x \in S : x \in Int /\ score[x] \in Int /\ score[x] = x OBVIOUS
<1> HIDE DEF score
<1>2. /\ BestOf(S, score) \in S
      /\ \A j \in S : score[BestOf(S, score)] < score[j] \/ (score[BestOf(S, score)] = score[j] /\ BestOf(S, score) <= j)
  BY <1>1, BestPlace
<1>3. PICK b \in S : \A j \in S : score[b] < score[j] \/ (score[b] = score[j] /\ b <= j) BY <1>2
<1>4. \A j \in S : b <= j
  <2> SUFFICES ASSUME NEW j \in S PROVE b <= j OBVIOUS
  <2>1. b < j \/ (b = j /\ b <= j) BY <1>1, <1>3
  <2>2. b \in Int /\ j \in Int BY <1>1
  <2> QED BY <2>1, <2>2
<1> QED BY <1>4 DEF Min

LEMMA GreatestIs ==
  ASSUME NEW S \in SUBSET Int, IsFiniteSet(S), S # {}
  PROVE  Max(S) \in S /\ \A x \in S : Max(S) >= x
<1> DEFINE score == [x \in S |-> -x]
<1>1. \A x \in S : x \in Int /\ score[x] \in Int /\ score[x] = -x OBVIOUS
<1> HIDE DEF score
<1>2. /\ BestOf(S, score) \in S
      /\ \A j \in S : score[BestOf(S, score)] < score[j] \/ (score[BestOf(S, score)] = score[j] /\ BestOf(S, score) <= j)
  BY <1>1, BestPlace
<1>3. PICK b \in S : \A j \in S : score[b] < score[j] \/ (score[b] = score[j] /\ b <= j) BY <1>2
<1>4. \A j \in S : b >= j
  <2> SUFFICES ASSUME NEW j \in S PROVE b >= j OBVIOUS
  <2>1. -b < -j \/ -b = -j BY <1>1, <1>3
  <2>2. b \in Int /\ j \in Int BY <1>1
  <2> QED BY <2>1, <2>2
<1> QED BY <1>4 DEF Max

LEMMA RangeKept ==
  ASSUME NEW S, NEW s \in Seq(S), NEW places \in SUBSET DOMAIN s
  PROVE  /\ Kept(s, places) \in Seq(S) /\ Range(Kept(s, places)) = {s[i] : i \in places}
         /\ DOMAIN Kept(s, places) = 1..Len(Kept(s, places)) /\ Len(Kept(s, places)) = Cardinality(places)
<1> DEFINE t == Kept(s, places)
           n == Cardinality(places)
<1>1. t \in Seq(S) /\ \E order : Taken(t, s, places, order) BY Keeping
<1>2. PICK order : Taken(t, s, places, order) BY <1>1
<1> HIDE DEF t, n
<1>3. /\ Len(t) = n /\ DOMAIN t = 1..n /\ order \in [1..n -> places]
      /\ \A k \in 1..n : t[k] = s[order[k]]
      /\ \A i \in places : \E k \in 1..n : order[k] = i
  BY <1>2 DEF Taken, Picks, n
<1>4. Range(t) = {s[i] : i \in places}
  <2>1. ASSUME NEW x \in Range(t) PROVE x \in {s[i] : i \in places}
    <3>1. PICK k \in 1..n : x = t[k] BY <1>3 DEF Range
    <3>2. order[k] \in places /\ x = s[order[k]] BY <1>3, <3>1
    <3> QED BY <3>2
  <2>2. ASSUME NEW i \in places PROVE s[i] \in Range(t)
    <3>1. PICK k \in 1..n : order[k] = i BY <1>3
    <3> QED BY <1>3, <3>1 DEF Range
  <2> QED BY <2>1, <2>2
<1> QED BY <1>1, <1>3, <1>4 DEF t, n

LEMMA RangeSorted ==
  ASSUME NEW S, NEW s \in Seq(S), NEW score, \A i \in DOMAIN s : score[i] \in Int
  PROVE  SortedBy(s, score) \in Seq(S) /\ Range(SortedBy(s, score)) = Range(s)
<1> DEFINE t == SortedBy(s, score)
           P == DOMAIN s
           n == Cardinality(P)
<1>1. t \in Seq(S) /\ \E order : Taken(t, s, P, order)
  <2>1. SortedBy(s, score) \in Seq(S) /\ \E order : Taken(SortedBy(s, score), s, DOMAIN s, order) BY Sorting
  <2> QED BY <2>1
<1>2. PICK order : Taken(t, s, P, order) BY <1>1
<1> HIDE DEF t, n
<1>3. /\ DOMAIN t = 1..n /\ order \in [1..n -> P]
      /\ \A k \in 1..n : t[k] = s[order[k]]
      /\ \A i \in P : \E k \in 1..n : order[k] = i
  BY <1>2 DEF Taken, Picks, n
<1>4. Range(t) = Range(s)
  <2>1. ASSUME NEW x \in Range(t) PROVE x \in Range(s)
    <3>1. PICK k \in 1..n : x = t[k] BY <1>3 DEF Range
    <3>2. order[k] \in P /\ x = s[order[k]] BY <1>3, <3>1
    <3> QED BY <3>2 DEF Range
  <2>2. ASSUME NEW x \in Range(s) PROVE x \in Range(t)
    <3>1. PICK i \in P : x = s[i] BY DEF Range
    <3>2. PICK k \in 1..n : order[k] = i BY <1>3, <3>1
    <3> QED BY <1>3, <3>1, <3>2 DEF Range
  <2> QED BY <2>1, <2>2
<1> QED BY <1>1, <1>4 DEF t

LEMMA RangeIs ==
  ASSUME NEW S, NEW s \in Seq(S)
  PROVE  /\ Range(s) \subseteq S /\ \A i \in 1..Len(s) : s[i] \in Range(s)
         /\ \A x \in Range(s) : \E i \in 1..Len(s) : x = s[i]
         /\ IsFiniteSet(Range(s))
<1>1. DOMAIN s = 1..Len(s) /\ IsFiniteSet(DOMAIN s) BY Places
<1>2. \A i \in 1..Len(s) : s[i] \in S BY <1>1, ElementOfSeq
<1>3. IsFiniteSet({s[x] : x \in DOMAIN s}) BY <1>1, ImageSmall
<1> QED BY <1>1, <1>2, <1>3 DEF Range

-----------------------------------------------------------------------------
(* The costs                                                               *)

CostInv == IF viewed = "cost" THEN rounds \in Rounds ELSE rounds = Off

\* A round that is closed on the other side.
Closed == {r \in CostRound : r.exit.sell = ~r.entry.sell}

LEMMA CostRounds ==
  ASSUME rounds \in Rounds
  PROVE  rounds \in Seq(Closed)
<1>1. rounds \in Seq(CostRound) /\ \A i \in DOMAIN rounds : rounds[i].exit.sell = ~rounds[i].entry.sell
  BY CostAssumption
<1>2. \A i \in 1..Len(rounds) : rounds[i] \in Closed BY <1>1, LenProperties, ElementOfSeq DEF Closed
<1>3. Len(rounds) \in Nat /\ rounds = [i \in 1..Len(rounds) |-> rounds[i]] BY <1>1, LenProperties
<1>4. rounds \in [1..Len(rounds) -> Closed] BY <1>2, <1>3
<1> QED BY <1>3, <1>4, SeqDef

LEMMA RecordsAre ==
  ASSUME rounds \in Rounds
  PROVE  Records \in Seq(Closed) /\ Range(Records) = {r \in Range(rounds) : r.taker}
<1> DEFINE P == {i \in DOMAIN rounds : rounds[i].taker}
           takers == Kept(rounds, P)
           score == [i \in DOMAIN takers |-> takers[i].date]
<1>1. rounds \in Seq(Closed) BY CostRounds
<1>2. P \in SUBSET DOMAIN rounds OBVIOUS
<1>3. {rounds[i] : i \in P} = {r \in Range(rounds) : r.taker} BY DEF Range
<1> HIDE DEF P
<1>4. takers \in Seq(Closed) /\ Range(takers) = {r \in Range(rounds) : r.taker} BY <1>1, <1>2, <1>3, RangeKept
<1>5. Records = SortedBy(takers, score) BY DEF Records, P
<1> HIDE DEF takers
<1>6. \A i \in DOMAIN takers : score[i] \in Int
  <2>1. \A i \in DOMAIN takers : takers[i] \in Closed BY <1>4, LenProperties, ElementOfSeq
  <2> QED BY <2>1 DEF Closed, CostRound
<1> HIDE DEF score
<1>7. SortedBy(takers, score) \in Seq(Closed) /\ Range(SortedBy(takers, score)) = Range(takers)
  BY <1>4, <1>6, RangeSorted
<1> QED BY <1>4, <1>5, <1>7

LEMMA OnlyOfIs ==
  ASSUME NEW records \in Seq(Closed), NEW v
  PROVE  OnlyOf(records, v) \in Seq(Closed) /\ Range(OnlyOf(records, v)) = {r \in Range(records) : r.venue = v}
<1> DEFINE P == {i \in DOMAIN records : records[i].venue = v}
<1>1. P \in SUBSET DOMAIN records OBVIOUS
<1>2. {records[i] : i \in P} = {r \in Range(records) : r.venue = v} BY DEF Range
<1>3. OnlyOf(records, v) = Kept(records, P) BY DEF OnlyOf
<1> HIDE DEF P
<1> QED BY <1>1, <1>2, <1>3, RangeKept

\* Of takers, the clean ones from the first minute on that every venue has, if there is one.
KeptOf(takers) ==
  LET clean == {r \in takers : r.clean}
      Full(c) == \A v \in {r.venue : r \in takers} : \E r \in clean : r.venue = v /\ Cycle(r.date) = c
      cycles == {Cycle(r.date) : r \in clean}
  IN {r \in clean : (\E c \in cycles : Full(c)) => \E c \in cycles : Full(c) /\ c <= r.date}

LEMMA StableIs ==
  ASSUME NEW records \in Seq(Closed)
  PROVE  StableOf(records) \in Seq(Closed) /\ Range(StableOf(records)) = KeptOf(Range(records))
<1> DEFINE R == Range(records)
           clean == {r \in R : r.clean}
           V == {r.venue : r \in R}
           Full(c) == \A v \in V : \E r \in clean : r.venue = v /\ Cycle(r.date) = c
           cycles == {Cycle(r.date) : r \in clean}
           CC == CompleteCycles(records)
           start == IF CC = {} THEN 0 ELSE Min(CC)
           P == {i \in DOMAIN records : records[i].clean /\ records[i].date >= start}
<1>1. DOMAIN records = 1..Len(records) /\ (\A i \in DOMAIN records : records[i] \in R) /\ R \subseteq Closed
      /\ \A r \in R : \E i \in DOMAIN records : r = records[i]
  BY LenProperties, RangeIs
<1>2. V = VenuesOf(records) BY DEF VenuesOf, Range
<1>3. CC = {c \in cycles : Full(c)}
  <2>1. ASSUME NEW c \in CC PROVE c \in cycles /\ Full(c)
    <3>1. c \in CyclesOf(records) /\ \A v \in V : \E i \in DOMAIN records :
             records[i].venue = v /\ records[i].clean /\ Cycle(records[i].date) = c
      BY <1>2 DEF CompleteCycles
    <3>2. Full(c)
      <4> SUFFICES ASSUME NEW v \in V PROVE \E r \in clean : r.venue = v /\ Cycle(r.date) = c OBVIOUS
      <4>1. PICK i \in DOMAIN records : records[i].venue = v /\ records[i].clean /\ Cycle(records[i].date) = c BY <3>1
      <4> QED BY <1>1, <4>1
    <3>3. PICK i \in DOMAIN records : Cycle(records[i].date) = c BY <3>1 DEF CyclesOf
    <3>4. records[i].venue \in V BY <1>1
    <3>5. PICK r \in clean : Cycle(r.date) = c BY <3>2, <3>4
    <3> QED BY <3>2, <3>5
  <2>2. ASSUME NEW c \in cycles, Full(c) PROVE c \in CC
    <3>1. PICK q \in clean : c = Cycle(q.date) OBVIOUS
    <3>2. PICK j \in DOMAIN records : q = records[j] BY <1>1
    <3>3. c \in CyclesOf(records) BY <3>1, <3>2 DEF CyclesOf
    <3>4. ASSUME NEW v \in VenuesOf(records)
          PROVE  \E i \in DOMAIN records : records[i].venue = v /\ records[i].clean /\ Cycle(records[i].date) = c
      <4>1. PICK r \in clean : r.venue = v /\ Cycle(r.date) = c BY <1>2, <2>2
      <4>2. PICK i \in DOMAIN records : r = records[i] BY <1>1
      <4> QED BY <4>1, <4>2
    <3> QED BY <3>3, <3>4 DEF CompleteCycles
  <2> QED BY <2>1, <2>2
<1>4. \A r \in R : r.date \in Nat BY <1>1 DEF Closed, CostRound
<1>5. CC \subseteq Int
  <2>1. \A r \in R : Cycle(r.date) \in Int
    <3>1. \A d \in Nat : Cycle(d) \in Int
      <4>1. ASSUME NEW d \in Nat, NEW m \in Nat \ {0} PROVE (d \div m) * m \in Int
        <5>1. d \div m \in Int BY <4>1
        <5> QED BY <5>1
      <4> QED BY <4>1, CostAssumption DEF Cycle
    <3> QED BY <1>4, <3>1
  <2> QED BY <1>3, <2>1
<1>6. IsFiniteSet(CC)
  <2> DEFINE f == [r \in R |-> Cycle(r.date)]
  <2>1. IsFiniteSet(R) BY RangeIs
  <2>2. IsFiniteSet({f[r] : r \in R})
    <3>1. DOMAIN f = R OBVIOUS
    <3> HIDE DEF f
    <3> QED BY <2>1, <3>1, ImageSmall
  <2>3. CC \subseteq {f[r] : r \in R}
    <3>1. \A c \in cycles : \E r \in R : c = f[r] OBVIOUS
    <3> QED BY <1>3, <3>1
  <2> QED BY <2>2, <2>3, FS_Subset
<1>7. StableOf(records) = Kept(records, P) BY DEF StableOf
<1>8. P \in SUBSET DOMAIN records OBVIOUS
<1>9. {records[i] : i \in P} = {r \in clean : r.date >= start} BY <1>1
<1>10. \A r \in R : r.date >= start <=> ((\E c \in cycles : Full(c)) => \E c \in cycles : Full(c) /\ c <= r.date)
  <2>1. (\E c \in cycles : Full(c)) <=> CC # {} BY <1>3
  <2>2. \A r : (\E c \in cycles : Full(c) /\ c <= r.date) <=> \E c \in CC : c <= r.date BY <1>3
  <2> HIDE DEF cycles, Full, CC
  <2>3. CASE CC = {} BY <1>4, <2>1, <2>3
  <2>4. CASE CC # {}
    <3>1. Min(CC) \in CC /\ \A c \in CC : Min(CC) <= c BY <1>5, <1>6, <2>4, LeastIs
    <3>2. start = Min(CC) BY <2>4
    <3> HIDE DEF start
    <3>3. \A r \in R : r.date >= start <=> \E c \in CC : c <= r.date
      <4> SUFFICES ASSUME NEW r \in R PROVE r.date >= start <=> \E c \in CC : c <= r.date OBVIOUS
      <4>0. start \in CC BY <3>1, <3>2
      <4>1. start \in Int /\ r.date \in Int BY <1>4, <1>5, <4>0
      <4>2. r.date >= start => start <= r.date BY <4>1
      <4>3. ASSUME NEW c \in CC, c <= r.date PROVE r.date >= start
        <5>1. c \in Int /\ start <= c BY <1>5, <3>1, <3>2
        <5> QED BY <4>1, <4>3, <5>1
      <4> QED BY <4>0, <4>2, <4>3
    <3> QED BY <2>1, <2>2, <2>4, <3>3
  <2> QED BY <2>3, <2>4
<1>11. {r \in clean : r.date >= start} =
       {r \in clean : (\E c \in cycles : Full(c)) => \E c \in cycles : Full(c) /\ c <= r.date}
  <2> HIDE DEF start, Full, cycles
  <2> QED BY <1>10
<1>12. Kept(records, P) \in Seq(Closed) /\ Range(Kept(records, P)) = {records[i] : i \in P}
  <2> HIDE DEF P
  <2> QED BY <1>8, RangeKept
<1>13. Range(StableOf(records)) =
         {r \in clean : (\E c \in cycles : Full(c)) => \E c \in cycles : Full(c) /\ c <= r.date}
  <2> HIDE DEF P, start, Full, cycles, clean
  <2> QED BY <1>7, <1>9, <1>11, <1>12
<1>14. StableOf(records) \in Seq(Closed)
  <2> HIDE DEF P
  <2> QED BY <1>7, <1>12
<1>15. KeptOf(R) = {r \in clean : (\E c \in cycles : Full(c)) => \E c \in cycles : Full(c) /\ c <= r.date}
  BY DEF KeptOf
<1> QED BY <1>13, <1>14, <1>15

\* What both legs cost more than they should have.
LEMMA LegsAre ==
  ASSUME NEW r \in Closed
  PROVE  /\ r.venue \in Nat /\ r.date \in Nat /\ r.taker \in BOOLEAN /\ r.clean \in BOOLEAN
         /\ TotalSlippage(r) \in Int /\ FeesUSD(r) \in Int /\ TradeCost(r) \in Int /\ NetCost(r) \in Int
         /\ r.entry.value \in Nat /\ r.exit.value \in Nat
         /\ CostGap(r) = TotalSlippage(r)
<1> DEFINE e == r.entry
           x == r.exit
           p == e.expected * e.qty
           q == x.expected * x.qty
<1>1. r \in CostRound /\ x.sell = ~e.sell BY DEF Closed
<1>2. e \in CostLeg /\ x \in CostLeg /\ r.venue \in Nat /\ r.date \in Nat /\ r.taker \in BOOLEAN /\ r.clean \in BOOLEAN
  BY <1>1 DEF CostRound
<1>3. /\ e.sell \in BOOLEAN /\ e.qty \in Nat /\ e.value \in Nat /\ e.fee \in Nat /\ e.expected \in Nat
      /\ x.sell \in BOOLEAN /\ x.qty \in Nat /\ x.value \in Nat /\ x.fee \in Nat /\ x.expected \in Nat
  BY <1>2 DEF CostLeg
<1> HIDE DEF e, x
<1>4. p \in Int /\ q \in Int /\ (-e.expected) * e.qty = -p /\ (-x.expected) * x.qty = -q BY <1>3
<1>5. /\ Slippage(e) = IF e.sell THEN p - e.value ELSE e.value - p
      /\ Slippage(x) = IF x.sell THEN q - x.value ELSE x.value - q
  BY DEF Slippage
<1>6. /\ ExpectedLegCost(e) = IF e.sell THEN -p ELSE p
      /\ ExpectedLegCost(x) = IF x.sell THEN -q ELSE q
  BY <1>3, <1>4 DEF ExpectedLegCost
<1> HIDE DEF p, q
<1>7. TotalSlippage(r) = Slippage(e) + Slippage(x) BY DEF TotalSlippage, e, x
<1>8. FeesUSD(r) = e.fee + x.fee BY DEF FeesUSD, e, x
<1>9. TradeCost(r) = (IF e.sell THEN x.value - e.value ELSE e.value - x.value) + FeesUSD(r) BY DEF TradeCost, e, x
<1>10. NetCost(r) = TradeCost(r) - FeesUSD(r) BY DEF NetCost
<1>11. CostGap(r) = TradeCost(r) - (ExpectedLegCost(e) + ExpectedLegCost(x) + FeesUSD(r)) BY DEF CostGap, e, x
<1>12. CASE e.sell
  <2>1. /\ Slippage(e) = p - e.value /\ Slippage(x) = x.value - q
        /\ ExpectedLegCost(e) = -p /\ ExpectedLegCost(x) = q
        /\ TradeCost(r) = x.value - e.value + FeesUSD(r)
    BY <1>1, <1>5, <1>6, <1>9, <1>12
  <2> QED BY <1>2, <1>3, <1>4, <1>7, <1>8, <1>10, <1>11, <2>1 DEF e, x
<1>13. CASE ~e.sell
  <2>1. /\ Slippage(e) = e.value - p /\ Slippage(x) = q - x.value
        /\ ExpectedLegCost(e) = p /\ ExpectedLegCost(x) = -q
        /\ TradeCost(r) = e.value - x.value + FeesUSD(r)
    BY <1>1, <1>5, <1>6, <1>9, <1>13
  <2> QED BY <1>2, <1>3, <1>4, <1>7, <1>8, <1>10, <1>11, <2>1 DEF e, x
<1> QED BY <1>12, <1>13

LEMMA OfVenueIs ==
  ASSUME rounds \in Rounds, NEW v \in StableVenues
  PROVE  OfVenue(v) \in Seq(Closed) /\ OfVenue(v) # <<>> /\ Len(OfVenue(v)) \in Nat \ {0}
<1>1. Stable \in Seq(Closed) BY RecordsAre, StableIs DEF Stable
<1>2. OfVenue(v) \in Seq(Closed) /\ Range(OfVenue(v)) = {r \in Range(Stable) : r.venue = v}
  BY <1>1, OnlyOfIs DEF OfVenue
<1>3. PICK i \in DOMAIN Stable : v = Stable[i].venue BY DEF StableVenues, VenuesOf
<1>4. Stable[i] \in Range(OfVenue(v)) BY <1>2, <1>3 DEF Range
<1>5. PICK j \in 1..Len(OfVenue(v)) : Stable[i] = OfVenue(v)[j] BY <1>2, <1>4, RangeIs
<1>6. Len(OfVenue(v)) \in Nat \ {0} BY <1>2, <1>5, LenProperties
<1> QED BY <1>2, <1>6, Empty

LEMMA MissesAre ==
  ASSUME rounds \in Rounds, NEW v \in StableVenues
  PROVE  Misses(v) \in Seq(Int)
<1> DEFINE all == OfVenue(v)
           P == {i \in DOMAIN all : Comparable(all[i])}
           of == Kept(all, P)
<1>1. all \in Seq(Closed) BY OfVenueIs
<1>2. of \in Seq(Closed)
  <2>1. P \in SUBSET DOMAIN all OBVIOUS
  <2> HIDE DEF P, all
  <2> QED BY <1>1, <2>1, RangeKept
<1>3. Misses(v) = [i \in DOMAIN of |-> MissBps(of[i])] BY DEF Misses
<1> HIDE DEF of
<1>4. \A i \in DOMAIN of : MissBps(of[i]) \in Int
  <2> SUFFICES ASSUME NEW r \in Closed PROVE MissBps(r) \in Int BY <1>2, LenProperties, ElementOfSeq
  <2> DEFINE t == TotalSlippage(r)  w == r.entry.value + r.exit.value
  <2>1. t \in Int /\ w \in Int BY LegsAre
  <2>2. MissBps(r) = (20000 * Max({t, -t})) \div Max({w, 2}) BY DEF MissBps
  <2> HIDE DEF t, w
  <2>3. Max({t, -t}) = IF t >= -t THEN t ELSE -t BY <2>1, MaxOfTwo
  <2>4. Max({w, 2}) = IF w >= 2 THEN w ELSE 2 BY <2>1, MaxOfTwo
  <2>5. 20000 * Max({t, -t}) \in Int /\ Max({w, 2}) \in Nat \ {0} BY <2>1, <2>3, <2>4
  <2> QED BY <2>2, <2>5
<1>5. DOMAIN of = 1..Len(of) /\ Len(of) \in Nat BY <1>2, LenProperties
<1> QED BY <1>3, <1>4, <1>5, SeqDef

LEMMA RoundsAreComparable == CostInv => RoundsComparable
<1> SUFFICES ASSUME CostInv, rounds # Off PROVE RoundsComparable BY DEF RoundsComparable
<1>1. rounds \in Rounds BY DEF CostInv
<1> DEFINE takers == {r \in Range(rounds) : r.taker}
           clean == {r \in takers : r.clean}
           kept == Range(Stable)
           Full(c) == \A v \in {r.venue : r \in takers} : \E r \in clean : r.venue = v /\ Cycle(r.date) = c
           cycles == {Cycle(r.date) : r \in clean}
<1>2. Records \in Seq(Closed) /\ Range(Records) = takers BY <1>1, RecordsAre
<1>3. /\ Stable \in Seq(Closed)
      /\ kept = KeptOf(takers)
  BY <1>2, StableIs DEF Stable
<1>4. \A r \in kept : HasGap(r) => CostGap(r) = TotalSlippage(r)
  <2>1. kept \subseteq Closed BY <1>3, RangeIs
  <2> QED BY <2>1, LegsAre
<1>5. ASSUME NEW v \in StableVenues, Misses(v) # <<>>
      PROVE  /\ 100 * Cardinality({i \in DOMAIN Misses(v) : Misses(v)[i] <= P95(Misses(v))}) >= 95 * Len(Misses(v))
             /\ 100 * Cardinality({i \in DOMAIN Misses(v) : Misses(v)[i] < P95(Misses(v))}) < 95 * Len(Misses(v))
  BY <1>1, <1>5, MissesAre, NearestRank
<1>6. KeptOf(takers) = {r \in clean : (\E c \in cycles : Full(c)) => \E c \in cycles : Full(c) /\ c <= r.date}
  BY DEF KeptOf
<1> QED BY <1>3, <1>4, <1>5, <1>6 DEF RoundsComparable

CostPoint == [date : Int, value : Int]

LEMMA CostLineIs ==
  ASSUME rounds \in Rounds, NEW v \in StableVenues
  PROVE  /\ CostLine(v) \in Seq(CostPoint) /\ Len(CostLine(v)) = Len(OfVenue(v)) /\ Len(CostLine(v)) \in Nat \ {0}
         /\ costView = "cumulative" =>
              CostLine(v)[Len(CostLine(v))].value = SumOf([i \in DOMAIN OfVenue(v) |-> CostValue(OfVenue(v)[i])])
<1> DEFINE of == OfVenue(v)
           n == Len(of)
           values == [i \in DOMAIN of |-> CostValue(of[i])]
           value(i) == IF costView = "cumulative" THEN SumOf(SubSeq(values, 1, i)) ELSE values[i]
           line == CostLine(v)
<1>1. of \in Seq(Closed) /\ n \in Nat \ {0} /\ DOMAIN of = 1..n BY OfVenueIs, LenProperties
<1>2. \A i \in 1..n : of[i] \in Closed BY <1>1, ElementOfSeq
<1>3. line = [i \in DOMAIN of |-> [date |-> of[i].date, value |-> value(i)]] BY DEF CostLine
<1> HIDE DEF of, n, line
<1>4. \A i \in 1..n : CostValue(of[i]) \in Int /\ of[i].date \in Int
  <2> SUFFICES ASSUME NEW r \in Closed PROVE CostValue(r) \in Int /\ r.date \in Int BY <1>2
  <2> QED BY LegsAre DEF CostValue
<1>5. values \in Seq(Int) /\ Len(values) = n /\ DOMAIN values = 1..n /\ \A i \in 1..n : values[i] \in Int
  <2>1. values \in [1..n -> Int] BY <1>1, <1>4
  <2> QED BY <1>1, <2>1, SeqDef, LenProperties
<1> HIDE DEF values
<1>6. \A i \in 1..n : SumOf(SubSeq(values, 1, i)) \in Int
  <2> SUFFICES ASSUME NEW i \in 1..n PROVE SumOf(SubSeq(values, 1, i)) \in Int OBVIOUS
  <2> DEFINE s == SubSeq(values, 1, i)
  <2>1. 1 \in Int /\ i \in Int /\ i \in Nat /\ i - 1 + 1 = i /\ 1 <= i /\ \A k \in 1..i : values[k] \in Int BY <1>1, <1>5
  <2>2. s \in Seq(Int) /\ Len(s) = i
    <3>1. SubSeq(values, 1, i) \in Seq(Int) /\ Len(SubSeq(values, 1, i)) = IF 1 <= i THEN i - 1 + 1 ELSE 0
      BY ONLY <2>1, SubSeqProperties
    <3> QED BY <2>1, <3>1
  <2> HIDE DEF s
  <2>3. \A k \in 1..i : s[k] \in Int BY <2>2, ElementOfSeq, LenProperties
  <2>4. PICK f : Sums(f, s, i) /\ SumOf(s) = f[i] BY <2>1, <2>2, <2>3, SumIs
  <2>5. f[i] \in Int BY <2>1, <2>4 DEF Sums
  <2> QED BY <2>4, <2>5 DEF s
<1>7. \A i \in 1..n : value(i) \in Int BY <1>5, <1>6
<1>8. SubSeq(values, 1, n) = values BY <1>5, SubSeqFull
<1>9. costView = "cumulative" => value(n) = SumOf(values) BY <1>8
<1> HIDE DEF value
<1>10. line \in [1..n -> CostPoint] BY <1>1, <1>3, <1>4, <1>7 DEF CostPoint
<1>11. line \in Seq(CostPoint) /\ Len(line) = n BY <1>1, <1>10, SeqDef, LenProperties
<1>12. line[n].value = value(n)
  <2>1. n \in DOMAIN of BY <1>1
  <2> QED BY <1>3, <2>1
<1> QED BY <1>1, <1>9, <1>11, <1>12 DEF of, n, line, values

\* What is visible of a line is at least half of it.
LEMMA CostVisibleIs ==
  ASSUME rounds \in Rounds, NEW v \in StableVenues
  PROVE  CostVisible(v) \in Seq(CostPoint) /\ 2 * Len(CostVisible(v)) >= Len(CostLine(v))
<1> DEFINE line == CostLine(v)
<1>1. line \in Seq(CostPoint) /\ Len(line) \in Nat BY CostLineIs
<1> HIDE DEF line
<1>2. \A x \in CostPoint : x.value \in Int BY DEF CostPoint
<1>3. 2 * Len(WithoutCostOutliers(line)) >= Len(line) BY <1>1, <1>2, HalfLeft
<1>4. WithoutCostOutliers(line) \in Seq(CostPoint)
  <2> DEFINE good == {i \in DOMAIN line : ~CostOutlier(line[i].value, Ascending(CostValues(line)))}
  <2>1. WithoutCostOutliers(line) = IF Len(line) < OutlierMin THEN line ELSE Kept(line, good)
    BY DEF WithoutCostOutliers
  <2>2. good \in SUBSET DOMAIN line OBVIOUS
  <2> HIDE DEF good
  <2>3. Kept(line, good) \in Seq(CostPoint) BY <1>1, <2>2, RangeKept
  <2> QED BY <1>1, <2>1, <2>3
<1>5. CostVisible(v) = line \/ CostVisible(v) = WithoutCostOutliers(line) BY DEF CostVisible, line
<1>6. 2 * Len(line) >= Len(line) BY <1>1
<1> QED BY <1>1, <1>3, <1>4, <1>5, <1>6 DEF line

\* A rolling median lies between two of the values it is of.
LEMMA MedianWithin ==
  ASSUME NEW line \in Seq(CostPoint), NEW i \in DOMAIN line
  PROVE  /\ RollingMedian(line)[i].value \in Int
         /\ \E j, k \in Max({1, i - RollingPoints + 1})..i :
              4 * line[j].value <= RollingMedian(line)[i].value /\ RollingMedian(line)[i].value <= 4 * line[k].value
<1> DEFINE lo == Max({1, i - RollingPoints + 1})
           part == SubSeq(line, lo, i)
           values == CostValues(part)
           m == i - lo + 1
           sorted == Ascending(values)
<1>1. DOMAIN line = 1..Len(line) /\ Len(line) \in Nat /\ i \in 1..Len(line) BY LenProperties
<1>2. lo \in 1..i
  <2>1. i - RollingPoints + 1 \in Int /\ i - RollingPoints + 1 <= i /\ 1 \in Int BY <1>1, CostAssumption
  <2>2. Max({1, i - RollingPoints + 1}) = IF 1 >= i - RollingPoints + 1 THEN 1 ELSE i - RollingPoints + 1
    BY ONLY <2>1, MaxOfTwo
  <2> QED BY <1>1, <2>1, <2>2
<1> HIDE DEF lo
<1>3. m \in Nat \ {0} BY <1>1, <1>2
<1>4. part \in Seq(CostPoint) /\ Len(part) = m /\ \A k \in 1..m : part[k] = line[lo + k - 1]
  <2>1. lo \in Int /\ i \in Int /\ lo <= i /\ \A k \in lo..i : line[k] \in CostPoint BY <1>1, <1>2, ElementOfSeq
  <2>2. SubSeq(line, lo, i) \in Seq(CostPoint) /\ Len(SubSeq(line, lo, i)) = (IF lo <= i THEN i - lo + 1 ELSE 0)
        /\ \A k \in 1..i - lo + 1 : SubSeq(line, lo, i)[k] = line[lo + k - 1]
    BY ONLY <2>1, SubSeqProperties
  <2> QED BY <2>1, <2>2
<1>5. RollingMedian(line)[i].value = Quantile(sorted, 2) BY DEF RollingMedian, Median, lo
<1> HIDE DEF part
<1>6. values \in Seq(Int) /\ Len(values) = m /\ \A k \in 1..m : values[k] = part[k].value
  <2>1. DOMAIN part = 1..m BY <1>4, LenProperties
  <2>2. values = [k \in 1..m |-> part[k].value] BY <2>1 DEF CostValues
  <2>3. \A k \in 1..m : part[k].value \in Int
    <3>1. \A k \in 1..m : part[k] \in CostPoint BY <1>4, <2>1, ElementOfSeq
    <3> QED BY <3>1 DEF CostPoint
  <2>4. values \in [1..m -> Int] BY <2>2, <2>3
  <2> QED BY <1>3, <2>2, <2>4, SeqDef, LenProperties
<1> HIDE DEF values
<1>7. PICK order : Ordered(sorted, values, m, order) BY <1>6, AscendingIs
<1> HIDE DEF sorted, m
<1>8. /\ Quantile(sorted, 2) \in Int
      /\ \E a, b \in 1..m : 4 * sorted[a] <= Quantile(sorted, 2) /\ Quantile(sorted, 2) <= 4 * sorted[b]
  BY <1>3, <1>7, QuantileBetween
<1>9. PICK a \in 1..m, b \in 1..m : 4 * sorted[a] <= Quantile(sorted, 2) /\ Quantile(sorted, 2) <= 4 * sorted[b] BY <1>8
<1>10. ASSUME NEW c \in 1..m PROVE lo + order[c] - 1 \in lo..i /\ sorted[c] = line[lo + order[c] - 1].value
  <2>1. order[c] \in 1..m /\ sorted[c] = values[order[c]] BY <1>7 DEF Ordered
  <2>2. \A o \in 1..i - lo + 1 : lo + o - 1 \in lo..i BY <1>1, <1>2
  <2>3. lo + order[c] - 1 \in lo..i BY <2>1, <2>2 DEF m
  <2> QED BY <1>4, <1>6, <2>1, <2>3
<1> QED BY <1>5, <1>8, <1>9, <1>10 DEF lo

\* What the points of a line are drawn as is finitely much.
LEMMA DrawnValues ==
  ASSUME NEW f \in [CostPoint -> Int], NEW line \in Seq(CostPoint)
  PROVE  IsFiniteSet({f[p] : p \in Range(line)}) /\ {f[p] : p \in Range(line)} \subseteq Int
<1> DEFINE g == [p \in Range(line) |-> f[p]]
<1>1. Range(line) \subseteq CostPoint /\ IsFiniteSet(Range(line)) BY RangeIs
<1>2. DOMAIN g = Range(line) /\ {g[p] : p \in Range(line)} = {f[p] : p \in Range(line)} OBVIOUS
<1>3. {f[p] : p \in Range(line)} \subseteq Int BY <1>1
<1> HIDE DEF g
<1> QED BY <1>1, <1>2, <1>3, ImageSmall

LEMMA TrendIs ==
  ASSUME NEW line \in Seq(CostPoint)
  PROVE  RollingMedian(line) \in Seq(CostPoint)
<1>1. DOMAIN line = 1..Len(line) /\ Len(line) \in Nat /\ \A i \in DOMAIN line : line[i] \in CostPoint
  BY LenProperties, ElementOfSeq
<1>2. \A i \in DOMAIN line : RollingMedian(line)[i].value \in Int BY MedianWithin
<1>3. RollingMedian(line) = [i \in DOMAIN line |-> [date |-> line[i].date, value |-> RollingMedian(line)[i].value]]
  BY DEF RollingMedian
<1>4. \A i \in DOMAIN line : [date |-> line[i].date, value |-> RollingMedian(line)[i].value] \in CostPoint
  BY <1>1, <1>2 DEF CostPoint
<1>5. RollingMedian(line) \in [1..Len(line) -> CostPoint]
  <2>1. ASSUME NEW r, r = [i \in DOMAIN line |-> [date |-> line[i].date, value |-> r[i].value]],
               \A i \in DOMAIN line : [date |-> line[i].date, value |-> r[i].value] \in CostPoint
        PROVE  r \in [1..Len(line) -> CostPoint]
    BY <1>1, <2>1
  <2> QED BY ONLY <1>3, <1>4, <2>1
<1> QED BY <1>1, <1>5, SeqDef

LEMMA MarkValues ==
  ASSUME rounds \in Rounds
  PROVE  {m.value : m \in AllCostMarks} \subseteq Int /\ IsFiniteSet({m.value : m \in AllCostMarks})
<1> DEFINE times4 == [p \in CostPoint |-> 4 * p.value]
           once == [p \in CostPoint |-> p.value]
           Heights(v) == {times4[p] : p \in Range(CostVisible(v))}
                          \cup {once[p] : p \in Range(RollingMedian(CostVisible(v)))}
           every == UNION {Heights(v) : v \in StableVenues}
<1>1. times4 \in [CostPoint -> Int] /\ once \in [CostPoint -> Int] BY DEF CostPoint
<1>2. /\ \A p \in CostPoint : times4[p] = 4 * p.value /\ once[p] = p.value
  OBVIOUS
<1> HIDE DEF times4, once
<1>3. ASSUME NEW v \in StableVenues
      PROVE  /\ CostVisible(v) \in Seq(CostPoint) /\ RollingMedian(CostVisible(v)) \in Seq(CostPoint)
             /\ IsFiniteSet(Heights(v)) /\ Heights(v) \subseteq Int
  <2>1. CostVisible(v) \in Seq(CostPoint) BY CostVisibleIs
  <2>2. RollingMedian(CostVisible(v)) \in Seq(CostPoint) BY <2>1, TrendIs
  <2>3. /\ IsFiniteSet({times4[p] : p \in Range(CostVisible(v))})
        /\ {times4[p] : p \in Range(CostVisible(v))} \subseteq Int
    BY <1>1, <2>1, DrawnValues
  <2>4. /\ IsFiniteSet({once[p] : p \in Range(RollingMedian(CostVisible(v)))})
        /\ {once[p] : p \in Range(RollingMedian(CostVisible(v)))} \subseteq Int
    BY <1>1, <2>2, DrawnValues
  <2> QED BY <2>1, <2>2, <2>3, <2>4, FS_Union
<1>4. IsFiniteSet(StableVenues)
  <2> DEFINE f == [r \in Range(Stable) |-> r.venue]
  <2>1. Stable \in Seq(Closed) BY RecordsAre, StableIs DEF Stable
  <2>2. IsFiniteSet(Range(Stable)) BY <2>1, RangeIs
  <2>3. DOMAIN f = Range(Stable) /\ {f[r] : r \in Range(Stable)} = StableVenues BY DEF StableVenues, VenuesOf, Range
  <2> HIDE DEF f
  <2> QED BY <2>2, <2>3, ImageSmall
<1>5. IsFiniteSet(every) /\ every \subseteq Int
  <2> DEFINE g == [v \in StableVenues |-> Heights(v)]
  <2>1. DOMAIN g = StableVenues /\ {g[v] : v \in StableVenues} = {Heights(v) : v \in StableVenues} OBVIOUS
  <2> HIDE DEF g, Heights
  <2>2. IsFiniteSet({Heights(v) : v \in StableVenues}) BY <1>4, <2>1, ImageSmall
  <2>3. (\A T \in {Heights(v) : v \in StableVenues} : IsFiniteSet(T)) /\ every \subseteq Int
    BY <1>3
  <2> QED BY <2>2, <2>3, FS_UNION
<1>6. {m.value : m \in AllCostMarks} \subseteq every
  <2> SUFFICES ASSUME NEW v \in StableVenues, NEW m \in CostMarks(v) PROVE m.value \in Heights(v) BY DEF AllCostMarks
  <2>1. Range(CostVisible(v)) \subseteq CostPoint /\ Range(RollingMedian(CostVisible(v))) \subseteq CostPoint
    BY <1>3, RangeIs
  <2>2. \/ \E p \in Range(CostVisible(v)) : m = [venue |-> v, date |-> p.date, value |-> 4 * p.value]
        \/ \E p \in Range(RollingMedian(CostVisible(v))) : m = [venue |-> v, date |-> p.date, value |-> p.value]
    BY DEF CostMarks
  <2>3. \/ \E p \in Range(CostVisible(v)) : m.value = 4 * p.value
        \/ \E p \in Range(RollingMedian(CostVisible(v))) : m.value = p.value
    BY <2>2
  <2> QED BY <1>2, <2>1, <2>3
<1> HIDE DEF every
<1> QED BY <1>5, <1>6, FS_Subset

\* All the values and 0 are within their domain.
LEMMA DomainHolds ==
  ASSUME NEW S \in SUBSET Int, IsFiniteSet(S)
  PROVE  /\ \A x \in S : 100 * x \in CostDomain(S).low..CostDomain(S).high
         /\ CostDomain(S).low <= 0 /\ CostDomain(S).high >= 0
<1> DEFINE low == Min(S \cup {0})
           high == Max(S \cup {0})
           spans == {high - low, high, -low, 1}
           pad == Max(spans)
<1>1. S \cup {0} \in SUBSET Int /\ IsFiniteSet(S \cup {0}) /\ S \cup {0} # {} BY FS_AddElement
<1>2. low \in Int /\ low <= 0 /\ \A x \in S : low <= x BY <1>1, LeastIs
<1>3. high \in Int /\ high >= 0 /\ \A x \in S : high >= x BY <1>1, GreatestIs
<1>4. CostDomain(S) = [low |-> 100 * low - 16 * pad, high |-> 100 * high + 16 * pad] BY DEF CostDomain
<1> HIDE DEF low, high
<1>5. pad \in Int /\ pad >= 1
  <2>1. spans \in SUBSET Int /\ 1 \in spans BY <1>2, <1>3
  <2>2. IsFiniteSet(spans)
    <3>1. IsFiniteSet({1}) BY FS_Singleton
    <3>2. IsFiniteSet({1} \cup {-low}) BY <3>1, FS_AddElement
    <3>3. IsFiniteSet(({1} \cup {-low}) \cup {high}) BY <3>2, FS_AddElement
    <3>4. IsFiniteSet((({1} \cup {-low}) \cup {high}) \cup {high - low}) BY <3>3, FS_AddElement
    <3>5. spans = (({1} \cup {-low}) \cup {high}) \cup {high - low} OBVIOUS
    <3> QED BY <3>4, <3>5
  <2> HIDE DEF spans
  <2>3. spans # {} BY <2>1
  <2> QED BY <2>1, <2>2, <2>3, GreatestIs
<1> HIDE DEF pad
<1>6. CostDomain(S).low = 100 * low - 16 * pad /\ CostDomain(S).high = 100 * high + 16 * pad BY <1>4
<1>7. \A x \in S : x \in Int OBVIOUS
<1>8. ASSUME NEW x \in S PROVE 100 * x \in (100 * low - 16 * pad)..(100 * high + 16 * pad)
  <2>1. x \in Int /\ low <= x /\ high >= x BY <1>2, <1>3
  <2> QED BY <1>2, <1>3, <1>5, <2>1
<1> QED BY <1>2, <1>3, <1>5, <1>6, <1>8

LEMMA CostLinesAreTrue == CostInv => CostLinesTrue
<1> SUFFICES ASSUME CostInv, rounds # Off PROVE CostLinesTrue BY DEF CostLinesTrue
<1>1. rounds \in Rounds BY DEF CostInv
<1>2. ASSUME NEW v \in StableVenues, costView = "cumulative"
      PROVE  CostVisible(v)[Len(CostVisible(v))].value = SumOf([i \in DOMAIN OfVenue(v) |-> CostValue(OfVenue(v)[i])])
  <2>1. CostVisible(v) = CostLine(v) BY <1>2 DEF CostVisible
  <2>2. CostLine(v)[Len(CostLine(v))].value = SumOf([i \in DOMAIN OfVenue(v) |-> CostValue(OfVenue(v)[i])])
    BY <1>1, <1>2, CostLineIs
  <2> QED BY <2>1, <2>2
<1>3. ASSUME NEW v \in StableVenues PROVE 2 * Len(CostVisible(v)) >= Len(CostLine(v))
  BY <1>1, <1>3, CostVisibleIs
<1>4. ASSUME NEW v \in StableVenues, NEW i \in DOMAIN RollingMedian(CostVisible(v))
      PROVE  \E j, k \in Max({1, i - RollingPoints + 1})..i :
               /\ 4 * CostVisible(v)[j].value <= RollingMedian(CostVisible(v))[i].value
               /\ RollingMedian(CostVisible(v))[i].value <= 4 * CostVisible(v)[k].value
  <2>1. CostVisible(v) \in Seq(CostPoint) BY <1>1, CostVisibleIs
  <2>2. i \in DOMAIN CostVisible(v) BY DEF RollingMedian
  <2> QED BY <2>1, <2>2, MedianWithin
<1>5. LET S == {m.value : m \in AllCostMarks} IN
      /\ \A x \in S : 100 * x \in CostDomain(S).low..CostDomain(S).high
      /\ CostDomain(S).low <= 0 /\ CostDomain(S).high >= 0
  BY <1>1, MarkValues, DomainHolds
<1> QED BY <1>2, <1>3, <1>4, <1>5 DEF CostLinesTrue

LEMMA StepKeepsCosts == CostInv /\ [PanelNext]_panelVars => CostInv'
<1> SUFFICES ASSUME CostInv, [PanelNext]_panelVars PROVE CostInv' OBVIOUS
<1>1. viewed' = viewed BY DEF PanelNext, panelVars
<1>2. CASE UNCHANGED costVars BY <1>1, <1>2 DEF CostInv, costVars
<1>3. CASE viewed = "cost" /\ CostNext
  BY <1>1, <1>3 DEF CostInv, CostNext, ReceiveRounds, SetCostMode, SetCostView, SetCostDisplay,
                    ToggleCostOutliers, HoverCost, LeaveCost
<1> QED BY <1>2, <1>3 DEF PanelNext, panelVars

\* Whatever the rounds and the settings: CostsTrue.
THEOREM CostsAlwaysTrue == PanelSpec => []CostsTrue
<1>1. PanelInit => CostInv BY DEF PanelInit, CostInit, CostOff, CostInv
<1>2. CostInv => CostsTrue BY RoundsAreComparable, CostLinesAreTrue DEF CostsTrue
<1> QED BY <1>1, <1>2, StepKeepsCosts, PTL DEF PanelSpec

-----------------------------------------------------------------------------
(* The trend                                                               *)

LatencyPoint == [date : Nat, ms : Nat]
TrendPointSet == [date : Int, ms : Int, lower : Int, upper : Int]

\* In the order of their dates.
Chronological(points) ==
  /\ points \in Seq(LatencyPoint)
  /\ \A i, j \in 1..Len(points) : i <= j => points[i].date <= points[j].date

LEMMA PointsOf ==
  ASSUME NEW points \in Seq(LatencyPoint)
  PROVE  /\ DOMAIN points = 1..Len(points) /\ Len(points) \in Nat
         /\ \A i \in 1..Len(points) : points[i] \in LatencyPoint /\ points[i].date \in Nat /\ points[i].ms \in Nat
<1>1. DOMAIN points = 1..Len(points) /\ Len(points) \in Nat BY LenProperties
<1>2. \A i \in 1..Len(points) : points[i] \in LatencyPoint BY ElementOfSeq
<1>3. \A p \in LatencyPoint : p.date \in Nat /\ p.ms \in Nat BY DEF LatencyPoint
<1> QED BY <1>1, <1>2, <1>3

\* A filter leaves the order.
LEMMA ChronologicalKept ==
  ASSUME NEW points, Chronological(points), NEW places \in SUBSET DOMAIN points
  PROVE  Chronological(Kept(points, places))
<1> DEFINE t == Kept(points, places)
           n == Cardinality(places)
<1>1. points \in Seq(LatencyPoint) BY DEF Chronological
<1>2. t \in Seq(LatencyPoint) BY <1>1, Keeping
<1>3. PICK order : Taken(t, points, places, order) /\ \A k, l \in 1..n : k < l => order[k] < order[l] BY <1>1, Keeping
<1> HIDE DEF t, n
<1>4. Len(t) = n /\ order \in [1..n -> places] /\ \A k \in 1..n : t[k] = points[order[k]] BY <1>3 DEF Taken, Picks, n
<1>5. DOMAIN points = 1..Len(points) /\ Len(points) \in Nat BY <1>1, PointsOf
<1>6. n \in Nat BY <1>2, <1>4, LenProperties
<1>7. ASSUME NEW k \in 1..n, NEW l \in 1..n, k <= l PROVE t[k].date <= t[l].date
  <2>1. order[k] \in 1..Len(points) /\ order[l] \in 1..Len(points) BY <1>4, <1>5
  <2>2. order[k] <= order[l]
    <3>1. k = l \/ k < l BY <1>6, <1>7
    <3>2. \A a, b \in 1..Len(points) : a = b \/ a < b => a <= b BY <1>5
    <3> QED BY <1>3, <2>1, <3>1, <3>2
  <2>3. points[order[k]].date <= points[order[l]].date BY <2>1, <2>2 DEF Chronological
  <2> QED BY <1>4, <2>3
<1> QED BY <1>2, <1>4, <1>7 DEF Chronological, t

\* The samples of one of the forms are drawn at a time and with a latency.
LEMMA PointIs ==
  ASSUME answer \in Answers, NEW i \in DOMAIN answer.rows
  PROVE  Point(i) \in LatencyPoint /\ (Drawn(i) => Point(i).ms > 0)
<1> DEFINE r == answer.rows[i]
           s == InForm(answer.form, r)
<1>1. StoredRow(r) /\ answer.form \in Forms BY ChartAssumption
<1>0. StoredRow(r) BY <1>1
<1> HIDE DEF r
<1>2. PlotDate(s) = PlotDate(LatencyForm(r)) /\ ConfirmSample(s, FALSE) = ConfirmSample(LatencyForm(r), FALSE)
  <2>1. FormsAgree(r) BY <1>1, FormsAlwaysAgree
  <2>2. Seen(s, FALSE) = Seen(LatencyForm(r), FALSE) BY <1>1, <2>1 DEF FormsAgree
  <2>3. \A q : Seen(q, FALSE).confirm = ConfirmSample(q, FALSE) /\ Seen(q, FALSE).date = PlotDate(q) BY DEF Seen
  <2> QED BY <2>2, <2>3
<1>3. PlotDate(LatencyForm(r)) \in Nat
  <2>1. LatencyForm(r).plot = IF r.scheduled > 0 THEN r.scheduled ELSE IF r.sent > 0 THEN r.sent ELSE r.completed
    BY Zenon DEF LatencyForm
  <2>2. r.scheduled \in Nat /\ r.sent \in Nat /\ r.completed \in Nat \ {0} BY <1>0, Zenon DEF StoredRow
  <2> QED BY <2>1, <2>2 DEF PlotDate
<1>4. ConfirmSample(LatencyForm(r), FALSE) \in Nat
  <2>1. /\ LatencyForm(r).confirm = ConfirmNS(r) /\ LatencyForm(r).raw = 0 /\ LatencyForm(r).network = 0
        /\ LatencyForm(r).adjusted = 0 /\ LatencyForm(r).bump = 0 /\ LatencyForm(r).extended = r.extended
    BY Zenon DEF LatencyForm
  <2>2. \A a, b \in Int : Max0(a - b) \in Nat BY DEF Max0
  <2>3. r.network \in Nat /\ r.bump \in Nat /\ r.legacy \in BOOLEAN /\ r.extended \in BOOLEAN BY <1>0, Zenon DEF StoredRow
  <2>4. EffectiveBump(r) \in Nat BY <2>3 DEF EffectiveBump, Max0
  <2>5. Raw(r) \in Nat /\ Adjusted(r) \in Nat BY <2>2, <2>3, <2>4 DEF Raw, Adjusted
  <2>6. ConfirmNS(r) \in Nat BY <2>2, <2>3, <2>4, <2>5 DEF ConfirmNS
  <2>7. AdjustedNetwork(LatencyForm(r)) \in Nat
    <3>1. RawNetwork(LatencyForm(r)) = 0 BY <2>1 DEF RawNetwork
    <3>2. EffectiveBump(LatencyForm(r)) \in Nat BY <2>1, <2>3 DEF EffectiveBump, Max0
    <3> QED BY <2>1, <2>2, <3>1, <3>2 DEF AdjustedNetwork
  <2> QED BY <2>1, <2>6, <2>7 DEF ConfirmSample, Floored
<1>5. Point(i) = [date |-> PlotDate(s), ms |-> ConfirmSample(s, FALSE)] BY DEF Point, Sample, r
<1>6. Drawn(i) => ConfirmSample(s, FALSE) > 0 BY DEF Drawn, Sample, r
<1> HIDE DEF s
<1>7. \A a, b \in Nat : [date |-> a, ms |-> b] \in LatencyPoint /\ [date |-> a, ms |-> b].ms = b BY DEF LatencyPoint
<1>8. PlotDate(s) \in Nat /\ ConfirmSample(s, FALSE) \in Nat BY <1>2, <1>3, <1>4
<1> QED BY <1>5, <1>6, <1>7, <1>8

\* The date is that of the sample, whatever the form.
LEMMA DateOfPoint ==
  ASSUME answer \in Answers, NEW i \in DOMAIN answer.rows
  PROVE  Point(i).date = PlotDate(LatencyForm(answer.rows[i]))
<1> DEFINE r == answer.rows[i]
           s == InForm(answer.form, r)
<1>1. StoredRow(r) /\ answer.form \in Forms BY ChartAssumption
<1> HIDE DEF r
<1>2. FormsAgree(r) BY <1>1, FormsAlwaysAgree
<1>3. Seen(s, FALSE) = Seen(LatencyForm(r), FALSE) BY <1>1, <1>2 DEF FormsAgree
<1>4. \A q : Seen(q, FALSE).date = PlotDate(q) BY DEF Seen
<1>5. PlotDate(s) = PlotDate(LatencyForm(r)) BY <1>3, <1>4
<1>6. Point(i).date = PlotDate(s) BY DEF Point, Sample, r
<1> QED BY <1>5, <1>6 DEF r

\* What a series is made of.
MadeOfSamples(points, key) ==
  \A k \in 1..Len(points) : \E i \in DOMAIN answer.rows : Drawn(i) /\ SeriesKey(i) = key /\ points[k] = Point(i)

LEMMA SeriesIs ==
  ASSUME answer \in Answers, NEW key
  PROVE  /\ Chronological(SeriesPoints(key)) /\ MadeOfSamples(SeriesPoints(key), key)
         /\ Len(SeriesPoints(key)) = Cardinality({i \in DOMAIN answer.rows : Drawn(i) /\ SeriesKey(i) = key})
<1> DEFINE rows == [i \in DOMAIN answer.rows |-> Point(i)]
           P == {i \in DOMAIN answer.rows : Drawn(i) /\ SeriesKey(i) = key}
           of == Kept(rows, P)
           score == [n \in DOMAIN of |-> of[n].date]
           n == Len(of)
<1>1. rows \in Seq(LatencyPoint)
  <2>1. DOMAIN answer.rows = 1..Len(answer.rows) /\ Len(answer.rows) \in Nat BY ChartAssumption
  <2>2. \A i \in DOMAIN answer.rows : Point(i) \in LatencyPoint BY PointIs
  <2>3. rows \in [1..Len(answer.rows) -> LatencyPoint] BY <2>1, <2>2
  <2> QED BY <2>1, <2>3, SeqDef
<1>2. P \in SUBSET DOMAIN rows /\ DOMAIN rows = DOMAIN answer.rows OBVIOUS
<1>3. \A i \in P : rows[i] = Point(i) OBVIOUS
<1> HIDE DEF rows, P
<1>4. of \in Seq(LatencyPoint) /\ Len(of) = Cardinality(P) /\ Range(of) = {rows[i] : i \in P} BY <1>1, <1>2, RangeKept
<1>5. SeriesPoints(key) = SortedBy(of, score) BY DEF SeriesPoints, rows, P
<1> HIDE DEF of, n
<1>6. DOMAIN of = 1..n /\ n \in Nat /\ \A i \in 1..n : of[i].date \in Nat BY <1>4, PointsOf DEF n
<1>7. \A i \in DOMAIN of : score[i] \in Int /\ score[i] = of[i].date BY <1>6
<1> HIDE DEF score
<1> DEFINE s == SortedBy(of, score)
<1>8. s \in Seq(LatencyPoint) /\ Len(s) = n BY <1>4, <1>7, Sorting DEF n
<1>9. PICK order : /\ Taken(s, of, DOMAIN of, order)
                   /\ \A k, l \in 1..n : k < l => \/ score[order[k]] < score[order[l]]
                                                  \/ score[order[k]] = score[order[l]] /\ order[k] < order[l]
  <2>1. \E order : /\ Taken(SortedBy(of, score), of, DOMAIN of, order)
                   /\ \A k, l \in 1..Len(of) : k < l =>
                        \/ score[order[k]] < score[order[l]]
                        \/ score[order[k]] = score[order[l]] /\ order[k] < order[l]
    BY <1>4, <1>7, Sorting
  <2> QED BY <2>1 DEF n
<1>10. Cardinality(DOMAIN of) = n BY <1>4, Places DEF n
<1> HIDE DEF s
<1>11. order \in [1..n -> 1..n] /\ \A k \in 1..n : s[k] = of[order[k]] BY <1>6, <1>9, <1>10 DEF Taken, Picks
<1>12. ASSUME NEW k \in 1..n, NEW l \in 1..n, k <= l PROVE s[k].date <= s[l].date
  <2>1. order[k] \in 1..n /\ order[l] \in 1..n BY <1>11
  <2>2. of[order[k]].date \in Nat /\ of[order[l]].date \in Nat BY <1>6, <2>1
  <2>3. score[order[k]] = of[order[k]].date /\ score[order[l]] = of[order[l]].date BY <1>6, <1>7, <2>1
  <2>4. k = l \/ k < l BY <1>6, <1>12
  <2>5. of[order[k]].date = of[order[l]].date \/ of[order[k]].date < of[order[l]].date BY <1>9, <2>3, <2>4
  <2>6. \A a, b \in Nat : a = b \/ a < b => a <= b OBVIOUS
  <2>7. of[order[k]].date <= of[order[l]].date BY ONLY <2>2, <2>5, <2>6
  <2> QED BY <1>11, <2>7
<1>13. ASSUME NEW k \in 1..n
       PROVE  \E i \in DOMAIN answer.rows : Drawn(i) /\ SeriesKey(i) = key /\ s[k] = Point(i)
  <2>1. order[k] \in 1..n /\ s[k] = of[order[k]] BY <1>11
  <2>2. s[k] \in Range(of) BY <1>6, <2>1 DEF Range
  <2>3. PICK i \in P : s[k] = rows[i] BY <1>4, <2>2
  <2> QED BY <1>3, <2>3 DEF P
<1> QED BY <1>4, <1>5, <1>8, <1>12, <1>13 DEF Chronological, MadeOfSamples, s, P, n

\* Hiding the outliers leaves at least three quarters of a series.
LEMMA ThreeQuartersLeft ==
  ASSUME NEW line \in Seq(LatencyPoint), \A i \in 1..Len(line) : line[i].ms > 0
  PROVE  4 * Len(WithoutUpperOutliers(line)) >= 3 * Len(line)
<1> DEFINE n == Len(line)
           values == Values(line)
<1>1. n \in Nat /\ DOMAIN line = 1..n /\ \A i \in 1..n : line[i].ms \in Nat BY PointsOf
<1>2. CASE n < OutlierMin \/ n = 0
  <2>1. CASE n < OutlierMin BY <1>1, <2>1 DEF WithoutUpperOutliers
  <2>2. CASE n = 0 /\ ~(n < OutlierMin)
    <3> DEFINE good == {i \in DOMAIN line : ~UpperOutlier(line[i], Ascending(values))}
    <3>1. WithoutUpperOutliers(line) = Kept(line, good) BY <2>2 DEF WithoutUpperOutliers
    <3>2. good \in SUBSET DOMAIN line OBVIOUS
    <3> HIDE DEF good
    <3>3. Kept(line, good) \in Seq(LatencyPoint) BY <3>2, RangeKept
    <3>4. Len(WithoutUpperOutliers(line)) \in Nat BY <3>1, <3>3, LenProperties
    <3> QED BY <2>2, <3>4
  <2> QED BY <1>2, <2>1, <2>2
<1>3. CASE ~(n < OutlierMin) /\ n # 0
  <2> DEFINE sorted == Ascending(values)
             good == {i \in DOMAIN line : ~UpperOutlier(line[i], sorted)}
             bad == {i \in 1..n : UpperOutlier(line[i], sorted)}
  <2>1. WithoutUpperOutliers(line) = Kept(line, good) BY <1>3 DEF WithoutUpperOutliers
  <2>2. good = (1..n) \ bad /\ good \in SUBSET DOMAIN line BY <1>1
  <2> HIDE DEF good, bad
  <2>3. Len(Kept(line, good)) = Cardinality(good) BY <2>2, RangeKept
  <2>4. values \in Seq(Int) /\ Len(values) = n /\ \A i \in 1..n : values[i] = line[i].ms
    <3>1. values = [i \in 1..n |-> line[i].ms] BY <1>1 DEF Values
    <3>2. values \in [1..n -> Int] BY <1>1, <3>1
    <3> QED BY <1>1, <3>1, <3>2, SeqDef, LenProperties
  <2> HIDE DEF values
  <2>5. PICK order : Ordered(sorted, values, n, order) BY <2>4, AscendingIs
  <2> HIDE DEF sorted, n
  <2> DEFINE q1 == Quantile(sorted, 1)  q3 == Quantile(sorted, 3)  d == n \div 4  K == n - d + 1..n
  <2>6. Framed(n, sorted, q1, q3) BY <1>3, <2>5, QuarterIsEnough
  <2>7. /\ d \in Nat /\ 4 * d <= n /\ d + 1 \in 1..n /\ n - d \in 1..n
        /\ q1 \in Int /\ q3 \in Int /\ q1 <= q3
        /\ 8 * sorted[n - d] <= 5 * q3 - 3 * q1
    BY <2>6 DEF Framed
  <2>8. /\ order \in [1..n -> 1..n] /\ \A k \in 1..n : sorted[k] = values[order[k]] /\ sorted[k] \in Int
        /\ \A k, l \in 1..n : k <= l => sorted[k] <= sorted[l]
    BY <2>5 DEF Ordered
  <2>9. \A k \in 1..n : sorted[k] = line[order[k]].ms /\ sorted[k] > 0 BY <2>4, <2>8 DEF n
  <2>10. q3 > 0
    <3>1. PICK a \in 1..n : 4 * sorted[a] <= q3 BY <1>3, <2>5, QuantileBetween
    <3>2. sorted[a] > 0 /\ sorted[a] \in Int BY <2>8, <2>9
    <3>3. \A x, q \in Int : x > 0 /\ 4 * x <= q => q > 0 OBVIOUS
    <3> HIDE DEF q3
    <3> QED BY ONLY <2>7, <3>1, <3>2, <3>3
  <2> HIDE DEF d
  <2>11. ASSUME NEW k \in 1..n, order[k] \in bad PROVE k \in K
    <3>1. order[k] \in 1..n /\ UpperOutlier(line[order[k]], sorted) BY <2>11 DEF bad
    <3>2. IF q3 > q1 THEN 8 * sorted[k] > 5 * q3 - 3 * q1 ELSE 4 * sorted[k] > 3 * q3
      BY <2>9, <3>1 DEF UpperOutlier
    <3> HIDE DEF q1, q3
    <3>3. \A x, a, b \in Int : a <= b /\ b > 0 /\ (IF b > a THEN 8 * x > 5 * b - 3 * a ELSE 4 * x > 3 * b)
                               => 8 * x > 5 * b - 3 * a
      OBVIOUS
    <3>4. sorted[k] \in Int /\ sorted[n - d] \in Int BY <2>7, <2>8
    <3>5. 8 * sorted[k] > 5 * q3 - 3 * q1 BY ONLY <2>7, <2>10, <3>2, <3>3, <3>4
    <3>6. \A x, y, z \in Int : 8 * x > z /\ 8 * y <= z => ~(x <= y) OBVIOUS
    <3>7. 5 * q3 - 3 * q1 \in Int BY <2>7
    <3>8. ~(sorted[k] <= sorted[n - d]) BY ONLY <2>7, <3>4, <3>5, <3>6, <3>7
    <3>9. ~(k <= n - d) BY <2>7, <2>8, <3>8
    <3> QED BY <1>1, <2>7, <3>9 DEF n
  <2>12. K \in SUBSET (1..n) /\ bad \in SUBSET (1..n) BY <1>1, <2>7 DEF bad, n
  <2>13. Cardinality(K) = d
    <3>1. n - d + 1 \in Int /\ n \in Int /\ n - d + 1 <= n + 1 /\ n - (n - d + 1) + 1 = d
      <4>1. \A x, y \in Int : y >= 0 => x - y + 1 \in Int /\ x - y + 1 <= x + 1 /\ x - (x - y + 1) + 1 = y OBVIOUS
      <4>2. n \in Int /\ d \in Int /\ d >= 0 BY <1>1, <2>7 DEF n
      <4> HIDE DEF n
      <4> QED BY ONLY <4>1, <4>2
    <3>2. Cardinality(n - d + 1..n) = n - (n - d + 1) + 1 BY ONLY <3>1, CountTo
    <3> QED BY <3>1, <3>2
  <2> HIDE DEF K
  <2>14. Cardinality((1..n) \ bad) \in Nat /\ Cardinality((1..n) \ bad) >= n - Cardinality(K)
    BY <2>5, <2>11, <2>12, FewPlaces
  <2>15. 4 * Cardinality((1..n) \ bad) >= 3 * n
    <3>1. \A c, e \in Nat : 4 * e <= n /\ c >= n - e => 4 * c >= 3 * n BY <1>1 DEF n
    <3> QED BY <2>7, <2>13, <2>14, <3>1
  <2> QED BY <2>1, <2>2, <2>3, <2>15 DEF n
<1> QED BY <1>2, <1>3

LEMMA VisibleIs ==
  ASSUME answer \in Answers, NEW key
  PROVE  /\ Chronological(VisiblePoints(key)) /\ MadeOfSamples(VisiblePoints(key), key)
         /\ 4 * Len(VisiblePoints(key)) >= 3 * Len(SeriesPoints(key))
<1> DEFINE s == SeriesPoints(key)
           t == WithoutUpperOutliers(s)
           good == {i \in DOMAIN s : ~UpperOutlier(s[i], Ascending(Values(s)))}
<1>1. Chronological(s) /\ MadeOfSamples(s, key) BY SeriesIs
<1>2. VisiblePoints(key) = s \/ VisiblePoints(key) = t BY DEF VisiblePoints
<1>3. t = s \/ t = Kept(s, good) BY DEF WithoutUpperOutliers
<1>4. good \in SUBSET DOMAIN s OBVIOUS
<1> HIDE DEF good, s
<1>5. s \in Seq(LatencyPoint) /\ Len(s) \in Nat /\ DOMAIN s = 1..Len(s) BY <1>1, PointsOf DEF Chronological
<1>6. \A i \in 1..Len(s) : s[i].ms > 0 BY <1>1, PointIs DEF MadeOfSamples
<1>7. 4 * Len(t) >= 3 * Len(s) BY <1>5, <1>6, ThreeQuartersLeft
<1>8. Chronological(Kept(s, good)) BY <1>1, <1>4, ChronologicalKept
<1>9. MadeOfSamples(Kept(s, good), key)
  <2>1. Range(Kept(s, good)) = {s[i] : i \in good} /\ Kept(s, good) \in Seq(LatencyPoint) BY <1>4, <1>5, RangeKept
  <2> SUFFICES ASSUME NEW k \in 1..Len(Kept(s, good))
               PROVE  \E i \in DOMAIN answer.rows : Drawn(i) /\ SeriesKey(i) = key /\ Kept(s, good)[k] = Point(i)
    BY DEF MadeOfSamples
  <2>2. Kept(s, good)[k] \in Range(Kept(s, good)) BY <2>1, RangeIs
  <2>3. PICK j \in good : Kept(s, good)[k] = s[j] BY <2>1, <2>2
  <2> QED BY <1>1, <1>4, <1>5, <2>3 DEF MadeOfSamples
<1>10. Chronological(t) /\ MadeOfSamples(t, key) BY <1>1, <1>3, <1>8, <1>9
<1>11. 4 * Len(s) >= 3 * Len(s) BY <1>5
<1> HIDE DEF t
<1> QED BY <1>1, <1>2, <1>7, <1>10, <1>11 DEF s

\* Each interval is one, and the one taken is enough if any is.
LEMMA IntervalIs ==
  ASSUME NEW n \in Int
  PROVE  /\ RoundUp(n) \in Nat \ {0}
         /\ RoundUp(n) >= n \/ RoundUp(n) = Intervals[Len(Intervals)]
<1> DEFINE able == {i \in DOMAIN Intervals : Intervals[i] >= n}
           place == IF able = {} THEN Len(Intervals) ELSE Min(able)
<1>1. /\ Intervals \in Seq(Nat \ {0}) /\ DOMAIN Intervals = 1..Len(Intervals) /\ IsFiniteSet(DOMAIN Intervals)
      /\ Len(Intervals) \in Nat \ {0}
  BY ChartAssumption, Places, Empty
<1>2. RoundUp(n) = Intervals[place] BY DEF RoundUp
<1>3. place \in 1..Len(Intervals) /\ (place \in able \/ place = Len(Intervals))
  <2>1. CASE able = {} BY <1>1, <2>1
  <2>2. CASE able # {}
    <3>1. able \in SUBSET Int /\ IsFiniteSet(able) BY <1>1, FS_Subset
    <3>2. Min(able) \in able BY <2>2, <3>1, LeastIs
    <3> QED BY <1>1, <2>2, <3>2
  <2> QED BY <2>1, <2>2
<1>4. Intervals[place] \in Nat \ {0} BY <1>1, <1>3, ElementOfSeq
<1>5. place \in able => Intervals[place] >= n OBVIOUS
<1> HIDE DEF place
<1> QED BY <1>2, <1>3, <1>4, <1>5

\* The times of a trend: from a step before the first point, to the last one.
Grid(times, m, step, half, points) ==
  /\ step \in Nat \ {0} /\ half \in Nat /\ step <= half
  /\ m \in Nat \ {0} /\ Len(times) = m /\ DOMAIN times = 1..m /\ \A k \in 1..m : times[k] \in Int
  /\ \A k, l \in 1..m : k < l => times[k] < times[l]
  /\ \A i \in 1..Len(points) : \E k \in 1..m : times[k] <= points[i].date /\ points[i].date < times[k] + step

LEMMA GridIs ==
  ASSUME NEW points, Chronological(points), points # <<>>
  PROVE  /\ Grid(Times(points), Len(Times(points)), Step(points), HalfWindow(points), points)
         /\ points[Len(points)].date - points[1].date <= TrendTarget * Intervals[Len(Intervals)]
              => Len(Times(points)) <= TrendTarget + 1
<1> DEFINE n == Len(points)
           a == points[1].date
           b == points[n].date
           gap == Max({TrendStep, (Span(points) + TrendTarget - 1) \div TrendTarget})
           step == Step(points)
           half == HalfWindow(points)
           first == (a \div step) * step
           m == 1 + (b - first) \div step
           times == Times(points)
<1>1. points \in Seq(LatencyPoint) BY DEF Chronological
<1>2. n \in Nat \ {0} /\ \A i \in 1..n : points[i].date \in Nat BY <1>1, Empty, PointsOf
<1>3. \A i \in 1..n : a <= points[i].date /\ points[i].date <= b
  <2> SUFFICES ASSUME NEW i \in 1..n PROVE a <= points[i].date /\ points[i].date <= b OBVIOUS
  <2>1. 1 \in 1..n /\ n \in 1..n /\ 1 <= i /\ i <= n BY <1>2
  <2> QED BY <2>1 DEF Chronological
<1>4. a \in Nat /\ b \in Nat /\ a <= b
  <2>1. 1 \in 1..n /\ n \in 1..n BY <1>2
  <2> QED BY <1>2, <1>3, <2>1
<1>5. TrendStep \in Nat \ {0} /\ TrendTarget \in Nat \ {0} /\ TrendWindow \in Nat BY ChartAssumption
<1>6. Span(points) \in Nat \ {0} /\ Span(points) >= b - a
  <2> DEFINE x == b - a
  <2>1. x \in Int BY <1>4
  <2>2. Max({x, TrendStep}) = IF x >= TrendStep THEN x ELSE TrendStep BY <1>5, <2>1, MaxOfTwo
  <2>3. Span(points) = Max({x, TrendStep}) BY DEF Span
  <2> HIDE DEF x
  <2>4. Span(points) \in Nat \ {0} /\ Span(points) >= x BY <1>5, <2>1, <2>2, <2>3
  <2> QED BY <2>4 DEF x
<1>7. gap \in Int /\ TrendTarget * gap >= Span(points)
  <2> DEFINE s == Span(points)  t == TrendTarget  q == (s + t - 1) \div t
  <2>1. s \in Nat \ {0} /\ t \in Nat \ {0} BY <1>5, <1>6
  <2> HIDE DEF s, t
  <2>2. q \in Int /\ t * q >= s
    <3>1. q \in Int /\ s + t - 1 = t * q + ((s + t - 1) % t) /\ (s + t - 1) % t \in 0..t - 1 BY <2>1
    <3> HIDE DEF q
    <3>2. \A x, y \in Int : s + t - 1 = x + y /\ y <= t - 1 => x >= s BY <2>1
    <3>3. t * q \in Int BY <2>1, <3>1
    <3> QED BY <3>1, <3>2, <3>3
  <2> HIDE DEF q
  <2>3. Max({TrendStep, q}) = IF TrendStep >= q THEN TrendStep ELSE q BY <1>5, <2>2, MaxOfTwo
  <2>4. gap = Max({TrendStep, q}) BY DEF s, t, q
  <2> HIDE DEF gap
  <2>5. gap \in Int /\ gap >= q BY <1>5, <2>2, <2>3, <2>4
  <2>6. \A x, y \in Int : x >= y => t * x >= t * y BY <2>1
  <2>7. t * gap >= t * q BY <2>2, <2>5, <2>6
  <2>8. t * gap \in Int /\ t * q \in Int BY <2>1, <2>2, <2>5
  <2>9. t * gap >= s BY <2>1, <2>2, <2>7, <2>8
  <2> QED BY <2>5, <2>9 DEF s, t
<1>8. step = RoundUp(gap) BY DEF Step
<1> HIDE DEF gap, step
<1>9. step \in Nat \ {0} /\ (step >= gap \/ step = Intervals[Len(Intervals)]) BY <1>7, <1>8, IntervalIs
<1>10. half \in Nat /\ step <= half
  <2> DEFINE w == Max({TrendWindow, 6 * step})
  <2>1. 6 * step \in Int BY <1>9
  <2>2. w = IF TrendWindow >= 6 * step THEN TrendWindow ELSE 6 * step BY <1>5, <2>1, MaxOfTwo
  <2>3. half = w \div 2 BY DEF HalfWindow, step
  <2> HIDE DEF w, half
  <2>4. w \in Nat /\ w >= 6 * step BY <1>5, <1>9, <2>2
  <2> QED BY <1>9, <2>3, <2>4
<1>11. times = [k \in 1..m |-> first + (k - 1) * step] BY DEF Times, step
<1> HIDE DEF a, b, n, half, times
<1>12. \A x \in Int : x \div step \in Int /\ (x \div step) * step <= x /\ x < (x \div step) * step + step
                      /\ (x \div step) * step \in Int
  <2> SUFFICES ASSUME NEW x \in Int
               PROVE  x \div step \in Int /\ (x \div step) * step <= x /\ x < (x \div step) * step + step
                      /\ (x \div step) * step \in Int
    OBVIOUS
  <2>1. x \div step \in Int /\ x = step * (x \div step) + (x % step) /\ x % step \in 0..step - 1 BY <1>9
  <2> DEFINE q == x \div step
  <2>2. step * q = q * step /\ q * step \in Int BY <1>9, <2>1
  <2> QED BY <1>9, <2>1, <2>2
<1>13. first \in Int /\ first <= a /\ a < first + step BY <1>4, <1>12
<1> HIDE DEF first
<1>14. m \in Nat \ {0}
  <2>1. b - first \in Nat BY <1>4, <1>13
  <2>2. (b - first) \div step \in Nat BY <1>9, <2>1
  <2> QED BY <2>2
<1>15. \A k \in Int : (k - 1) * step \in Int BY <1>9
<1>16. DOMAIN times = 1..m /\ \A k \in 1..m : times[k] = first + (k - 1) * step /\ times[k] \in Int
  BY <1>11, <1>13, <1>15
<1>17. Len(times) = m
  <2>1. times \in [1..m -> Int] BY <1>11, <1>16
  <2> HIDE DEF m
  <2>2. times \in Seq(Int) BY <1>14, <2>1, SeqDef
  <2>3. DOMAIN times = 1..Len(times) /\ Len(times) \in Nat BY <2>2, LenProperties
  <2> QED BY <1>14, <1>16, <2>3
<1>18. ASSUME NEW k \in 1..m, NEW l \in 1..m, k < l PROVE times[k] < times[l]
  <2>1. \A x, y \in Int : x < y => x * step < y * step BY <1>9
  <2>2. k - 1 \in Int /\ l - 1 \in Int /\ k - 1 < l - 1 BY <1>14, <1>18
  <2>3. (k - 1) * step < (l - 1) * step BY <2>1, <2>2
  <2>4. \A x, y, z \in Int : x < y => z + x < z + y OBVIOUS
  <2>5. (k - 1) * step \in Int /\ (l - 1) * step \in Int BY <1>15, <2>2
  <2> QED BY <1>13, <1>16, <2>3, <2>4, <2>5
<1>19. ASSUME NEW i \in 1..n
       PROVE  \E k \in 1..m : times[k] <= points[i].date /\ points[i].date < times[k] + step
  <2> DEFINE x == points[i].date - first
             k == 1 + x \div step
  <2>1. points[i].date \in Nat /\ a <= points[i].date /\ points[i].date <= b BY <1>2, <1>3
  <2>2. x \in Nat /\ x <= b - first
    <3>1. \A y \in Int : a <= y /\ y <= b => y - first \in Nat /\ y - first <= b - first BY <1>4, <1>9, <1>13
    <3> QED BY <2>1, <3>1
  <2> HIDE DEF x
  <2>3. k \in 1..m
    <3>1. \A u, v \in Int : u <= v => u \div step <= v \div step
      <4> SUFFICES ASSUME NEW u \in Int, NEW v \in Int, u <= v, v \div step < u \div step PROVE FALSE BY <1>12
      <4>1. (u \div step) * step <= u /\ v < (v \div step) * step + step BY <1>12
      <4> DEFINE p == u \div step  q == v \div step
      <4>2. p \in Int /\ q \in Int /\ q + 1 <= p BY <1>12
      <4> HIDE DEF p, q
      <4>3. (q + 1) * step <= p * step BY <1>9, <4>2
      <4>4. (q + 1) * step = q * step + step /\ p * step \in Int /\ q * step \in Int BY <1>9, <4>2
      <4> QED BY <1>9, <4>1, <4>3, <4>4 DEF p, q
    <3>2. x \div step <= (b - first) \div step BY <1>4, <1>13, <2>2, <3>1
    <3>3. x \div step \in Nat BY <1>9, <2>2
    <3>4. \A u, v \in Int : u >= 0 /\ u <= v => 1 + u \in 1..1 + v OBVIOUS
    <3>5. (b - first) \div step \in Int /\ x \div step \in Int /\ x \div step >= 0
      <4>1. b - first \in Int BY <1>4, <1>13
      <4> QED BY <1>12, <3>3, <4>1
    <3> QED BY ONLY <3>2, <3>4, <3>5
  <2>4. times[k] = first + (x \div step) * step
    <3>1. k - 1 = x \div step BY <1>12, <2>2
    <3> QED BY <1>16, <2>3, <3>1
  <2>5. (x \div step) * step <= x /\ x < (x \div step) * step + step /\ (x \div step) * step \in Int BY <1>12, <2>2
  <2>6. points[i].date = first + x BY <1>13, <2>1 DEF x
  <2>7. times[k] <= points[i].date /\ points[i].date < times[k] + step
    <3> DEFINE y == (x \div step) * step
    <3>1. y \in Int /\ y <= x /\ x < y + step /\ times[k] = first + y BY <2>4, <2>5
    <3> HIDE DEF y, k
    <3> QED BY <1>9, <1>13, <2>2, <2>6, <3>1
  <2> QED BY <2>3, <2>7
<1>20. ASSUME b - a <= TrendTarget * Intervals[Len(Intervals)] PROVE m <= TrendTarget + 1
  <2>1. b - a <= TrendTarget * step
    <3>1. CASE step = Intervals[Len(Intervals)] BY <1>20, <3>1
    <3>2. CASE step >= gap
      <4>1. \A x, y \in Int : x >= y => TrendTarget * x >= TrendTarget * y BY <1>5
      <4>2. TrendTarget * step >= TrendTarget * gap BY <1>7, <1>9, <3>2, <4>1
      <4>3. TrendTarget * step \in Int /\ TrendTarget * gap \in Int BY <1>5, <1>7, <1>9
      <4>4. b - a \in Int /\ Span(points) \in Int /\ Span(points) >= b - a BY <1>4, <1>6 DEF a, b, n
      <4> QED BY <1>7, <4>2, <4>3, <4>4
    <3> QED BY <1>9, <3>1, <3>2
  <2>2. b - first < TrendTarget * step + step
    <3>1. TrendTarget * step \in Int BY <1>5, <1>9
    <3> QED BY <1>4, <1>9, <1>13, <2>1, <3>1
  <2> DEFINE q == (b - first) \div step
  <2>3. q \in Int /\ q * step <= b - first /\ q * step \in Int
    <3>1. b - first \in Int BY <1>4, <1>13
    <3> QED BY ONLY <1>12, <3>1
  <2> HIDE DEF q
  <2>4. ~(q >= TrendTarget + 1)
    <3> SUFFICES ASSUME q >= TrendTarget + 1 PROVE FALSE OBVIOUS
    <3>1. \A x, y \in Int : x >= y => x * step >= y * step BY <1>9
    <3>2. q * step >= (TrendTarget + 1) * step BY <1>5, <2>3, <3>1
    <3>3. (TrendTarget + 1) * step = TrendTarget * step + step /\ TrendTarget * step \in Int BY <1>5, <1>9
    <3> QED BY <1>4, <1>9, <1>13, <2>2, <2>3, <3>2, <3>3
  <2>5. m = 1 + q BY DEF q
  <2> QED BY <1>5, <2>3, <2>4, <2>5
<1>21. Grid(times, m, step, half, points)
  <2> HIDE DEF m
  <2> QED BY <1>9, <1>10, <1>14, <1>16, <1>17, <1>18, <1>19 DEF Grid, n
<1> QED BY <1>17, <1>20, <1>21 DEF a, b, n, step, half, times

\* Where the points begin that are not before, or with past are after, a time.
Begins(points, time, past, at) ==
  /\ at \in 1..Len(points) + 1
  /\ \A i \in 1..Len(points) : i < at <=> points[i].date < time \/ (past /\ points[i].date = time)

LEMMA AdvanceIs ==
  ASSUME NEW points, Chronological(points), NEW time \in Int, NEW past \in BOOLEAN, NEW from \in 1..Len(points) + 1,
         \A i \in 1..Len(points) : i < from => points[i].date < time \/ (past /\ points[i].date = time)
  PROVE  Begins(points, time, past, Advance(points, from, time, past))
<1> DEFINE n == Len(points)
           stop == {i \in from..n : points[i].date > time \/ (~past /\ points[i].date = time)}
           at == Advance(points, from, time, past)
           Early(i) == points[i].date < time \/ (past /\ points[i].date = time)
<1>1. n \in Nat /\ \A i \in 1..n : points[i].date \in Nat BY PointsOf DEF Chronological
<1>2. at = IF stop = {} THEN n + 1 ELSE Min(stop) BY DEF Advance
<1>3. \A i \in 1..n : Early(i) <=> ~(points[i].date > time \/ (~past /\ points[i].date = time)) BY <1>1
<1>4. \A i \in 1..n : i \notin stop => Early(i) BY <1>1, <1>3
<1>5. \A i \in stop : i \in 1..n /\ from <= i /\ ~Early(i) BY <1>1, <1>3
<1> HIDE DEF at, stop
<1>6. CASE stop = {}
  <2>1. at = n + 1 BY <1>2, <1>6
  <2>2. \A i \in 1..n : i < at /\ Early(i) BY <1>1, <1>4, <1>6, <2>1
  <2> QED BY <1>1, <2>1, <2>2 DEF Begins, at
<1>7. CASE stop # {}
  <2>1. stop \in SUBSET Int /\ IsFiniteSet(stop)
    <3>1. 1 \in Int /\ n \in Int BY <1>1
    <3>2. IsFiniteSet(1..n) BY ONLY <3>1, FS_Interval
    <3>3. stop \in SUBSET (1..n) BY <1>5
    <3>4. IsFiniteSet(stop) BY <3>2, <3>3, FS_Subset
    <3>5. \A i \in 1..n : i \in Int BY <1>1
    <3> QED BY <3>3, <3>4, <3>5
  <2>2. at \in stop /\ \A i \in stop : at <= i
    <3>1. at = Min(stop) BY <1>2, <1>7
    <3> QED BY <1>7, <2>1, <3>1, LeastIs
  <2>3. at \in 1..n BY <1>5, <2>2
  <2>4. ASSUME NEW i \in 1..n, i < at PROVE Early(i)
    <3>1. ~(at <= i) BY <1>1, <2>3, <2>4
    <3> QED BY <1>4, <2>2, <3>1
  <2>5. ASSUME NEW i \in 1..n, ~(i < at) PROVE ~Early(i)
    <3>1. at <= i BY <1>1, <2>3, <2>5
    <3>2. points[at].date <= points[i].date BY <2>3, <3>1 DEF Chronological
    <3>3. ~Early(at) BY <1>5, <2>2
    <3>4. points[at].date \in Nat /\ points[i].date \in Nat BY <1>1, <2>3
    <3>5. \A x, y \in Nat : x <= y /\ ~(x < time \/ (past /\ x = time)) => ~(y < time \/ (past /\ y = time)) OBVIOUS
    <3> QED BY <3>2, <3>3, <3>4, <3>5
  <2>6. at \in 1..n + 1 BY <1>1, <2>3
  <2>7. \A i \in 1..n : i < at <=> Early(i) BY <2>4, <2>5
  <2> QED BY <2>6, <2>7 DEF Begins, at
<1> QED BY <1>6, <1>7

\* A filter that leaves what is between two places.
LEMMA BetweenKept ==
  ASSUME NEW S, NEW s \in Seq(S), NEW a \in 1..Len(s) + 1, NEW b \in 0..Len(s), a <= b + 1
  PROVE  Kept(s, a..b) = SubSeq(s, a, b)
<1> DEFINE P == a..b
           n == b - a + 1
           t == Kept(s, P)
           u == SubSeq(s, a, b)
<1>1. Len(s) \in Nat /\ DOMAIN s = 1..Len(s) /\ a \in Int /\ b \in Int /\ n \in Nat BY LenProperties
<1>2. P \in SUBSET DOMAIN s BY <1>1
<1>3. Cardinality(P) = n BY ONLY <1>1, a <= b + 1, CountTo
<1>4. t \in Seq(S) /\ \E order : /\ Taken(t, s, P, order)
                                 /\ \A k, l \in 1..Cardinality(P) : k < l => order[k] < order[l]
  <2> HIDE DEF P
  <2> QED BY <1>2, Keeping
<1>5. PICK order : Taken(t, s, P, order) /\ \A k, l \in 1..n : k < l => order[k] < order[l] BY <1>3, <1>4
<1> HIDE DEF t
<1>6. /\ Len(t) = n /\ order \in [1..n -> P]
      /\ \A k \in 1..n : t[k] = s[order[k]]
      /\ \A i \in P : \E k \in 1..n : order[k] = i
  BY <1>3, <1>5 DEF Taken, Picks
<1>7. u \in Seq(S) /\ Len(u) = n /\ \A k \in 1..n : u[k] = s[a + k - 1]
  <2>1. \A i \in a..b : s[i] \in S BY <1>1, ElementOfSeq
  <2>2. u \in Seq(S) /\ Len(u) = (IF a <= b THEN b - a + 1 ELSE 0) /\ \A k \in 1..b - a + 1 : u[k] = s[a + k - 1]
    BY ONLY <1>1, <2>1, SubSeqProperties
  <2>3. (IF a <= b THEN b - a + 1 ELSE 0) = n BY <1>1
  <2> QED BY ONLY <2>2, <2>3
<1> DEFINE Wrong == {k \in Nat : k \in 1..n /\ order[k] # a + k - 1}
<1>8. Wrong = {}
  <2> SUFFICES ASSUME Wrong # {} PROVE FALSE OBVIOUS
  <2>1. PICK k \in Wrong : \A l \in Wrong : k <= l
    <3>1. Wrong \in SUBSET Nat OBVIOUS
    <3> HIDE DEF Wrong
    <3> QED BY <3>1, LeastNumber
  <2>2. k \in 1..n /\ order[k] # a + k - 1 BY <2>1
  <2>3. \A l \in 1..n : l < k => order[l] = a + l - 1
    <3> SUFFICES ASSUME NEW l \in 1..n, l < k PROVE order[l] = a + l - 1 OBVIOUS
    <3>1. ~(k <= l) BY <1>1, <2>2
    <3>2. l \in Nat BY <1>1
    <3> QED BY <2>1, <3>1, <3>2
  <2>4. a + k - 1 \in P BY <1>1, <2>2
  <2>5. PICK l \in 1..n : order[l] = a + k - 1 BY <1>6, <2>4
  <2>6. l # k /\ ~(l < k)
    <3>1. l < k => a + l - 1 = a + k - 1 BY <2>3, <2>5
    <3>2. l # k BY <2>2, <2>5
    <3>3. \A x, y \in 1..n : a + x - 1 = a + y - 1 => x = y BY <1>1
    <3> QED BY <2>2, <3>1, <3>2, <3>3
  <2>7. k < l BY <1>1, <2>2, <2>6
  <2>8. order[k] < a + k - 1 BY <1>5, <2>2, <2>5, <2>7
  <2>9. order[k] \in P BY <1>6, <2>2
  <2>10. PICK o \in Int : o = order[k] /\ a <= o /\ o < a + k - 1
    <3>1. \A x \in P : x \in Int /\ a <= x BY <1>1
    <3> QED BY <2>8, <2>9, <3>1
  <2>11. o - a + 1 \in 1..n /\ o - a + 1 < k /\ a + (o - a + 1) - 1 = o
    <3>1. \A x \in 1..n : o < a + x - 1 => o - a + 1 \in 1..n /\ o - a + 1 < x
      <4>1. \A p, q, v \in Int : \A x \in 1..q - p + 1 :
              p <= v /\ v < p + x - 1 => v - p + 1 \in 1..q - p + 1 /\ v - p + 1 < x
        OBVIOUS
      <4>2. o \in Int /\ a <= o BY <2>10
      <4> QED BY ONLY <1>1, <4>1, <4>2
    <3>2. a + (o - a + 1) - 1 = o BY <1>1
    <3> QED BY <2>2, <2>10, <3>1, <3>2
  <2>12. order[o - a + 1] = o BY <2>3, <2>11
  <2>13. order[o - a + 1] < order[k] BY <1>5, <2>2, <2>11
  <2> QED BY <2>10, <2>12, <2>13
<1>9. \A k \in 1..n : t[k] = u[k]
  <2> SUFFICES ASSUME NEW k \in 1..n PROVE t[k] = u[k] OBVIOUS
  <2>1. k \in Nat BY <1>1
  <2>2. order[k] = a + k - 1 BY <1>8, <2>1
  <2> QED BY <1>6, <1>7, <2>2
<1> HIDE DEF u, n
<1> QED BY <1>4, <1>6, <1>7, <1>9, SeqEqual DEF t, u

\* The places of the points within half a window of a time.
Around(points, time) ==
  {i \in DOMAIN points : points[i].date >= time - HalfWindow(points) /\ points[i].date <= time + HalfWindow(points)}

LEMMA WindowIs ==
  ASSUME NEW points, Chronological(points), NEW time \in Int, NEW from, NEW to, HalfWindow(points) \in Nat,
         Begins(points, time - HalfWindow(points), FALSE, from), Begins(points, time + HalfWindow(points), TRUE, to)
  PROVE  SubSeq(points, from, to - 1) = Kept(points, Around(points, time))
<1> DEFINE n == Len(points)
           half == HalfWindow(points)
<1>1. points \in Seq(LatencyPoint) BY DEF Chronological
<1>2. DOMAIN points = 1..n /\ n \in Nat /\ \A i \in 1..n : points[i].date \in Nat BY <1>1, PointsOf
<1>3. half \in Nat /\ time - half \in Int /\ time + half \in Int OBVIOUS
<1>4. /\ from \in 1..n + 1 /\ \A i \in 1..n : i < from <=> points[i].date < time - half
      /\ to \in 1..n + 1 /\ \A i \in 1..n : i < to <=> points[i].date < time + half \/ points[i].date = time + half
  BY DEF Begins
<1> HIDE DEF n, half
<1>5. from <= to
  <2> SUFFICES ASSUME to < from PROVE FALSE BY <1>2, <1>4
  <2>1. to \in 1..n /\ ~(to < to) BY <1>2, <1>4
  <2>2. points[to].date < time - half /\ ~(points[to].date < time + half \/ points[to].date = time + half) BY <1>4, <2>1
  <2>3. points[to].date \in Nat BY <1>2, <2>1
  <2>4. \A x \in Nat : x < time - half => x < time + half BY <1>3
  <2> QED BY <2>2, <2>3, <2>4
<1>6. \A i \in 1..n : (points[i].date >= time - half /\ points[i].date <= time + half) <=> i \in from..to - 1
  <2> SUFFICES ASSUME NEW i \in 1..n
               PROVE  (points[i].date >= time - half /\ points[i].date <= time + half) <=> i \in from..to - 1
    OBVIOUS
  <2>1. points[i].date \in Nat BY <1>2
  <2>2. points[i].date >= time - half <=> ~(i < from) BY <1>3, <1>4, <2>1
  <2>3. points[i].date <= time + half <=> i < to BY <1>3, <1>4, <2>1
  <2> QED BY <1>2, <1>4, <2>2, <2>3
<1>7. Around(points, time) = from..to - 1
  <2>1. Around(points, time) = {i \in 1..n : points[i].date >= time - half /\ points[i].date <= time + half}
    BY <1>2 DEF Around, half
  <2>2. from..to - 1 \subseteq 1..n BY <1>2, <1>4
  <2> QED BY <1>6, <2>1, <2>2
<1>8. to - 1 \in 0..n /\ from <= to - 1 + 1 BY <1>2, <1>4, <1>5
<1>9. Kept(points, from..to - 1) = SubSeq(points, from, to - 1) BY <1>1, <1>4, <1>8, BetweenKept DEF n
<1> QED BY <1>7, <1>9

\* What a window's points are, and their quartiles.
NearValues(points, time) == Ascending(Values(Kept(points, Around(points, time))))

LEMMA NearIs ==
  ASSUME NEW points \in Seq(LatencyPoint), NEW time \in Int
  PROVE  /\ NearValues(points, time) = <<>> <=> Around(points, time) = {}
         /\ NearValues(points, time) # <<>> => TrendPoint(time, NearValues(points, time)) \in TrendPointSet
<1> DEFINE P == Around(points, time)
           part == Kept(points, P)
           values == Values(part)
           n == Len(part)
<1>1. P \in SUBSET DOMAIN points BY DEF Around
<1> HIDE DEF P
<1>2. part \in Seq(LatencyPoint) /\ n = Cardinality(P) BY <1>1, RangeKept
<1>3. IsFiniteSet(P) /\ n \in Nat BY <1>1, <1>2, Places
<1>4. n = 0 <=> P = {} BY <1>2, <1>3, FS_EmptySet
<1>5. values \in Seq(Int) /\ Len(values) = n
  <2>1. DOMAIN part = 1..n /\ \A i \in 1..n : part[i].ms \in Nat BY <1>2, PointsOf
  <2>2. values = [i \in 1..n |-> part[i].ms] BY <2>1 DEF Values
  <2>3. values \in [1..n -> Int] BY <2>1, <2>2
  <2> QED BY <1>3, <2>2, <2>3, SeqDef, LenProperties
<1>6. NearValues(points, time) = Ascending(values) BY DEF NearValues, P
<1> HIDE DEF part, values, n
<1>7. PICK order : Ordered(Ascending(values), values, n, order) BY <1>5, AscendingIs
<1>8. Ascending(values) \in Seq(Int) /\ Len(Ascending(values)) = n
  <2>1. /\ DOMAIN Ascending(values) = 1..n /\ Len(Ascending(values)) = n
        /\ \A k \in 1..n : Ascending(values)[k] \in Int
    BY <1>7 DEF Ordered
  <2>2. SortedBy(values, values) \in Seq(Int)
    <3>1. \A i \in DOMAIN values : values[i] \in Int BY <1>5, LenProperties, ElementOfSeq
    <3> QED BY <1>5, <3>1, Sorting
  <2> QED BY <2>1, <2>2 DEF Ascending
<1>9. Ascending(values) = <<>> <=> n = 0 BY <1>3, <1>8, EmptySeq
<1>10. ASSUME n # 0 PROVE TrendPoint(time, Ascending(values)) \in TrendPointSet
  <2>1. \A k \in {1, 2, 3} : Quantile(Ascending(values), k) \in Int BY <1>7, <1>10, QuantileBetween
  <2> HIDE DEF Ordered
  <2> QED BY <2>1 DEF TrendPoint, TrendPointSet
<1> QED BY <1>4, <1>6, <1>9, <1>10 DEF P

\* What the first k visits leave.
Trailing(points, times, k, acc) ==
  /\ acc.from \in 1..Len(points) + 1 /\ acc.to \in 1..Len(points) + 1
  /\ k = 0 => acc.from = 1 /\ acc.to = 1
  /\ k # 0 => /\ Begins(points, times[k] - HalfWindow(points), FALSE, acc.from)
              /\ Begins(points, times[k] + HalfWindow(points), TRUE, acc.to)
  /\ acc.trend \in Seq(TrendPointSet) /\ Len(acc.trend) <= k
  /\ \A n \in 1..Len(acc.trend) : \E j \in 1..k : acc.trend[n] = TrendPoint(times[j], NearValues(points, times[j]))
  /\ \A n \in 1..Len(acc.trend) : n > 1 => acc.trend[n - 1].date < acc.trend[n].date
  /\ \A j \in 1..k : Around(points, times[j]) # {} => \E n \in 1..Len(acc.trend) : acc.trend[n].date = times[j]

LEMMA VisitKeeps ==
  ASSUME NEW points, Chronological(points), NEW times, NEW m, NEW step,
         Grid(times, m, step, HalfWindow(points), points),
         NEW k \in 1..m, NEW acc, Trailing(points, times, k - 1, acc)
  PROVE  Trailing(points, times, k, Visit(points, acc, times[k]))
<1> DEFINE time == times[k]
           half == HalfWindow(points)
           from == Advance(points, acc.from, time - half, FALSE)
           to == Advance(points, acc.to, time + half, TRUE)
           values == NearValues(points, time)
           old == acc.trend
           new == IF values = <<>> THEN old ELSE Append(old, TrendPoint(time, values))
           L == Len(old)
<1>1. points \in Seq(LatencyPoint) /\ Len(points) \in Nat /\ \A i \in 1..Len(points) : points[i].date \in Nat
  BY PointsOf DEF Chronological
<1>2. half \in Nat /\ m \in Nat /\ (\A j \in 1..m : times[j] \in Int) /\ \A i, j \in 1..m : i < j => times[i] < times[j]
  BY DEF Grid
<1>3. time \in Int /\ time - half \in Int /\ time + half \in Int /\ k \in Nat BY <1>2
<1> USE DEF Trailing
<1>4. acc.from \in 1..Len(points) + 1 /\ acc.to \in 1..Len(points) + 1 OBVIOUS
<1>5. ASSUME NEW i \in 1..Len(points)
      PROVE  /\ i < acc.from => points[i].date < time - half
             /\ i < acc.to => points[i].date < time + half \/ points[i].date = time + half
  <2>1. CASE k - 1 = 0
    <3>1. acc.from = 1 /\ acc.to = 1 BY <2>1
    <3> QED BY <1>1, <3>1
  <2>2. CASE k - 1 # 0
    <3> DEFINE t == times[k - 1]
    <3>1. k - 1 \in 1..m /\ k - 1 < k BY <1>2, <1>3, <2>2
    <3>2. t \in Int /\ t < time BY <1>2, <3>1
    <3>3. /\ i < acc.from => points[i].date < t - half
          /\ i < acc.to => points[i].date < t + half \/ points[i].date = t + half
      BY <2>2 DEF Begins
    <3> HIDE DEF t, time, half
    <3>4. \A x \in Nat : /\ x < t - half => x < time - half
                         /\ x < t + half \/ x = t + half => x < time + half
      BY <1>2, <1>3, <3>2
    <3> QED BY <1>1, <3>3, <3>4
  <2> QED BY <2>1, <2>2
<1> HIDE DEF time, half
<1>6. Begins(points, time - half, FALSE, from) BY <1>3, <1>4, <1>5, AdvanceIs
<1>7. Begins(points, time + half, TRUE, to) BY <1>3, <1>4, <1>5, AdvanceIs
<1>8. Slide(points, acc, time, half) = [from |-> from, to |-> to] BY DEF Slide
<1> HIDE DEF from, to
<1>9. SubSeq(points, from, to - 1) = Kept(points, Around(points, time))
  BY <1>2, <1>3, <1>6, <1>7, WindowIs DEF half
<1>10. Visit(points, acc, time) = [from |-> from, to |-> to, trend |-> new]
  <2>1. [from |-> from, to |-> to].from = from /\ [from |-> from, to |-> to].to = to OBVIOUS
  <2>2. Ascending(Values(SubSeq(points, from, to - 1))) = values BY <1>9 DEF NearValues
  <2> QED BY <1>8, <2>1, <2>2 DEF Visit, half
<1>11. values = <<>> <=> Around(points, time) = {} BY <1>1, <1>3, NearIs
<1>12. values # <<>> => TrendPoint(time, values) \in TrendPointSet BY <1>1, <1>3, NearIs
<1>13. TrendPoint(time, values).date = time BY DEF TrendPoint
<1>14. /\ old \in Seq(TrendPointSet) /\ L <= k - 1 /\ L \in Nat
       /\ \A n \in 1..L : \E j \in 1..k - 1 : old[n] = TrendPoint(times[j], NearValues(points, times[j]))
       /\ \A n \in 1..L : n > 1 => old[n - 1].date < old[n].date
       /\ \A j \in 1..k - 1 : Around(points, times[j]) # {} => \E n \in 1..L : old[n].date = times[j]
  <2>1. old \in Seq(TrendPointSet) OBVIOUS
  <2>2. L \in Nat BY <2>1, LenProperties
  <2> QED BY <2>1, <2>2
<1>15. from \in 1..Len(points) + 1 /\ to \in 1..Len(points) + 1 BY <1>6, <1>7 DEF Begins
<1> DEFINE Told(s) == /\ s \in Seq(TrendPointSet) /\ Len(s) <= k
                      /\ \A n \in 1..Len(s) : \E j \in 1..k : s[n] = TrendPoint(times[j], NearValues(points, times[j]))
                      /\ \A n \in 1..Len(s) : n > 1 => s[n - 1].date < s[n].date
                      /\ \A j \in 1..k : Around(points, times[j]) # {} => \E n \in 1..Len(s) : s[n].date = times[j]
<1>16. Told(new)
  <2> HIDE DEF old
  <2>0. \A j \in 1..k : j = k \/ j \in 1..k - 1 BY <1>3
  <2>1. CASE values = <<>>
    <3>1. new = old BY <2>1
    <3>2. \A j \in 1..k : Around(points, times[j]) # {} => j \in 1..k - 1 BY <1>11, <2>0, <2>1 DEF time
    <3>3. L <= k /\ \A j \in 1..k - 1 : j \in 1..k BY <1>3, <1>14
    <3> HIDE DEF new
    <3> QED BY <1>14, <3>1, <3>2, <3>3
  <2>2. CASE values # <<>>
    <3> DEFINE e == TrendPoint(time, values)
    <3>1. e \in TrendPointSet /\ new = Append(old, e) /\ e.date = time BY <1>12, <1>13, <2>2
    <3> HIDE DEF e, new
    <3>2. /\ new \in Seq(TrendPointSet) /\ Len(new) = L + 1 /\ new[L + 1] = e
          /\ \A n \in 1..L : new[n] = old[n]
      BY <1>14, <3>1, AppendProperties
    <3>3. L + 1 <= k /\ (\A j \in 1..k - 1 : j \in 1..k) /\ k \in 1..k BY <1>3, <1>14
    <3>4. \A n \in 1..L + 1 : n = L + 1 \/ n \in 1..L BY <1>14
    <3>5. ASSUME NEW n \in 1..L + 1 PROVE \E j \in 1..k : new[n] = TrendPoint(times[j], NearValues(points, times[j]))
      <4>1. CASE n = L + 1 BY <3>2, <3>3, <4>1 DEF e, time
      <4>2. CASE n \in 1..L BY <1>14, <3>2, <3>3, <4>2
      <4> QED BY <3>4, <4>1, <4>2
    <3>6. ASSUME NEW n \in 1..L + 1, n > 1 PROVE new[n - 1].date < new[n].date
      <4>1. CASE n = L + 1
        <5>1. n - 1 = L /\ L \in 1..L BY <1>14, <3>6, <4>1
        <5>2. PICK j \in 1..k - 1 : old[L] = TrendPoint(times[j], NearValues(points, times[j])) BY <1>14, <5>1
        <5>3. old[L].date = times[j] BY <5>2 DEF TrendPoint
        <5>4. times[j] < time
          <6>1. j \in 1..m /\ j < k BY <1>2, <1>3
          <6> QED BY <1>2, <6>1 DEF time
        <5> QED BY <3>1, <3>2, <4>1, <5>1, <5>3, <5>4
      <4>2. CASE n \in 1..L
        <5>1. n - 1 \in 1..L BY <1>14, <3>6, <4>2
        <5> QED BY <1>14, <3>2, <3>6, <4>2, <5>1
      <4> QED BY <3>4, <4>1, <4>2
    <3>7. ASSUME NEW j \in 1..k, Around(points, times[j]) # {} PROVE \E n \in 1..L + 1 : new[n].date = times[j]
      <4>1. L + 1 \in 1..L + 1 /\ \A n \in 1..L : n \in 1..L + 1 BY <1>14
      <4>2. CASE j = k BY <3>1, <3>2, <4>1, <4>2 DEF time
      <4>3. CASE j \in 1..k - 1
        <5>1. PICK n \in 1..L : old[n].date = times[j] BY <1>14, <3>7, <4>3
        <5> QED BY <3>2, <4>1, <5>1
      <4> QED BY <2>0, <4>2, <4>3
    <3> QED BY <3>2, <3>3, <3>5, <3>6, <3>7
  <2> QED BY <2>1, <2>2
<1> HIDE DEF new
<1>17. \A v : v = [from |-> from, to |-> to, trend |-> new] => v.from = from /\ v.to = to /\ v.trend = new OBVIOUS
<1> DEFINE v == Visit(points, acc, time)
<1>18. v.from = from /\ v.to = to /\ v.trend = new BY <1>10, <1>17
<1> HIDE DEF v
<1>19. k # 0 BY <1>3
<1> QED BY <1>6, <1>7, <1>15, <1>16, <1>18, <1>19 DEF v, time, half

\* The trend is what the visits leave.
LEMMA TrendRuns ==
  ASSUME NEW points, Chronological(points), points # <<>>
  PROVE  \E acc : Trailing(points, Times(points), Len(Times(points)), acc) /\ Trend(points) = acc.trend
<1> DEFINE times == Times(points)
           m == Len(times)
           start == [from |-> 1, to |-> 1, trend |-> <<>>]
           Runs(f, k) == DOMAIN f = 0..k /\ f[0] = start /\ \A j \in 1..k : f[j] = Visit(points, f[j - 1], times[j])
           Some(k) == \E f : Runs(f, k)
           Bad == {k \in Nat : k <= m /\ ~Some(k)}
<1>1. Grid(times, m, Step(points), HalfWindow(points), points) BY GridIs
<1>2. m \in Nat BY <1>1 DEF Grid
<1>3. Some(0)
  <2>1. Runs([k \in 0..0 |-> start], 0) OBVIOUS
  <2> QED BY <2>1
<1>4. ASSUME NEW k \in Nat, Some(k) PROVE Some(k + 1)
  <2>1. PICK f : Runs(f, k) BY <1>4
  <2> DEFINE e == Visit(points, f[k], times[k + 1])
             g == [j \in 0..k + 1 |-> IF j = k + 1 THEN e ELSE f[j]]
  <2>2. DOMAIN g = 0..k + 1 /\ g[k + 1] = e /\ \A j \in 0..k : g[j] = f[j] OBVIOUS
  <2> HIDE DEF g
  <2>3. g[0] = start BY <2>1, <2>2
  <2>4. ASSUME NEW j \in 1..k + 1 PROVE g[j] = Visit(points, g[j - 1], times[j])
    <3>1. CASE j = k + 1
      <4>1. j - 1 = k /\ k \in 0..k BY <3>1
      <4> QED BY <2>2, <3>1, <4>1
    <3>2. CASE j # k + 1
      <4>1. j \in 1..k /\ j \in 0..k /\ j - 1 \in 0..k BY <3>2
      <4> QED BY <2>1, <2>2, <4>1
    <3> QED BY <3>1, <3>2
  <2> QED BY <2>2, <2>3, <2>4
<1> HIDE DEF Some
<1>5. Bad = {}
  <2> SUFFICES ASSUME Bad # {} PROVE FALSE OBVIOUS
  <2>1. PICK k \in Bad : \A j \in Bad : k <= j
    <3>1. Bad \in SUBSET Nat OBVIOUS
    <3> HIDE DEF Bad
    <3> QED BY <3>1, LeastNumber
  <2>2. k \in Nat /\ k <= m /\ k # 0 BY <1>3, <2>1
  <2>3. k - 1 \in Nat /\ k - 1 <= m /\ k - 1 + 1 = k /\ ~(k <= k - 1) BY <1>2, <2>2
  <2>4. Some(k - 1) BY <2>1, <2>3
  <2>5. Some(k) BY <1>4, <2>3, <2>4
  <2> QED BY <2>1, <2>5
<1>6. PICK f : Runs(f, m)
  <2>1. m <= m BY <1>2
  <2>2. Some(m) BY <1>2, <1>5, <2>1
  <2> QED BY <2>2 DEF Some
<1> DEFINE Adds(h) == h = [k \in 0..m |-> IF k = 0 THEN start ELSE Visit(points, h[k - 1], times[k])]
           g == CHOOSE h : Adds(h)
           f2 == [k \in 0..m |-> f[k]]
<1>7. Adds(f2)
  <2>1. ASSUME NEW k \in 0..m PROVE f2[k] = IF k = 0 THEN start ELSE Visit(points, f2[k - 1], times[k])
    <3>1. CASE k = 0 BY <1>6, <3>1
    <3>2. CASE k # 0
      <4>1. k \in 1..m /\ k - 1 \in 0..m BY <1>2, <3>2
      <4> QED BY <1>6, <3>2, <4>1
    <3> QED BY <3>1, <3>2
  <2>2. f2 = [k \in 0..m |-> f2[k]] OBVIOUS
  <2> HIDE DEF f2
  <2> QED BY <2>1, <2>2
<1>8. Adds(g)
  <2> HIDE DEF Adds, f2
  <2> QED BY <1>7
<1>9. Trend(points) = g[m].trend BY DEF Trend
<1> HIDE DEF g
<1>10. g[0] = start /\ \A k \in 1..m : g[k] = Visit(points, g[k - 1], times[k])
  <2>1. 0 \in 0..m /\ \A k \in 1..m : k \in 0..m /\ k # 0 BY <1>2
  <2> QED BY <1>8, <2>1
<1> DEFINE Wrong == {k \in Nat : k <= m /\ ~Trailing(points, times, k, g[k])}
<1>11. Trailing(points, times, 0, g[0])
  <2>1. g[0].from = 1 /\ g[0].to = 1 /\ g[0].trend = <<>> BY <1>10
  <2>2. <<>> \in Seq(TrendPointSet) /\ Len(<<>>) = 0 BY EmptySeq
  <2>3. 1 \in 1..Len(points) + 1 BY PointsOf DEF Chronological
  <2>4. 1..0 = {} OBVIOUS
  <2> QED BY <2>1, <2>2, <2>3, <2>4 DEF Trailing
<1>12. Wrong = {}
  <2> SUFFICES ASSUME Wrong # {} PROVE FALSE OBVIOUS
  <2>1. PICK k \in Wrong : \A j \in Wrong : k <= j
    <3>1. Wrong \in SUBSET Nat OBVIOUS
    <3> HIDE DEF Wrong
    <3> QED BY <3>1, LeastNumber
  <2>2. k \in Nat /\ k <= m /\ k # 0 BY <1>11, <2>1
  <2>3. k - 1 \in Nat /\ k - 1 <= m /\ ~(k <= k - 1) /\ k \in 1..m BY <1>2, <2>2
  <2>4. Trailing(points, times, k - 1, g[k - 1]) BY <2>1, <2>3
  <2> HIDE DEF times, m
  <2>5. Trailing(points, times, k, Visit(points, g[k - 1], times[k])) BY <1>1, <2>3, <2>4, VisitKeeps
  <2>6. Trailing(points, times, k, g[k]) BY <1>10, <2>3, <2>5
  <2> QED BY <2>1, <2>6
<1>13. Trailing(points, times, m, g[m])
  <2>1. m <= m BY <1>2
  <2> QED BY <1>2, <1>12, <2>1
<1> QED BY <1>9, <1>13

LEMMA TrendsAreTrue == AnswerOrOff => TrendTrue
<1> SUFFICES ASSUME answer \in Answers, NEW key
             PROVE  LET all == SeriesPoints(key)  points == VisiblePoints(key)  trend == Trend(points) IN
                    /\ Len(all) = Cardinality({i \in DOMAIN answer.rows : Drawn(i) /\ SeriesKey(i) = key})
                    /\ 4 * Len(points) >= 3 * Len(all)
                    /\ Len(trend) <= TrendTarget + 2
                    /\ \A n \in DOMAIN trend :
                         /\ trend[n] = TrendPoint(trend[n].date, NearValues(points, trend[n].date))
                         /\ n > 1 => trend[n - 1].date < trend[n].date
                    /\ \A p \in Range(points) : \E n \in DOMAIN trend :
                         p \in Range(Kept(points, Around(points, trend[n].date)))
  BY DEF AnswerOrOff, TrendTrue, NearValues, Around
<1> DEFINE points == VisiblePoints(key)
           trend == Trend(points)
           times == Times(points)
           m == Len(times)
<1>1. /\ Len(SeriesPoints(key)) = Cardinality({i \in DOMAIN answer.rows : Drawn(i) /\ SeriesKey(i) = key})
      /\ 4 * Len(points) >= 3 * Len(SeriesPoints(key))
      /\ Chronological(points) /\ MadeOfSamples(points, key)
  BY SeriesIs, VisibleIs
<1> HIDE DEF points
<1>2. points \in Seq(LatencyPoint) BY <1>1 DEF Chronological
<1>3. DOMAIN points = 1..Len(points) /\ Len(points) \in Nat /\ \A i \in 1..Len(points) : points[i].date \in Nat
  BY <1>2, PointsOf
<1>4. TrendTarget \in Nat BY ChartAssumption
<1>5. CASE points = <<>>
  <2>1. trend = <<>> BY <1>5 DEF Trend
  <2>2. Len(trend) = 0 /\ DOMAIN trend = {} BY <2>1
  <2>3. Range(points) = {} BY <1>5 DEF Range
  <2> HIDE DEF trend
  <2> QED BY <1>1, <1>4, <2>2, <2>3 DEF points, trend
<1>6. CASE points # <<>>
  <2>1. Grid(times, m, Step(points), HalfWindow(points), points) BY <1>1, <1>6, GridIs
  <2>2. m <= TrendTarget + 1
    <3> DEFINE a == points[1].date  b == points[Len(points)].date
    <3>1. 1 \in 1..Len(points) /\ Len(points) \in 1..Len(points) BY <1>2, <1>3, <1>6, Empty
    <3>2. PICK i \in DOMAIN answer.rows, j \in DOMAIN answer.rows : points[1] = Point(i) /\ points[Len(points)] = Point(j)
      BY <1>1, <3>1 DEF MadeOfSamples
    <3>3. a = PlotDate(LatencyForm(answer.rows[i])) /\ b = PlotDate(LatencyForm(answer.rows[j])) BY <3>2, DateOfPoint
    <3>4. b - a <= TrendTarget * Intervals[Len(Intervals)] BY <3>3, ChartAssumption
    <3> QED BY <1>1, <1>6, <3>4, GridIs
  <2>3. PICK acc : Trailing(points, times, m, acc) /\ trend = acc.trend BY <1>1, <1>6, TrendRuns
  <2> HIDE DEF trend, times, m
  <2>4. /\ trend \in Seq(TrendPointSet) /\ Len(trend) <= m
        /\ \A n \in 1..Len(trend) : \E j \in 1..m : trend[n] = TrendPoint(times[j], NearValues(points, times[j]))
        /\ \A n \in 1..Len(trend) : n > 1 => trend[n - 1].date < trend[n].date
        /\ \A j \in 1..m : Around(points, times[j]) # {} => \E n \in 1..Len(trend) : trend[n].date = times[j]
    BY <2>3 DEF Trailing
  <2>5. DOMAIN trend = 1..Len(trend) /\ Len(trend) \in Nat BY <2>4, LenProperties
  <2>6. /\ HalfWindow(points) \in Nat /\ Step(points) \in Nat /\ Step(points) <= HalfWindow(points) /\ m \in Nat
        /\ \A k \in 1..m : times[k] \in Int
        /\ \A i \in 1..Len(points) : \E k \in 1..m :
             times[k] <= points[i].date /\ points[i].date < times[k] + Step(points)
    BY <2>1 DEF Grid
  <2>7. Len(trend) <= TrendTarget + 2 BY <1>4, <2>2, <2>4, <2>5, <2>6
  <2>8. ASSUME NEW n \in DOMAIN trend PROVE trend[n] = TrendPoint(trend[n].date, NearValues(points, trend[n].date))
    <3>1. PICK j \in 1..m : trend[n] = TrendPoint(times[j], NearValues(points, times[j])) BY <2>4, <2>5
    <3>2. trend[n].date = times[j] BY <3>1 DEF TrendPoint
    <3> QED BY <3>1, <3>2
  <2>9. ASSUME NEW p \in Range(points)
        PROVE  \E n \in DOMAIN trend : p \in Range(Kept(points, Around(points, trend[n].date)))
    <3>1. PICK i \in 1..Len(points) : p = points[i] BY <1>2, RangeIs
    <3>2. PICK k \in 1..m : times[k] <= points[i].date /\ points[i].date < times[k] + Step(points) BY <2>6
    <3>3. times[k] \in Int /\ points[i].date \in Nat BY <1>3, <2>6
    <3>4. points[i].date >= times[k] - HalfWindow(points) /\ points[i].date <= times[k] + HalfWindow(points)
      <4>1. \A d, t, h, g \in Int : g >= 0 /\ h <= g /\ h >= 0 /\ t <= d /\ d < t + h => d >= t - g /\ d <= t + g OBVIOUS
      <4>2. /\ HalfWindow(points) \in Int /\ HalfWindow(points) >= 0
            /\ Step(points) \in Int /\ Step(points) >= 0 /\ Step(points) <= HalfWindow(points)
        BY <2>6
      <4>3. times[k] \in Int /\ points[i].date \in Int BY <3>3
      <4> QED BY ONLY <3>2, <4>1, <4>2, <4>3
    <3>5. i \in Around(points, times[k]) BY <1>3, <3>4 DEF Around
    <3>6. PICK n \in 1..Len(trend) : trend[n].date = times[k] BY <2>4, <3>5
    <3>7. Around(points, times[k]) \in SUBSET DOMAIN points BY DEF Around
    <3>8. Range(Kept(points, Around(points, times[k]))) = {points[l] : l \in Around(points, times[k])}
      BY <1>2, <3>7, RangeKept
    <3> QED BY <2>5, <3>1, <3>5, <3>6, <3>8
  <2> QED BY <1>1, <2>4, <2>5, <2>7, <2>8, <2>9 DEF points, trend
<1> QED BY <1>5, <1>6

\* Whatever the samples and the settings: TrendTrue.
THEOREM TrendsAlwaysTrue == PanelSpec => []TrendTrue
<1>1. PanelInit => AnswerOrOff BY DEF PanelInit, ChartInit, ChartOff, AnswerOrOff
<1> QED BY <1>1, TrendsAreTrue, StepKeepsAnswer, PTL DEF PanelSpec
=============================================================================
