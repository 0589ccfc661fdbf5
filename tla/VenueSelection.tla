--------------------------- MODULE VenueSelection ---------------------------
(***************************************************************************)
(* The venue filter that the dashboard's panels share.  Each panel offers  *)
(* the venues of its own data; all of them read and write one filter,      *)
(* which is "all" or a list of venues without repetitions.                 *)
(***************************************************************************)
EXTENDS FiniteSets

CONSTANTS Venues, All

ASSUME SelectionAssumption == IsFiniteSet(Venues) /\ \A s \in SUBSET Venues : s # All

Filters == {All} \cup SUBSET Venues

Matches(filter, v) == filter = All \/ v \in filter

\* selectedVenueList: what a panel with these options shows as checked.
Selected(filter, options) == IF filter = All THEN options ELSE filter \cap options

AllSelected(filter, options) ==
  options # {} /\ Cardinality(Selected(filter, options)) = Cardinality(options)

\* The panel's button, "Clear" or "All".
ClickAll(filter, options) == IF AllSelected(filter, options) THEN {} ELSE All

\* Mutant of Toggled: starts from the filter and not from the panel's part of it.
ToggledInFilter(filter, options, v) ==
  LET s == IF filter = All THEN options ELSE filter
  IN IF v \in s THEN s \ {v} ELSE s \cup {v}

Toggled(filter, options, v) ==
  LET s == Selected(filter, options) IN IF v \in s THEN s \ {v} ELSE s \cup {v}

\* A panel's checkbox.  The list that is as long as the panel's is "all", in
\* every panel.
ClickVenue(filter, options, v) ==
  LET next == Toggled(filter, options, v)
  IN IF Cardinality(next) = Cardinality(options) THEN All ELSE next

\* Of a panel's options, filter and next differ in v alone.
FlipsOnly(v, filter, next, options) ==
  \A u \in options : (u \in Selected(next, options)) <=> ((u \in Selected(filter, options)) # (u = v))
=============================================================================
