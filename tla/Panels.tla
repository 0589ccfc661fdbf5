------------------------------- MODULE Panels -------------------------------
(***************************************************************************)
(* The dashboard's panels.  The panels of a tab have no state in common:   *)
(* what the page gives each of them is the answer of its own query, so one *)
(* panel at a time is enough to see all that they can do.                  *)
(***************************************************************************)
EXTENDS LatencyTable, LatencyChart, TPSChart, TakerCost

VARIABLE viewed  \* the one looked at

panelVars == <<viewed, tableVars, chartVars, tpsVars, costVars>>

PanelInit ==
  \/ viewed = "table" /\ TableInit /\ ChartOff /\ TPSOff /\ CostOff
  \/ viewed = "latency" /\ ChartInit /\ TableOff /\ TPSOff /\ CostOff
  \/ viewed = "tps" /\ TPSInit /\ TableOff /\ ChartOff /\ CostOff
  \/ viewed = "cost" /\ CostInit /\ TableOff /\ ChartOff /\ TPSOff

PanelNext ==
  /\ UNCHANGED viewed
  /\ \/ viewed = "table" /\ TableNext /\ UNCHANGED <<chartVars, tpsVars, costVars>>
     \/ viewed = "latency" /\ ChartNext /\ UNCHANGED <<tableVars, tpsVars, costVars>>
     \/ viewed = "tps" /\ TPSNext /\ UNCHANGED <<tableVars, chartVars, costVars>>
     \/ viewed = "cost" /\ CostNext /\ UNCHANGED <<tableVars, chartVars, tpsVars>>

PanelSpec == PanelInit /\ [][PanelNext]_panelVars

\* No panel leaves a tooltip open that its chart no longer backs: whatever is
\* changed while it is open, data, mode, scale, outliers or size, what it says
\* is what is drawn now, and nothing drawn is nearer (the effects that call
\* hideTooltip: latency-timeseries-chart.tsx:361, exchange-tps-panel.tsx:212,
\* taker-cost-panel.tsx:651).
TooltipsCurrent == HoverCurrent /\ TPSTooltipCurrent /\ CostTooltipCurrent
=============================================================================
