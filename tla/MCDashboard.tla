----------------------------- MODULE MCDashboard -----------------------------
(* A small instance of Dashboard for TLC.                                   *)
EXTENDS Dashboard, TLC

CONSTANTS x, y, z

Sample(venue, scenarioOf, orderType) ==
  [venue |-> venue, scenario |-> scenarioOf, orderType |-> orderType]

MCSamples == {Sample(x, "single", "post_only"), Sample(y, "single", "post_only"),
              Sample(x, "batch", "post_only"), Sample(y, "single", "ioc"), Sample(z, "single", "post_only")}

\* The long window has venues the short one lacks.
MCStored == [w \in Windows |-> IF w = "12h" THEN {Sample(x, "single", "post_only"), Sample(y, "single", "ioc")}
                                   ELSE MCSamples]
=============================================================================
