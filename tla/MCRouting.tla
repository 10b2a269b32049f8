----------------------------- MODULE MCRouting -----------------------------
(* The routing of a small gateway: an instance of Routing for TLC.         *)
EXTENDS Routing, TLC

\* A configuration that allows all targets and a narrower one, both with limits for one model.
MCConfigs ==
  LET target == CHOOSE t \in Targets : TRUE
      model  == CHOOSE m \in Models : TRUE
  IN { [targets |-> ts, models |-> {model}] : ts \in {Targets, {target}} }

\* The theorems about the order of the channels hold of its constants here.
ASSUME RoutingAssumption == S!ConstantsOK
=============================================================================
