------------------------------ MODULE MCAlerts ------------------------------
(***************************************************************************)
(* A model-checking instance of Alerts: rules watch for the high value of  *)
(* one of two series, and there is a default rule for each.                *)
(***************************************************************************)
EXTENDS Alerts

CONSTANTS btc, cpu, low, high

MCConditions == {{high}}
MCDefaults   == <<[series |-> btc, cond |-> {high}], [series |-> cpu, cond |-> {high}]>>
=============================================================================
