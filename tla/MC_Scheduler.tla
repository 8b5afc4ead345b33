---------------------------- MODULE MC_Scheduler ----------------------------
(* Three tasks: the period of the second is a setting.                      *)
EXTENDS Scheduler
MCPeriods == <<{1}, {2, 3}, {4}>>
=============================================================================
