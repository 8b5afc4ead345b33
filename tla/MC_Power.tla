------------------------------ MODULE MC_Power ------------------------------
(* The instance of Power that TLC checks.                                   *)
EXTENDS Power
=============================================================================
