---------------------------- MODULE MC_Storage ----------------------------
(* Settings storage over the EEPROM driver, for model checking.            *)
EXTENDS Storage
=============================================================================
