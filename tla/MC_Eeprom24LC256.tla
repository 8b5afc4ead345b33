------------------------- MODULE MC_Eeprom24LC256 -------------------------
(* The EEPROM driver alone, under a caller that issues any legal sequence  *)
(* of reads, writes and aborts. Two cells, two values.                     *)
EXTENDS Eeprom24LC256
=============================================================================
