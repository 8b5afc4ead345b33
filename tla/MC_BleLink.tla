----------------------------- MODULE MC_BleLink -----------------------------
(* A receive ring of four items, transmit ring of two frames.               *)
EXTENDS BleLink
=============================================================================
