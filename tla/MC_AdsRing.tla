---------------------------- MODULE MC_AdsRing ----------------------------
(* The acquisition ring, for model checking.                               *)
EXTENDS AdsRing
=============================================================================
