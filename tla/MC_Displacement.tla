-------------------------- MODULE MC_Displacement --------------------------
(* The users of the ADC, for model checking. Transports are interchangeable.*)
EXTENDS Displacement, TLC
TransportSymmetry == Permutations(Transports)
=============================================================================
