------------------------------ MODULE AdcOwner ------------------------------
(***************************************************************************)
(* The promise of docs/api-v3-spec.md section 7: the ADC has one owner.    *)
(* It goes from one owner to another only through nobody, so that neither  *)
(* finds the other's samples in its way.                                   *)
(***************************************************************************)
VARIABLE owner

Init == owner = "nobody"

Take    == owner = "nobody" /\ owner' \in {"demodulation", "capture"}
Release == owner # "nobody" /\ owner' = "nobody"

Next == Take \/ Release

Spec == Init /\ [][Next]_owner
=============================================================================
