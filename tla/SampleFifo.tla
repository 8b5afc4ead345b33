----------------------------- MODULE SampleFifo -----------------------------
(***************************************************************************)
(* What the ADS131M04 driver promises to Services/svc_displacement.c: the  *)
(* sample callback gets every frame that was read and kept, once, whole,   *)
(* and in the order it was read; a run with a hole in it goes no further.  *)
(***************************************************************************)
EXTENDS Sequences, Naturals

CONSTANTS
  Labels,     (* frames are numbered in reading order, modulo Labels       *)
  Qualities,  (* what a frame on the wire can look like                    *)
  NoFrame,    (* before the first callback of a run                        *)
  Capacity    (* frames that may wait                                      *)

VARIABLES
  queue,      (* frames kept and not yet passed on                         *)
  sample      (* the last frame passed to the callback                     *)

vars == <<queue, sample>>

Frames == [n : 0 .. Labels - 1, q : Qualities]

(* A run may begin with any frame; then the numbers have no hole.          *)
Continues(f) ==
  LET newest == IF queue = <<>> THEN sample ELSE queue[Len(queue)]
  IN newest # NoFrame => f.n = (newest.n + 1) % Labels

Keep(f) ==
  /\ Len(queue) < Capacity
  /\ Continues(f)
  /\ queue' = Append(queue, f)
  /\ UNCHANGED sample

Deliver ==
  /\ queue # <<>>
  /\ sample' = Head(queue)
  /\ queue' = Tail(queue)

(* A new run begins only when the old one's frames are all passed on.      *)
Restart ==
  /\ queue = <<>>
  /\ sample' = NoFrame
  /\ UNCHANGED queue

Init == queue = <<>> /\ sample = NoFrame

Next == Deliver \/ Restart \/ \E f \in Frames : Keep(f)

Spec == Init /\ [][Next]_vars
=============================================================================
