------------------------------ MODULE Session ------------------------------
(***************************************************************************)
(* What a host may rely on while it is connected (docs/api-v3-spec.md      *)
(* sections 2 and 5): answers come in the order of the requests, at most   *)
(* one for each, and only for what was asked since it connected; pushes    *)
(* come only between a SUBSCRIBE and the answer to an UNSUBSCRIBE.  A      *)
(* request may stay without an answer.                                     *)
(***************************************************************************)
EXTENDS Integers, Sequences

CONSTANTS Requests   (* records with the fields id and kind                *)

VARIABLES
  open,      (* the host is connected                                      *)
  asked,     (* requests without an answer so far, oldest first            *)
  mayPush,   (* a subscription may be active                               *)
  odd,       (* a packet of several reports was sent: a report of it that  *)
             (* is lost leaves the device out of step with the host        *)
  heard      (* what came last                                             *)

vars == <<open, asked, mayPush, odd, heard>>

TypeOK ==
  /\ open \in BOOLEAN /\ mayPush \in BOOLEAN /\ odd \in BOOLEAN
  /\ asked \in Seq(Requests)
  /\ heard \in {"nothing", "answer", "refusal", "push", "noise"}

NewSession ==
  asked' = <<>> /\ ~mayPush' /\ ~odd' /\ heard' = "nothing"

Init ==
  open = FALSE /\ asked = <<>> /\ mayPush = FALSE /\ odd = FALSE /\ heard = "nothing"

Open == ~open /\ open' /\ NewSession
Close == open /\ ~open' /\ NewSession

Ask(r) ==
  /\ open
  /\ \A k \in DOMAIN asked : asked[k].id # r.id
  /\ asked' = Append(asked, r)
  /\ mayPush' = (mayPush \/ r.kind = "subscribe")
  /\ odd' = (odd \/ r.kind = "over")
  /\ UNCHANGED <<open, heard>>

(* Bytes on the way were lost.                                             *)
FallOutOfStep == open /\ odd' /\ UNCHANGED <<open, asked, mayPush, heard>>

(* In order: a SUBSCRIBE after an UNSUBSCRIBE may have been executed even   *)
(* if its answer is lost.                                                  *)
Lose ==
  /\ asked # <<>> /\ asked' = Tail(asked)
  /\ UNCHANGED <<open, mayPush, odd, heard>>

(* What was asked before and has no answer yet never gets one.             *)
HearAnswer(k) ==
  /\ asked' = SubSeq(asked, k + 1, Len(asked))
  /\ mayPush' = IF asked[k].kind = "unsubscribe"
                THEN \E j \in DOMAIN asked' : asked'[j].kind = "subscribe"
                ELSE mayPush
  /\ heard' = "answer"
  /\ UNCHANGED <<open, odd>>

(* An answer that says the request was not executed.                       *)
HearRefusal(k) ==
  /\ asked' = SubSeq(asked, k + 1, Len(asked)) /\ heard' = "refusal"
  /\ UNCHANGED <<open, mayPush, odd>>

HearPush  == open /\ mayPush /\ heard' = "push" /\ UNCHANGED <<open, asked, mayPush, odd>>
HearNoise == open /\ odd /\ heard' = "noise" /\ UNCHANGED <<open, asked, mayPush, odd>>

Next ==
  \/ Open \/ Close
  \/ \E r \in Requests : Ask(r)
  \/ Lose \/ \E k \in DOMAIN asked : HearAnswer(k) \/ HearRefusal(k)
  \/ HearPush \/ HearNoise \/ FallOutOfStep

Spec == Init /\ [][Next]_vars
=============================================================================
