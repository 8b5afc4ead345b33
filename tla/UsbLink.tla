------------------------------ MODULE UsbLink ------------------------------
(***************************************************************************)
(* One host on USB, end to end: the reports it sends, rx_handler (USB      *)
(* interrupt), svc_usb_update and svc_api_update (tasks), the transmit     *)
(* ring, and the IN endpoint the host reads (Services/svc_usb.c,           *)
(* Services/svc_api.c).  The host and the interrupt run between any two    *)
(* steps of a task.                                                        *)
(***************************************************************************)
EXTENDS Integers, Sequences, TxFrame

CONSTANTS
  Ids,           (* requests are told apart by these                       *)
  Kinds,         (* what the host asks, see Kind                           *)
  ShortLen, LongLen, PushLen,  (* bytes of an answer, of a long one, a push*)
  Report,        (* USB_HID_REPORT_SIZE                                    *)
  MaxAsked,      (* requests the host leaves without an answer             *)
  MaxOver,       (* two-report requests in a session                       *)
  EdgesSeen,     (* svc_usb_update runs between two changes of the link    *)
  Nothing

(* "over" is a request with a payload too long for one report; no resource *)
(* takes one, so it is answered BAD_LENGTH (api_spec.py: in_max is 7).     *)
Kind == {"short", "long", "subscribe", "unsubscribe", "over"}
Requests == [id : Ids, kind : Kinds]
(* A packet that was put together from reports of different packets.       *)
Noise == [id |-> Nothing, kind |-> "noise"]
Packets == Requests \cup {Noise}

AnswerLen(p) == IF p.kind = "long" THEN LongLen ELSE ShortLen
Answer(p) == [what |-> "answer", to |-> p, len |-> AnswerLen(p)]
PushFrame == [what |-> "push", to |-> Noise, len |-> PushLen]
LinkFrames == {Answer(p) : p \in Packets} \cup {PushFrame}

ASSUME LinkAssumption ==
  /\ Frames = LinkFrames /\ Kinds \subseteq Kind
  /\ Report \in Nat \ {0} /\ ShortLen <= Report /\ PushLen \in Nat \ {0}
  /\ ShortLen \in Nat \ {0} /\ LongLen \in Nat \ {0}
  /\ Prefix + ShortLen <= Reserve
  /\ MaxAsked \in Nat /\ MaxOver \in Nat /\ EdgesSeen \in BOOLEAN
ASSUME NothingAssumption ==
  Nothing \notin Packets /\ Nothing \notin [frame : Frames, off : Nat]

VARIABLES
  usb,            (* VBUS is there and the host has configured the device  *)
  ep,             (* the IN endpoint: a report the host has not read       *)
  s_was_connected,
  connected,      (* s_t[USB].connected                                    *)
  subscribed,     (* s_t[USB].sub[]: one subscription                      *)
  s_rx_pending,
  s_rx_total,     (* a packet is being collected                           *)
  s_rx_buf,       (* the packet that is collected or pending               *)
  s_tx,
  s_tx_off,
  pc,             (* where the task is                                     *)
  tail,           (* the second report of a request is still to be sent    *)
  rest,           (* bytes the host has of the frame it is receiving       *)
  overs,          (* two-report requests so far                            *)
  asked, mayPush, heard   (* the host's side of Session                    *)

rxVars == <<s_rx_pending, s_rx_total, s_rx_buf>>
txVars == <<s_tx, s_tx_off>>
apiVars == <<connected, subscribed>>
hostVars == <<tail, rest, overs, asked, mayPush, heard>>
vars == <<usb, ep, s_was_connected, apiVars, rxVars, txVars, pc, hostVars>>

TypeOK ==
  /\ usb \in BOOLEAN /\ s_was_connected \in BOOLEAN
  /\ connected \in BOOLEAN /\ subscribed \in BOOLEAN
  /\ s_rx_pending \in BOOLEAN /\ s_rx_total \in BOOLEAN
  /\ s_rx_buf \in Packets \cup {Nothing}
  /\ s_tx \in Ring /\ s_tx_off \in 0 .. LongLen
  /\ ep \in [frame : Frames, off : 0 .. LongLen] \cup {Nothing}
  /\ pc \in {"idle", "rx", "answer", "clear", "pump"}
  /\ tail \in BOOLEAN /\ rest \in 0 .. LongLen /\ overs \in 0 .. MaxOver
  /\ asked \in Seq(Requests) /\ mayPush \in BOOLEAN
  /\ heard \in {"nothing", "answer", "push", "noise", "stray"}

Init ==
  /\ usb = FALSE /\ ep = Nothing /\ s_was_connected = FALSE
  /\ connected = FALSE /\ subscribed = FALSE
  /\ s_rx_pending = FALSE /\ s_rx_total = FALSE /\ s_rx_buf = Nothing
  /\ s_tx = EmptyRing /\ s_tx_off = 0 /\ pc = "idle"
  /\ tail = FALSE /\ rest = 0 /\ overs = 0
  /\ asked = <<>> /\ mayPush = FALSE /\ heard = "nothing"

-----------------------------------------------------------------------------
(* rx_handler.  A report announces how many reports its packet has; a      *)
(* second report taken for a first one announces anything.                 *)
RxHead(p, reports) ==
  IF reports = 0 THEN UNCHANGED rxVars
  ELSE /\ s_rx_buf' = p
       /\ s_rx_pending' = (reports = 1)
       /\ s_rx_total' = (reports = 2)

(* The rest of a packet, or whatever report comes next in its place: then  *)
(* the CRC is wrong and the answer (BAD_CRC) still goes to the first one.  *)
RxRest ==
  /\ s_rx_pending' = TRUE /\ s_rx_total' = FALSE
  /\ UNCHANGED s_rx_buf

RxHandler(p, reports) ==
  IF s_rx_pending THEN UNCHANGED rxVars
  ELSE IF s_rx_total THEN RxRest
  ELSE RxHead(p, reports)

-----------------------------------------------------------------------------
(* The connection edges of svc_usb_update, with svc_api_connected and      *)
(* svc_api_disconnected.                                                   *)
ResetLink_keepsOffset ==
  /\ s_tx' = Reset(s_tx) /\ s_rx_total' = FALSE
  /\ s_rx_buf' = IF s_rx_pending THEN s_rx_buf ELSE Nothing
  /\ UNCHANGED <<s_rx_pending, s_tx_off>>
ResetLink ==
  /\ s_tx' = Reset(s_tx) /\ s_tx_off' = 0 /\ s_rx_total' = FALSE
  /\ s_rx_buf' = IF s_rx_pending THEN s_rx_buf ELSE Nothing
  /\ UNCHANGED s_rx_pending

Edge ==
  /\ s_was_connected' = usb
  /\ IF usb # s_was_connected
     THEN ResetLink /\ connected' = usb /\ subscribed' = FALSE
     ELSE UNCHANGED <<rxVars, txVars, apiVars>>

UpdateBegins ==
  /\ pc = "idle" /\ pc' = "rx" /\ Edge
  /\ UNCHANGED <<usb, ep, hostVars>>

NothingReceived ==
  /\ pc = "rx" /\ ~s_rx_pending /\ pc' = "pump"
  /\ UNCHANGED <<usb, ep, s_was_connected, rxVars, txVars, apiVars, hostVars>>

(* svc_api_receive, dispatch, send_response, send_via_usb up to its pump.  *)
SendAnswer(p) == s_tx' = IF connected THEN Push(s_tx, Answer(p), TRUE) ELSE s_tx
Refused(p) == ~connected \/ ~Fits(s_tx, Answer(p), TRUE)

Dispatch ==
  /\ pc = "rx" /\ s_rx_pending
  /\ subscribed' = CASE s_rx_buf.kind = "subscribe" -> TRUE
                     [] s_rx_buf.kind = "unsubscribe" -> FALSE
                     [] OTHER -> subscribed
  /\ SendAnswer(s_rx_buf)
  /\ pc' = IF Refused(s_rx_buf) THEN "clear" ELSE "answer"
  /\ UNCHANGED <<usb, ep, s_was_connected, connected, rxVars, s_tx_off, hostVars>>

ClearPending ==
  /\ pc = "clear" /\ pc' = "pump"
  /\ s_rx_pending' = FALSE
  /\ s_rx_buf' = Nothing
  /\ UNCHANGED <<usb, ep, s_was_connected, s_rx_total, txVars, apiVars, hostVars>>

(* svc_api_update, svc_api_subscriptions_update: something to push.        *)
ApiUpdate ==
  /\ pc = "idle" /\ connected /\ subscribed
  /\ Fits(s_tx, PushFrame, FALSE)
  /\ s_tx' = Push(s_tx, PushFrame, FALSE)
  /\ pc' = "pump"
  /\ UNCHANGED <<usb, ep, s_was_connected, rxVars, s_tx_off, apiVars, hostVars>>

-----------------------------------------------------------------------------
(* usb_tx_pump: a report at a time while the endpoint takes it.            *)
Pumping == pc \in {"answer", "pump"}
PumpCan == usb /\ ep = Nothing /\ Peek(s_tx) # NoFrame

PumpSends ==
  /\ Pumping /\ PumpCan
  /\ ep' = [frame |-> Peek(s_tx), off |-> s_tx_off]
  /\ IF s_tx_off + Report < Peek(s_tx).len
     THEN s_tx_off' = s_tx_off + Report /\ UNCHANGED s_tx
     ELSE s_tx_off' = 0 /\ s_tx' = DropFront(s_tx)
  /\ UNCHANGED <<usb, s_was_connected, rxVars, apiVars, pc, hostVars>>

PumpStops ==
  /\ Pumping /\ ~PumpCan
  /\ s_tx_off' = IF usb /\ Peek(s_tx) = NoFrame THEN 0 ELSE s_tx_off
  /\ pc' = IF pc = "answer" THEN "clear" ELSE "idle"
  /\ UNCHANGED <<usb, ep, s_was_connected, rxVars, s_tx, apiVars, hostVars>>

Task == UpdateBegins \/ NothingReceived \/ Dispatch \/ ClearPending \/ PumpSends \/ PumpStops

-----------------------------------------------------------------------------
(* The host and the cable.                                                 *)
FreshHost ==
  /\ ep' = Nothing
  /\ tail' = FALSE /\ rest' = 0 /\ overs' = 0
  /\ asked' = <<>> /\ mayPush' = FALSE /\ heard' = "nothing"

LinkChanges ==
  /\ EdgesSeen => s_was_connected = usb
  /\ usb' = ~usb
  /\ FreshHost
  /\ UNCHANGED <<s_was_connected, rxVars, txVars, apiVars, pc>>

InDevice(i) ==
  \/ s_rx_buf # Nothing /\ s_rx_buf.id = i
  \/ ep # Nothing /\ ep.frame.to.id = i
  \/ \E c \in Cells : s_tx.buf[c] # NoByte /\ s_tx.buf[c][1].to.id = i
Asked(i) == \E k \in DOMAIN asked : asked[k].id = i
Fresh == {i \in Ids : ~InDevice(i) /\ ~Asked(i)}

HostAsks(kind) ==
  /\ usb /\ ~tail /\ Len(asked) < MaxAsked /\ Fresh # {}
  /\ kind = "over" => overs < MaxOver
  /\ LET r == [id |-> CHOOSE i \in Fresh : TRUE, kind |-> kind]
     IN asked' = Append(asked, r) /\ RxHandler(r, IF kind = "over" THEN 2 ELSE 1)
  /\ mayPush' = (mayPush \/ kind = "subscribe")
  /\ tail' = (kind = "over")
  /\ overs' = IF kind = "over" THEN overs + 1 ELSE overs
  /\ UNCHANGED <<usb, ep, s_was_connected, txVars, apiVars, pc, rest, heard>>

HostSendsRest ==
  /\ tail /\ tail' = FALSE
  /\ \E reports \in 0 .. 2 : RxHandler(Noise, reports)
  /\ UNCHANGED <<usb, ep, s_was_connected, txVars, apiVars, pc, rest, overs, asked, mayPush, heard>>

(* A frame whose first report was expected, and whose reports were all     *)
(* read, is heard; out of step, the host hears something it cannot place.  *)
HostHears(f) ==
  LET k == IF \E j \in DOMAIN asked : asked[j] = f.to
           THEN CHOOSE j \in DOMAIN asked : asked[j] = f.to ELSE 0
  IN CASE f.what = "push" -> heard' = "push" /\ UNCHANGED <<asked, mayPush>>
       [] f.what # "push" /\ f.to = Noise ->
            heard' = "noise" /\ UNCHANGED <<asked, mayPush>>
       [] f.what # "push" /\ f.to # Noise /\ k = 0 ->
            heard' = "stray" /\ UNCHANGED <<asked, mayPush>>
       [] OTHER ->
            /\ heard' = "answer"
            /\ asked' = SubSeq(asked, k + 1, Len(asked))
            /\ mayPush' = IF f.to.kind # "unsubscribe" THEN mayPush
                          ELSE \E j \in DOMAIN asked' : asked'[j].kind = "subscribe"

HostReads ==
  /\ ep # Nothing /\ ep' = Nothing
  /\ rest' = IF ep.off + Report < ep.frame.len THEN ep.off + Report ELSE 0
  /\ IF ep.off # rest THEN heard' = "stray" /\ UNCHANGED <<asked, mayPush>>
     ELSE IF rest' # 0 THEN UNCHANGED <<asked, mayPush, heard>>
     ELSE HostHears(ep.frame)
  /\ UNCHANGED <<usb, s_was_connected, rxVars, txVars, apiVars, pc, tail, overs>>

(* Nothing in the device will answer it any more.                          *)
RequestIsLost ==
  /\ asked # <<>> /\ ~InDevice(Head(asked).id) /\ asked' = Tail(asked)
  /\ UNCHANGED <<usb, ep, s_was_connected, rxVars, txVars, apiVars, pc,
                 tail, rest, overs, mayPush, heard>>

Next ==
  \/ Task \/ ApiUpdate
  \/ LinkChanges \/ HostReads \/ HostSendsRest \/ RequestIsLost
  \/ \E kind \in Kinds : HostAsks(kind)

Spec == Init /\ [][Next]_vars

(* Tasks end and svc_usb_update gets its turn (run_due_tasks goes round     *)
(* them all); the host polls the endpoint, finishes its packets, and asks  *)
(* again when it has no answer.                                            *)
Fairness ==
  /\ WF_vars(Task) /\ SF_vars(UpdateBegins)
  /\ WF_vars(HostReads) /\ WF_vars(HostSendsRest)
  /\ WF_vars(RequestIsLost) /\ WF_vars(HostAsks("short"))

FairSpec == Spec /\ Fairness
-----------------------------------------------------------------------------
(* The host is the one of Session: across dropped reports, packets out of  *)
(* step and reconnects (svc_usb_update's edges), it hears nothing that     *)
(* was meant for another request or another connection, and no middle of a *)
(* frame whose beginning went to the host before it (s_tx_off).            *)
Host == INSTANCE Session WITH open <- usb, odd <- overs > 0
HostSession == Host!Spec

(* The pump always finds a whole frame at the front of a ring that is not  *)
(* empty: it can neither send bytes of two frames nor get stuck            *)
(* (svc_txframe_peek, svc_txframe_drop_front).                             *)
RingIsNotStuck == ~IsEmpty(s_tx) => Peek(s_tx) # NoFrame

(* Whatever the pushes have filled, the reserve is there for an answer     *)
(* unless an answer is in it already (svc_txframe_push).                   *)
ReserveIsKept ==
  (\A c \in Cells : s_tx.buf[c] # NoByte => s_tx.buf[c][1].what = "push")
    => Free(s_tx) >= Reserve

(* A host that goes on asking for short answers gets them, in whatever     *)
(* state packets out of step, lost answers and pushes have left the device.*)
OnlyShort == \A k \in DOMAIN asked : asked[k].kind = "short"
AnswerHeard == HostReads /\ heard' = "answer"
HostIsServed == <>[](usb /\ OnlyShort) => []<><<AnswerHeard>>_vars

(* No subscription is active for a host that is gone (svc_api_disconnected:*)
(* "A connect or disconnect of the transport clears all its subscriptions",*)
(* docs/api-v3-spec.md).                                                   *)
NoGhostSubscription == subscribed => connected

(* An answer is refused only when answers have filled the reserve          *)
(* (docs/api-v3-spec.md: "so a response can always get out").              *)
ResponseGetsOut ==
  pc = "rx" /\ s_rx_pending /\ connected /\ ~Fits(s_tx, Answer(s_rx_buf), TRUE)
    => \E c \in Cells : s_tx.buf[c] # NoByte /\ s_tx.buf[c][1].what = "answer"
=============================================================================
