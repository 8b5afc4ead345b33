--------------------------- MODULE UsbLinkProofs ---------------------------
(***************************************************************************)
(* The transmit ring on the USB link, for every ring size, reserve, report *)
(* size and frame length: the pump never gets stuck or mixes frames, the   *)
(* reserve is there for the next answer, and the host is the one Session   *)
(* describes.                                                              *)
(***************************************************************************)
EXTENDS UsbLink, TxFrameProofs

Answers == {f \in Frames : f.what = "answer"}

(* The ring is in order, and what is dispatched is a packet.               *)
RingInOrder == s_tx \in Ring /\ Whole(s_tx) /\ Kept(s_tx, Answers)
PacketIsThere ==
  /\ s_rx_pending \/ s_rx_total => s_rx_buf \in Packets
  /\ ~(s_rx_pending /\ s_rx_total)
  /\ pc \in {"answer", "clear"} => s_rx_pending
Inv == RingInOrder /\ PacketIsThere

(* What is sent are frames, and an answer is an answer.                    *)
LEMMA SentAreFrames ==
  /\ PushFrame \in Frames
  /\ \A p \in Packets : Answer(p) \in Frames /\ Answer(p) \in Answers
<1>1. Frames = LinkFrames
  BY LinkAssumption
<1>2. \A p \in Packets : Answer(p) \in Frames /\ Answer(p).what = "answer"
  BY <1>1 DEF LinkFrames, Answer
<1> QED BY <1>1, <1>2 DEF LinkFrames, Answers

(* Initially the ring is empty and nothing is received.                    *)
LEMMA InitInv == Init => Inv
  BY EmptyRingIsWhole DEF Init, Inv, RingInOrder, PacketIsThere

(* rx_handler holds a packet only when it was given one.                   *)
LEMMA ReceivedIsPacket ==
  ASSUME PacketIsThere, NEW p \in Packets, NEW reports \in 0 .. 2, RxHandler(p, reports),
         pc' = pc
  PROVE  PacketIsThere'
<1>1. CASE UNCHANGED rxVars
  BY <1>1 DEF PacketIsThere, rxVars
<1>2. CASE s_rx_total /\ RxRest
  BY <1>2 DEF PacketIsThere, RxRest
<1>3. CASE RxHead(p, reports) /\ ~s_rx_pending /\ ~(UNCHANGED rxVars)
  <2>1. s_rx_buf' = p /\ (s_rx_pending' => reports = 1) /\ (s_rx_total' => reports = 2)
    BY <1>3 DEF RxHead
  <2>2. pc' \notin {"answer", "clear"}
    BY <1>3 DEF PacketIsThere
  <2> QED BY <2>1, <2>2 DEF PacketIsThere
<1> QED BY <1>1, <1>2, <1>3 DEF RxHandler

(* A reset on a connection edge.                                           *)
LEMMA EdgeInv == ASSUME Inv, UpdateBegins PROVE Inv'
<1>0. pc' = "rx"
  BY DEF UpdateBegins
<1>1. CASE ResetLink
  <2>1. RingInOrder'
    BY <1>1, EmptyRingIsWhole DEF ResetLink, RingInOrder, Reset
  <2>2. PacketIsThere'
    BY <1>0, <1>1 DEF Inv, PacketIsThere, ResetLink
  <2> QED BY <2>1, <2>2 DEF Inv
<1>2. CASE UNCHANGED <<rxVars, txVars>>
  BY <1>0, <1>2 DEF Inv, RingInOrder, PacketIsThere, rxVars, txVars
<1> QED BY <1>1, <1>2 DEF UpdateBegins, Edge

(* An answer is pushed as an urgent frame.                                 *)
LEMMA DispatchInv == ASSUME Inv, Dispatch PROVE Inv'
<1>1. s_rx_buf \in Packets /\ s_rx_pending /\ UNCHANGED rxVars
  BY DEF Inv, PacketIsThere, Dispatch
<1>2. Answer(s_rx_buf) \in Frames /\ Answer(s_rx_buf) \in Answers
  BY <1>1, SentAreFrames
<1>3. s_tx' = Push(s_tx, Answer(s_rx_buf), TRUE) \/ s_tx' = s_tx
  BY DEF Dispatch, SendAnswer
<1>4. RingInOrder'
  <2>1. CASE s_tx' = s_tx
    BY <2>1 DEF Inv, RingInOrder
  <2>2. CASE s_tx' = Push(s_tx, Answer(s_rx_buf), TRUE)
    <3>1. /\ Push(s_tx, Answer(s_rx_buf), TRUE) \in Ring
          /\ Whole(Push(s_tx, Answer(s_rx_buf), TRUE))
          /\ Kept(Push(s_tx, Answer(s_rx_buf), TRUE), Answers)
      BY <1>2, PushKeeps DEF Inv, RingInOrder
    <3> QED BY <2>2, <3>1 DEF RingInOrder
  <2> QED BY <1>3, <2>1, <2>2
<1> QED BY <1>1, <1>4 DEF Inv, PacketIsThere, rxVars

(* A push is not urgent.                                                   *)
LEMMA ApiUpdateInv == ASSUME Inv, ApiUpdate PROVE Inv'
<1>1. /\ Push(s_tx, PushFrame, FALSE) \in Ring
      /\ Whole(Push(s_tx, PushFrame, FALSE))
      /\ Kept(Push(s_tx, PushFrame, FALSE), Answers)
  BY SentAreFrames, PushKeeps DEF Inv, RingInOrder
<1>2. s_tx' = Push(s_tx, PushFrame, FALSE) /\ UNCHANGED rxVars /\ pc' = "pump"
  BY DEF ApiUpdate
<1> QED BY <1>1, <1>2 DEF Inv, RingInOrder, PacketIsThere, rxVars

(* The pump drops what it has sent.                                        *)
LEMMA PumpInv == ASSUME Inv, PumpSends PROVE Inv'
<1>1. s_tx' = s_tx \/ s_tx' = DropFront(s_tx)
  BY DEF PumpSends
<1>2. /\ DropFront(s_tx) \in Ring /\ Whole(DropFront(s_tx))
      /\ Kept(DropFront(s_tx), Answers)
  BY DropKeeps DEF Inv, RingInOrder
<1>3. UNCHANGED <<rxVars, pc>>
  BY DEF PumpSends
<1> QED BY <1>1, <1>2, <1>3 DEF Inv, RingInOrder, PacketIsThere, rxVars

(* What the host sends goes to rx_handler only.                            *)
LEMMA HostSendsInv ==
  ASSUME Inv, HostSendsRest \/ \E kind \in Kinds : HostAsks(kind)
  PROVE  Inv'
<1>0. pc' = pc
  BY DEF HostSendsRest, HostAsks
<1>1. UNCHANGED txVars
  BY DEF HostSendsRest, HostAsks
<1>2. CASE HostSendsRest
  <2>1. PICK reports \in 0 .. 2 : RxHandler(Noise, reports)
    BY <1>2 DEF HostSendsRest
  <2>2. PacketIsThere'
    BY <1>0, <2>1, ReceivedIsPacket DEF Inv, Packets
  <2> QED BY <1>1, <2>2 DEF Inv, RingInOrder, txVars
<1>3. CASE \E kind \in Kinds : HostAsks(kind)
  <2>1. PICK kind \in Kinds : HostAsks(kind)
    BY <1>3
  <2> DEFINE r == [id |-> CHOOSE i \in Fresh : TRUE, kind |-> kind]
             reports == IF kind = "over" THEN 2 ELSE 1
  <2>2. RxHandler(r, reports) /\ Fresh # {}
    BY <2>1 DEF HostAsks
  <2>3. r \in Packets /\ reports \in 0 .. 2
    BY <2>2 DEF Packets, Requests, Fresh
  <2>4. PacketIsThere'
    BY <1>0, <2>2, <2>3, ReceivedIsPacket DEF Inv
  <2> QED BY <1>1, <2>4 DEF Inv, RingInOrder, txVars
<1> QED BY <1>2, <1>3

(* Every step keeps the invariant.                                         *)
LEMMA NextInv == ASSUME Inv, [Next]_vars PROVE Inv'
<1>1. CASE NothingReceived \/ PumpStops \/ LinkChanges \/ HostReads \/ RequestIsLost
  <2>1. UNCHANGED <<s_tx, rxVars>>
    BY <1>1 DEF NothingReceived, PumpStops, LinkChanges, HostReads, RequestIsLost, txVars
  <2>2. pc' \in {"answer", "clear"} => pc \in {"answer", "clear"}
    BY <1>1 DEF NothingReceived, PumpStops, LinkChanges, HostReads, RequestIsLost
  <2> QED BY <2>1, <2>2 DEF Inv, RingInOrder, PacketIsThere, rxVars
<1>2. CASE ClearPending
  BY <1>2 DEF ClearPending, Inv, RingInOrder, PacketIsThere, txVars
<1>3. CASE UNCHANGED vars
  BY <1>3 DEF vars, txVars, rxVars, Inv, RingInOrder, PacketIsThere
<1> QED BY <1>1, <1>2, <1>3, EdgeInv, DispatchInv, ApiUpdateInv, PumpInv, HostSendsInv
        DEF Next, Task

-----------------------------------------------------------------------------
(* The transmit ring of the link is always a row of whole frames.          *)
THEOREM LinkInvariant == Spec => []Inv
  BY InitInv, NextInv, PTL DEF Spec

(* The pump finds a whole frame whenever the ring is not empty.            *)
THEOREM PumpFindsAFrame == Spec => []RingIsNotStuck
<1>1. Inv => RingIsNotStuck
  BY PeekIs DEF Inv, RingInOrder, RingIsNotStuck
<1> QED BY <1>1, LinkInvariant, PTL

(* No flood of pushes takes the room of the next answer, for every reserve *)
(* and every length of the pushes.                                         *)
THEOREM AnswersHaveRoom == Spec => []ReserveIsKept
<1>1. Inv => ReserveIsKept
  <2> SUFFICES ASSUME Inv, ~(Free(s_tx) >= Reserve),
                      \A c \in Cells : s_tx.buf[c] # NoByte => s_tx.buf[c][1].what = "push"
               PROVE  FALSE
    BY DEF ReserveIsKept
  <2>1. PICK f \in Answers, k \in Nat : Used(s_tx) > 0 /\ ByteAt(s_tx, Used(s_tx) - 1) = <<f, k>>
    BY DEF Inv, RingInOrder, Kept
  <2>2. s_tx.tail \in Cells /\ Used(s_tx) - 1 \in Cells
    BY <2>1, RingParts, SizeIs DEF Inv, RingInOrder, Cells
  <2>3. PICK c \in Cells : s_tx.buf[c] = <<f, k>>
    BY <2>1, <2>2, PlaceIs DEF ByteAt
  <2>4. <<f, k>> # NoByte /\ f.what = "answer"
    BY FramesAssumption DEF Answers
  <2> QED BY <2>3, <2>4
<1> QED BY <1>1, LinkInvariant, PTL
-----------------------------------------------------------------------------
(* What is still to be heard, in the order in which it will be: a frame    *)
(* whose last report is in the endpoint, the frames of the ring, and the   *)
(* answer to the packet that waits for its dispatch.                       *)
Starts(r) == {x \in (0 .. Size - 1) \X Frames : x[1] < Used(r) /\ ByteAt(r, x[1]) = <<x[2], 0>>}
LastReport == ep # Nothing /\ ~(ep.off + Report < ep.frame.len)
(* Before the device has noticed a connection, its packet is an old one.   *)
Left == s_rx_pending /\ ~connected /\ pc \in {"rx", "clear"}
Waits == s_rx_buf # Nothing /\ pc \notin {"answer", "clear"} /\ ~Left
Stream ==
  {x \in (-1 .. Size) \X Frames :
     \/ x[1] = -1 /\ LastReport /\ x[2] = ep.frame
     \/ x \in Starts(s_tx)
     \/ x[1] = Size /\ Waits /\ x[2] = Answer(s_rx_buf)}

(* A frame the host can place, and two in an order it can place, when a    *)
(* are its requests without an answer.                                     *)
AnswersRequest(f) == f.what = "answer" /\ f.to \in Requests
Expected(f, a, mayPushes, isOdd) ==
  /\ AnswersRequest(f) => \E k \in DOMAIN a : a[k] = f.to
  /\ f = PushFrame => mayPushes
  /\ f = Answer(Noise) => isOdd
Before(p, q, a) == \A k, l \in DOMAIN a : a[k] = p /\ a[l] = q => k < l
SubscribedAfter(p, a) ==
  \A k \in DOMAIN a : a[k] = p => \E l \in DOMAIN a : k < l /\ a[l].kind = "subscribe"
InOrder(f, g, a) ==
  AnswersRequest(f) =>
    /\ AnswersRequest(g) => Before(f.to, g.to, a)
    /\ g = PushFrame /\ f.to.kind = "unsubscribe" => SubscribedAfter(f.to, a)
Sound(S, a, mayPushes, isOdd) ==
  /\ \A x \in S : Expected(x[2], a, mayPushes, isOdd)
  /\ \A x, y \in S : x[1] < y[1] => InOrder(x[2], y[2], a)
PushesSound(S, a, mayPushes) ==
  mayPushes /\ \A x \in S : x[1] < Size => InOrder(x[2], PushFrame, a)
Distinct(a) == \A k, l \in DOMAIN a : a[k].id = a[l].id => k = l
Wanted(a) == \E k \in DOMAIN a : a[k].kind = "subscribe"

HostTypes ==
  /\ ep = Nothing \/ ep \in [frame : Frames, off : Nat]
  /\ s_rx_buf \in Packets \cup {Nothing}
  /\ s_tx_off \in Nat /\ rest \in Nat /\ overs \in Nat
  /\ asked \in Seq(Requests)
  /\ usb \in BOOLEAN /\ connected \in BOOLEAN /\ mayPush \in BOOLEAN
NobodyThere ==
  /\ connected = s_was_connected
  /\ ~connected => s_tx = EmptyRing /\ s_tx_off = 0 /\ pc # "answer"
  /\ ~usb => ep = Nothing /\ asked = <<>> /\ ~tail /\ overs = 0 /\ rest = 0 /\ ~mayPush
  /\ ~usb /\ ~connected /\ ~Left => s_rx_buf = Nothing /\ ~s_rx_pending /\ ~s_rx_total
OffsetsAgree ==
  usb =>
    /\ ep = Nothing => rest = s_tx_off
    /\ ep # Nothing => ep.off = rest
    /\ LastReport => s_tx_off = 0
    /\ ep # Nothing /\ ~LastReport => s_tx_off = ep.off + Report /\ Peek(s_tx) = ep.frame
    /\ s_tx_off > 0 => Peek(s_tx) # NoFrame
HostInv ==
  usb =>
    /\ Distinct(asked) /\ (tail => overs > 0) /\ (Wanted(asked) => mayPush)
    /\ Sound(Stream, asked, mayPush, overs > 0)
    /\ connected /\ subscribed => PushesSound(Stream, asked, mayPush)
SessionInv == HostTypes /\ NobodyThere /\ OffsetsAgree /\ HostInv

(* A frame is a push, or the answer to a packet.                           *)
LEMMA FrameIs ==
  /\ \A f \in Frames :
       \/ f = PushFrame /\ ~AnswersRequest(f) /\ f # Answer(Noise)
       \/ \E p \in Packets : f = Answer(p) /\ f.what = "answer" /\ f.to = p /\ f # PushFrame
  /\ \A p \in Packets : Answer(p).to = p /\ Answer(p).what = "answer" /\ Answer(p) # PushFrame
  /\ Noise \notin Requests /\ ~AnswersRequest(Answer(Noise)) /\ Noise \in Packets
<1>1. \A p \in Packets : Answer(p).to = p /\ Answer(p).what = "answer" /\ Answer(p) # PushFrame
  <2> TAKE p \in Packets
  <2>1. Answer(p).to = p /\ Answer(p).what = "answer"
    BY DEF Answer
  <2>2. PushFrame.what = "push"
    BY DEF PushFrame
  <2> QED BY <2>1, <2>2
<1>2. Noise \notin Requests
  <2>1. \A r \in Requests : r.kind \in Kind
    BY LinkAssumption DEF Requests
  <2>2. Noise.kind = "noise" /\ "noise" \notin Kind
    BY DEF Noise, Kind
  <2> QED BY <2>1, <2>2
<1>3. Noise \in Packets
  BY DEF Packets
<1>4. PushFrame.what # "answer"
  BY DEF PushFrame
<1>5. \A f \in Frames : f = PushFrame \/ \E p \in Packets : f = Answer(p)
  BY LinkAssumption DEF LinkFrames
<1> QED BY <1>1, <1>2, <1>3, <1>4, <1>5 DEF AnswersRequest

(* What is left of a stream, in the same order, is as sound.               *)
MovesTo(m, S, T) ==
  /\ \A x \in T : x[1] \in Int /\ <<m[x[1]], x[2]>> \in S
  /\ \A x, y \in T : x[1] < y[1] => m[x[1]] < m[y[1]]

LEMMA MovedIsSound ==
  ASSUME NEW S, NEW T, NEW a, NEW mp \in BOOLEAN, NEW o \in BOOLEAN, Sound(S, a, mp, o),
         NEW m, MovesTo(m, S, T)
  PROVE  Sound(T, a, mp, o)
<1> USE DEF MovesTo
<1>1. \A x \in T : Expected(x[2], a, mp, o)
  <2> TAKE x \in T
  <2>1. Expected(<<m[x[1]], x[2]>>[2], a, mp, o)
    BY DEF Sound
  <2> QED BY <2>1
<1>2. \A x, y \in T : x[1] < y[1] => InOrder(x[2], y[2], a)
  <2> SUFFICES ASSUME NEW x \in T, NEW y \in T, x[1] < y[1] PROVE InOrder(x[2], y[2], a)
    OBVIOUS
  <2> DEFINE u == <<m[x[1]], x[2]>>
             v == <<m[y[1]], y[2]>>
  <2>1. u \in S /\ v \in S /\ u[1] < v[1]
    OBVIOUS
  <2>2. InOrder(u[2], v[2], a)
    BY <2>1 DEF Sound
  <2> QED BY <2>2
<1> QED BY <1>1, <1>2 DEF Sound

(* ... and as ready for the next push.                                     *)
LEMMA MovedKeepsPushes ==
  ASSUME NEW S, NEW T, NEW a, NEW mp \in BOOLEAN, PushesSound(S, a, mp),
         NEW m \in [Int -> Int],
         \A x \in T : x[1] < Size => <<m[x[1]], x[2]>> \in S /\ m[x[1]] < Size
  PROVE  PushesSound(T, a, mp)
<1> SUFFICES ASSUME NEW x \in T, x[1] < Size PROVE InOrder(x[2], PushFrame, a)
  BY DEF PushesSound
<1> DEFINE u == <<m[x[1]], x[2]>>
<1>1. u \in S /\ u[1] < Size
  OBVIOUS
<1>2. InOrder(u[2], PushFrame, a)
  BY <1>1 DEF PushesSound
<1> QED BY <1>2

(* A new request comes last.                                               *)
IsNew(r, a) == \A k \in DOMAIN a : a[k].id # r.id

(* A request that is asked.                                                *)
LEMMA AppendIs ==
  ASSUME NEW a \in Seq(Requests), NEW r \in Requests
  PROVE  /\ Append(a, r) \in Seq(Requests)
         /\ Len(a) \in Nat /\ DOMAIN a = 1 .. Len(a)
         /\ DOMAIN Append(a, r) = 1 .. Len(a) + 1
         /\ \A k \in 1 .. Len(a) : Append(a, r)[k] = a[k]
         /\ Append(a, r)[Len(a) + 1] = r
OBVIOUS

(* Its id is new, so all ids are different still.                          *)
LEMMA AskedIsDistinct ==
  ASSUME NEW a \in Seq(Requests), NEW r \in Requests, IsNew(r, a), Distinct(a)
  PROVE  Distinct(Append(a, r))
<1> DEFINE b == Append(a, r)
           n == Len(a)
<1>1. n \in Nat /\ DOMAIN a = 1 .. n /\ DOMAIN b = 1 .. n + 1 /\ b[n + 1] = r
      /\ \A k \in 1 .. n : b[k] = a[k]
  BY AppendIs
<1> HIDE DEF b, n
<1> SUFFICES ASSUME NEW k \in 1 .. n + 1, NEW l \in 1 .. n + 1, b[k].id = b[l].id
             PROVE  k = l
  BY <1>1 DEF Distinct, b
<1>2. (k \in 1 .. n \/ k = n + 1) /\ (l \in 1 .. n \/ l = n + 1)
  BY <1>1
<1> QED BY <1>1, <1>2 DEF Distinct, IsNew

(* What was in order stays so.                                             *)
LEMMA AskedStaysInOrder ==
  ASSUME NEW a \in Seq(Requests), NEW r \in Requests, IsNew(r, a),
         NEW f, NEW g, InOrder(f, g, a),
         NEW mp, NEW o, NEW mp2, NEW o2, Expected(f, a, mp, o), Expected(g, a, mp2, o2)
  PROVE  InOrder(f, g, Append(a, r))
<1> DEFINE b == Append(a, r)
           n == Len(a)
<1>1. n \in Nat /\ DOMAIN a = 1 .. n /\ DOMAIN b = 1 .. n + 1 /\ b[n + 1] = r
      /\ \A k \in 1 .. n : b[k] = a[k]
  BY AppendIs
<1> HIDE DEF b, n
<1> SUFFICES ASSUME AnswersRequest(f)
             PROVE  /\ AnswersRequest(g) => Before(f.to, g.to, b)
                    /\ g = PushFrame /\ f.to.kind = "unsubscribe" => SubscribedAfter(f.to, b)
  BY DEF InOrder, b
<1>2. f.to # r
  BY <1>1 DEF Expected, IsNew
<1>3. \A k \in DOMAIN b : b[k] = f.to => k \in 1 .. n
  BY <1>1, <1>2
<1>4. ASSUME AnswersRequest(g) PROVE Before(f.to, g.to, b)
  <2>1. g.to # r
    BY <1>1, <1>4 DEF Expected, IsNew
  <2>2. Before(f.to, g.to, a)
    BY <1>4 DEF InOrder
  <2> QED BY <1>1, <1>3, <2>1, <2>2 DEF Before
<1>5. ASSUME g = PushFrame, f.to.kind = "unsubscribe" PROVE SubscribedAfter(f.to, b)
  <2>1. SubscribedAfter(f.to, a)
    BY <1>5 DEF InOrder
  <2> SUFFICES ASSUME NEW k \in DOMAIN b, b[k] = f.to
               PROVE  \E l \in DOMAIN b : k < l /\ b[l].kind = "subscribe"
    BY DEF SubscribedAfter
  <2>2. k \in 1 .. n /\ a[k] = f.to
    BY <1>1, <1>3
  <2>3. PICK l \in 1 .. n : k < l /\ a[l].kind = "subscribe"
    BY <1>1, <2>1, <2>2 DEF SubscribedAfter
  <2> QED BY <1>1, <2>3
<1> QED BY <1>4, <1>5

(* The answer to a new request comes after whatever is expected.           *)
LEMMA NewComesLast ==
  ASSUME NEW a \in Seq(Requests), NEW r \in Requests, IsNew(r, a), NEW f,
         NEW mp, NEW o, Expected(f, a, mp, o)
  PROVE  InOrder(f, Answer(r), Append(a, r))
<1> DEFINE b == Append(a, r)
           n == Len(a)
<1>1. n \in Nat /\ DOMAIN a = 1 .. n /\ DOMAIN b = 1 .. n + 1 /\ b[n + 1] = r
      /\ \A k \in 1 .. n : b[k] = a[k]
  BY AppendIs
<1>2. Answer(r).to = r /\ Answer(r) # PushFrame
  BY FrameIs DEF Packets
<1> HIDE DEF b, n
<1> SUFFICES ASSUME AnswersRequest(f) PROVE Before(f.to, r, b)
  BY <1>2 DEF InOrder, b
<1>3. f.to # r /\ \A k \in 1 .. n : a[k] # r
  BY <1>1 DEF Expected, IsNew
<1> QED BY <1>1, <1>3 DEF Before

(* What is expected stays so.                                              *)
LEMMA AskedStaysExpected ==
  ASSUME NEW a \in Seq(Requests), NEW r \in Requests, NEW f,
         NEW mp, NEW o, NEW mp2, NEW o2, mp => mp2, o => o2, Expected(f, a, mp, o)
  PROVE  Expected(f, Append(a, r), mp2, o2)
<1> DEFINE b == Append(a, r)
           n == Len(a)
<1>1. n \in Nat /\ DOMAIN a = 1 .. n /\ DOMAIN b = 1 .. n + 1
      /\ \A k \in 1 .. n : b[k] = a[k]
  BY AppendIs
<1> HIDE DEF b, n
<1>2. AnswersRequest(f) => \E k \in DOMAIN b : b[k] = f.to
  <2> SUFFICES ASSUME AnswersRequest(f) PROVE \E k \in DOMAIN b : b[k] = f.to
    OBVIOUS
  <2>1. PICK k \in 1 .. n : a[k] = f.to
    BY <1>1 DEF Expected
  <2> QED BY <1>1, <2>1
<1> QED BY <1>2 DEF Expected, b

-----------------------------------------------------------------------------
(* The first n of the requests are over.                                   *)
CutTo(a, n, b) ==
  /\ n \in Nat /\ a \in Seq(Requests) /\ b \in Seq(Requests)
  /\ Len(a) = Len(b) + n
  /\ \A j \in 1 .. Len(b) : b[j] = a[j + n]

(* The first requests are forgotten: an answer came, or they are lost.     *)
LEMMA CutOrder ==
  ASSUME NEW a, NEW b, NEW n, CutTo(a, n, b), NEW f, NEW g, InOrder(f, g, a)
  PROVE  InOrder(f, g, b)
<1>1. /\ n \in Nat /\ Len(b) \in Nat /\ DOMAIN b = 1 .. Len(b) /\ Len(a) = Len(b) + n
      /\ DOMAIN a = 1 .. Len(a) /\ \A j \in 1 .. Len(b) : b[j] = a[j + n]
  BY DEF CutTo
<1>2. \A j \in DOMAIN b : j + n \in DOMAIN a /\ b[j] = a[j + n]
  BY <1>1
<1> SUFFICES ASSUME AnswersRequest(f)
             PROVE  /\ AnswersRequest(g) => Before(f.to, g.to, b)
                    /\ g = PushFrame /\ f.to.kind = "unsubscribe" => SubscribedAfter(f.to, b)
  BY DEF InOrder
<1>3. ASSUME AnswersRequest(g) PROVE Before(f.to, g.to, b)
  <2>1. Before(f.to, g.to, a)
    BY <1>3 DEF InOrder
  <2> SUFFICES ASSUME NEW k \in DOMAIN b, NEW l \in DOMAIN b, b[k] = f.to, b[l] = g.to
               PROVE  k < l
    BY DEF Before
  <2>2. k + n < l + n
    BY <1>2, <2>1 DEF Before
  <2> QED BY <1>1, <2>2
<1>4. ASSUME g = PushFrame, f.to.kind = "unsubscribe" PROVE SubscribedAfter(f.to, b)
  <2>1. SubscribedAfter(f.to, a)
    BY <1>4 DEF InOrder
  <2> SUFFICES ASSUME NEW k \in DOMAIN b, b[k] = f.to
               PROVE  \E l \in DOMAIN b : k < l /\ b[l].kind = "subscribe"
    BY DEF SubscribedAfter
  <2>2. PICK l \in DOMAIN a : k + n < l /\ a[l].kind = "subscribe"
    BY <1>2, <2>1 DEF SubscribedAfter
  <2>3. l - n \in 1 .. Len(b) /\ k < l - n /\ (l - n) + n = l
    BY <1>1, <2>2
  <2>4. b[l - n] = a[l]
    BY <1>1, <2>3
  <2> QED BY <1>1, <2>2, <2>3, <2>4
<1> QED BY <1>3, <1>4

(* A frame of which the request is not over is still expected.             *)
LEMMA CutExpected ==
  ASSUME NEW a, NEW b, NEW n, CutTo(a, n, b), NEW f, NEW mp, NEW mp2, NEW o,
         Expected(f, a, mp, o),
         AnswersRequest(f) => \A k \in DOMAIN a : a[k] = f.to => k > n,
         f = PushFrame => mp2
  PROVE  Expected(f, b, mp2, o)
<1>1. /\ n \in Nat /\ Len(b) \in Nat /\ DOMAIN b = 1 .. Len(b) /\ Len(a) = Len(b) + n
      /\ DOMAIN a = 1 .. Len(a) /\ \A j \in 1 .. Len(b) : b[j] = a[j + n]
  BY DEF CutTo
<1>2. ASSUME AnswersRequest(f) PROVE \E k \in DOMAIN b : b[k] = f.to
  <2>1. PICK k \in DOMAIN a : a[k] = f.to /\ k > n
    BY <1>2 DEF Expected
  <2>2. k - n \in 1 .. Len(b) /\ (k - n) + n = k
    BY <1>1, <2>1
  <2>3. b[k - n] = a[k]
    BY <1>1, <2>2
  <2> QED BY <1>1, <2>1, <2>2, <2>3
<1> QED BY <1>2 DEF Expected

(* The ids of those that are left.                                         *)
LEMMA CutDistinct ==
  ASSUME NEW a, NEW b, NEW n, CutTo(a, n, b), Distinct(a)
  PROVE  Distinct(b) /\ (Wanted(b) => Wanted(a))
<1>1. /\ n \in Nat /\ Len(b) \in Nat /\ DOMAIN b = 1 .. Len(b) /\ Len(a) = Len(b) + n
      /\ DOMAIN a = 1 .. Len(a) /\ \A j \in 1 .. Len(b) : b[j] = a[j + n]
  BY DEF CutTo
<1>2. \A j \in DOMAIN b : j + n \in DOMAIN a /\ b[j] = a[j + n]
  BY <1>1
<1>3. Distinct(b)
  <2> SUFFICES ASSUME NEW k \in DOMAIN b, NEW l \in DOMAIN b, b[k].id = b[l].id
               PROVE  k = l
    BY DEF Distinct
  <2>1. k + n = l + n
    BY <1>2 DEF Distinct
  <2> QED BY <1>1, <2>1
<1> QED BY <1>2, <1>3 DEF Wanted

-----------------------------------------------------------------------------
(* Where the frames of the ring begin.                                     *)
LEMMA PushStarts ==
  ASSUME NEW r \in Ring, NEW f \in Frames, NEW urgent \in BOOLEAN, Fits(r, f, urgent)
  PROVE  \A x \in Starts(Push(r, f, urgent)) : x \in Starts(r) \/ x = <<Used(r), f>>
<1> DEFINE w == Written(r, f)
           u == Used(r)
           n == Need(f)
<1>1. u \in Nat /\ n \in Nat /\ n > 0 /\ Size \in Nat \ {0} /\ Reserve \in Nat /\ u < Size
  BY RingParts, NeedIs, SizeIs, RingAssumption
<1>2. u + n < Size
  BY <1>1 DEF Fits, Free, Want
<1>3. /\ Used(w) = u + n
      /\ \A j \in 0 .. u - 1 : ByteAt(w, j) = ByteAt(r, j)
      /\ \A k \in 0 .. n - 1 : ByteAt(w, u + k) = <<f, k>>
  BY <1>2, WrittenIs
<1>4. Push(r, f, urgent) = w
  BY DEF Push
<1> HIDE DEF w, u, n
<1> SUFFICES ASSUME NEW x \in Starts(w) PROVE x \in Starts(r) \/ x = <<u, f>>
  BY <1>4 DEF u
<1>5. /\ x \in (0 .. Size - 1) \X Frames /\ x = <<x[1], x[2]>>
      /\ x[1] \in 0 .. Size - 1 /\ x[1] < u + n /\ ByteAt(w, x[1]) = <<x[2], 0>>
  BY <1>3 DEF Starts
<1>6. CASE x[1] < u
  <2>1. x[1] \in 0 .. u - 1
    BY <1>1, <1>5, <1>6
  <2>2. ByteAt(r, x[1]) = <<x[2], 0>>
    BY <1>3, <1>5, <2>1
  <2> QED BY <1>5, <1>6, <2>2 DEF Starts, u
<1>7. CASE ~(x[1] < u)
  <2>1. x[1] - u \in 0 .. n - 1 /\ u + (x[1] - u) = x[1]
    BY <1>1, <1>5, <1>7
  <2>2. <<x[2], 0>> = <<f, x[1] - u>>
    BY <1>3, <1>5, <2>1
  <2>3. x[2] = f /\ x[1] - u = 0
    BY <2>2
  <2>4. x[1] = u
    BY <1>1, <1>5, <2>3
  <2> QED BY <1>5, <2>3, <2>4
<1> QED BY <1>6, <1>7

(* A push leaves the front where it is.                                    *)
LEMMA PushFront ==
  ASSUME NEW r \in Ring, Whole(r), NEW f \in Frames, NEW urgent \in BOOLEAN,
         Peek(r) # NoFrame
  PROVE  Peek(Push(r, f, urgent)) = Peek(r) /\ Peek(r) \in Frames
<1>0. ~IsEmpty(r)
  BY DEF Peek
<1>1. Peek(r) \in Frames /\ Lies(r, Peek(r), 0)
  BY <1>0, PeekIs
<1>2. CASE ~Fits(r, f, urgent)
  BY <1>1, <1>2 DEF Push
<1>3. CASE Fits(r, f, urgent)
  <2> DEFINE w == Written(r, f)
             u == Used(r)
             n == Need(f)
             g == Peek(r)
  <2>1. u \in Nat /\ n \in Nat /\ n > 0 /\ Size \in Nat \ {0} /\ Reserve \in Nat /\ u < Size
    BY RingParts, NeedIs, SizeIs, RingAssumption
  <2>2. u + n < Size
    BY <1>3, <2>1 DEF Fits, Free, Want
  <2>3. /\ w \in Ring /\ Used(w) = u + n
        /\ \A j \in 0 .. u - 1 : ByteAt(w, j) = ByteAt(r, j)
    BY <2>2, WrittenIs
  <2>4. Push(r, f, urgent) = w
    BY <1>3 DEF Push
  <2>5. Need(g) \in Nat /\ Need(g) > 0 /\ Need(g) <= u
        /\ \A k \in 0 .. Need(g) - 1 : ByteAt(r, k) = <<g, k>>
    BY <1>1, NeedIs DEF Lies
  <2> HIDE DEF w, u, n, g
  <2>6. \A k \in 0 .. Need(g) - 1 : ByteAt(w, k) = <<g, k>>
    BY <2>1, <2>3, <2>5
  <2>7. ByteAt(w, 0) = <<g, 0>>
    BY <2>5, <2>6
  <2>8. ~IsEmpty(w)
    <3>1. w.head \in Cells /\ w.tail \in Cells /\ Used(w) = Dist(w.head, w.tail)
      BY <2>3, RingParts DEF Used
    <3>2. w.head = w.tail => Used(w) = 0
      <4>1. Dist(w.head, w.tail) = IF w.head >= w.tail THEN w.head - w.tail
                                   ELSE w.head - w.tail + Size
        BY <3>1, DistIs
      <4>2. w.head \in Int
        BY <2>1, <3>1 DEF Cells
      <4> QED BY <3>1, <4>1, <4>2
    <3> QED BY <2>1, <2>3, <3>2 DEF IsEmpty
  <2>9. <<g, 0>> # NoByte
    BY <1>1, FramesAssumption DEF g
  <2>10. Peek(w) = g
    BY <2>6, <2>7, <2>8, <2>9 DEF Peek, FrontIs
  <2> QED BY <1>1, <2>4, <2>10 DEF g
<1> QED BY <1>2, <1>3

(* A drop takes the first frame and moves the others up.                   *)
LEMMA DropStarts ==
  ASSUME NEW r \in Ring, Whole(r), Peek(r) # NoFrame
  PROVE  /\ Peek(r) \in Frames /\ Need(Peek(r)) \in Nat \ {0}
         /\ <<0, Peek(r)>> \in Starts(r)
         /\ \A x \in Starts(DropFront(r)) : <<x[1] + Need(Peek(r)), x[2]>> \in Starts(r)
<1>0. ~IsEmpty(r)
  BY DEF Peek
<1>1. Peek(r) \in Frames /\ Lies(r, Peek(r), 0)
  BY <1>0, PeekIs
<1> DEFINE g == Peek(r)
           n == Need(g)
           u == Used(r)
           d == Dropped(r, n)
<1>2. n \in Nat /\ n > 0 /\ n <= u /\ u \in Nat /\ u < Size /\ Size \in Nat
      /\ \A k \in 0 .. n - 1 : ByteAt(r, k) = <<g, k>>
  BY <1>1, NeedIs, RingParts, SizeIs DEF Lies
<1>3. Used(d) = u - n /\ \A j \in 0 .. u - n - 1 : ByteAt(d, j) = ByteAt(r, n + j)
  BY <1>2, DroppedIs
<1>4. DropFront(r) = d
  BY DEF DropFront
<1> HIDE DEF g, n, u, d
<1>5. <<0, g>> \in Starts(r)
  BY <1>1, <1>2 DEF Starts, u, g
<1>6. ASSUME NEW x \in Starts(d) PROVE <<x[1] + n, x[2]>> \in Starts(r)
  <2>1. /\ x \in (0 .. Size - 1) \X Frames /\ x[1] \in 0 .. Size - 1 /\ x[2] \in Frames
        /\ x[1] < u - n /\ ByteAt(d, x[1]) = <<x[2], 0>>
    BY <1>3 DEF Starts
  <2>2. x[1] \in 0 .. u - n - 1 /\ n + x[1] = x[1] + n /\ x[1] + n \in 0 .. Size - 1
        /\ x[1] + n < u
    BY <1>2, <2>1
  <2>3. ByteAt(r, x[1] + n) = <<x[2], 0>>
    BY <1>3, <2>1, <2>2
  <2> QED BY <2>1, <2>2, <2>3 DEF Starts, u
<1> QED BY <1>1, <1>2, <1>4, <1>5, <1>6 DEF g, n

(* Nothing begins in a ring that is empty.                                 *)
LEMMA NothingStarts == Starts(EmptyRing) = {} /\ Peek(EmptyRing) = NoFrame
<1>1. Used(EmptyRing) = 0
  <2>1. Size \in Nat \ {0} /\ 0 \in Cells
    BY SizeIs DEF Cells
  <2>2. Dist(0, 0) = 0
    BY <2>1, DistIs
  <2> QED BY <2>2 DEF Used, EmptyRing
<1>2. IsEmpty(EmptyRing)
  BY DEF IsEmpty, EmptyRing
<1> QED BY <1>1, <1>2 DEF Starts, Peek

(* Everything in the stream is a frame, in one of three places.            *)
LEMMA StreamIs ==
  ASSUME NEW x \in Stream
  PROVE  /\ x = <<x[1], x[2]>> /\ x[1] \in Int /\ x[2] \in Frames
         /\ -1 <= x[1] /\ x[1] <= Size
         /\ \/ x[1] = -1 /\ LastReport /\ x[2] = ep.frame
            \/ x \in Starts(s_tx) /\ 0 <= x[1] /\ x[1] < Used(s_tx)
            \/ x[1] = Size /\ Waits /\ x[2] = Answer(s_rx_buf)
<1>1. x \in (-1 .. Size) \X Frames
  BY DEF Stream
<1>2. x \in Starts(s_tx) => 0 <= x[1] /\ x[1] < Used(s_tx)
  BY DEF Starts
<1> QED BY <1>1, <1>2, SizeIs DEF Stream

-----------------------------------------------------------------------------
(* The steps of the device: the host notices nothing, and what it will     *)
(* hear stays sound.                                                       *)
HostRefinement == [Host!Next]_(Host!vars)

(* A part of a stream is as sound as the stream.                           *)
LEMMA PartIsSound ==
  ASSUME NEW S, NEW T \in SUBSET S, NEW a, NEW mp, NEW o
  PROVE  /\ Sound(S, a, mp, o) => Sound(T, a, mp, o)
         /\ PushesSound(S, a, mp) => PushesSound(T, a, mp)
BY DEF Sound, PushesSound

(* A step that nobody at the host sees.                                    *)
LEMMA DeviceStep ==
  ASSUME HostInv, UNCHANGED <<usb, hostVars>>,
         usb => Sound(Stream', asked, mayPush, overs > 0),
         usb /\ connected' /\ subscribed' => PushesSound(Stream', asked, mayPush)
  PROVE  HostInv' /\ HostRefinement
<1>1. UNCHANGED <<usb, tail, rest, overs, asked, mayPush, heard>>
  BY DEF hostVars
<1>2. HostRefinement
  BY <1>1 DEF HostRefinement, Host!vars
<1>3. HostInv'
  BY <1>1 DEF HostInv
<1> QED BY <1>2, <1>3

LEMMA DevicePart ==
  ASSUME HostInv, UNCHANGED <<usb, hostVars>>, usb => Stream' \subseteq Stream,
         connected' /\ subscribed' => connected /\ subscribed
  PROVE  HostInv' /\ HostRefinement
<1>1. ASSUME usb PROVE Sound(Stream', asked, mayPush, overs > 0)
  BY <1>1, PartIsSound DEF HostInv
<1>2. ASSUME usb, connected', subscribed' PROVE PushesSound(Stream', asked, mayPush)
  BY <1>2, PartIsSound DEF HostInv
<1> QED BY <1>1, <1>2, DeviceStep

LEMMA UpdateBeginsStep ==
  ASSUME Inv, SessionInv, UpdateBegins PROVE SessionInv' /\ HostRefinement
<1>1. /\ pc = "idle" /\ pc' = "rx" /\ s_was_connected' = usb
      /\ UNCHANGED <<usb, ep, hostVars>>
      /\ UNCHANGED <<usb, ep, tail, rest, overs, asked, mayPush, heard>>
  BY DEF UpdateBegins, Edge, hostVars
<1>2. ~Left /\ connected = s_was_connected
  BY <1>1 DEF Left, SessionInv, NobodyThere
<1>3. LastReport' = LastReport
  BY <1>1 DEF LastReport
<1>4. CASE usb # s_was_connected
  <2>1. /\ s_tx' = EmptyRing /\ s_tx_off' = 0 /\ s_rx_total' = FALSE
        /\ s_rx_buf' = IF s_rx_pending THEN s_rx_buf ELSE Nothing
        /\ s_rx_pending' = s_rx_pending /\ connected' = usb /\ subscribed' = FALSE
    BY <1>4 DEF UpdateBegins, Edge, ResetLink, Reset
  <2>2. Stream' \subseteq Stream
    <3>1. Starts(s_tx') = {}
      BY <2>1, NothingStarts
    <3>2. Waits' => Waits /\ s_rx_buf' = s_rx_buf
      BY <1>1, <1>2, <2>1 DEF Waits
    <3> QED BY <1>1, <1>3, <3>1, <3>2 DEF Stream
  <2>3. HostInv' /\ HostRefinement
    BY <1>1, <2>1, <2>2, DevicePart DEF SessionInv
  <2>4. HostTypes'
    BY <1>1, <2>1 DEF SessionInv, HostTypes
  <2>5. NobodyThere'
    BY <1>1, <2>1 DEF SessionInv, NobodyThere, Left
  <2>6. OffsetsAgree'
    <3> SUFFICES ASSUME usb PROVE OffsetsAgree'
      BY <1>1 DEF OffsetsAgree
    <3>1. s_tx' = s_tx /\ s_tx_off' = s_tx_off
      BY <1>2, <1>4, <2>1 DEF SessionInv, NobodyThere, HostTypes
    <3> QED BY <1>1, <1>3, <3>1 DEF SessionInv, OffsetsAgree
  <2> QED BY <2>3, <2>4, <2>5, <2>6 DEF SessionInv
<1>5. CASE usb = s_was_connected
  <2>1. /\ UNCHANGED <<s_tx, s_tx_off, s_rx_total, s_rx_buf, s_rx_pending>>
        /\ UNCHANGED <<connected, subscribed, s_was_connected>>
    BY <1>1, <1>5 DEF UpdateBegins, Edge, rxVars, txVars, apiVars
  <2>2. Stream' \subseteq Stream
    <3>1. Waits' => Waits
      BY <1>1, <1>2, <2>1 DEF Waits
    <3> QED BY <1>1, <1>3, <2>1, <3>1 DEF Stream
  <2>3. HostInv' /\ HostRefinement
    BY <1>1, <2>1, <2>2, DevicePart DEF SessionInv
  <2>4. HostTypes'
    BY <1>1, <2>1 DEF SessionInv, HostTypes
  <2>5. NobodyThere'
    BY <1>1, <1>2, <2>1 DEF SessionInv, NobodyThere
  <2>6. OffsetsAgree'
    BY <1>1, <1>3, <2>1 DEF SessionInv, OffsetsAgree
  <2> QED BY <2>3, <2>4, <2>5, <2>6 DEF SessionInv
<1> QED BY <1>4, <1>5

LEMMA NothingReceivedStep ==
  ASSUME Inv, SessionInv, NothingReceived PROVE SessionInv' /\ HostRefinement
<1>1. /\ pc = "rx" /\ ~s_rx_pending /\ pc' = "pump"
      /\ UNCHANGED <<usb, ep, hostVars, s_was_connected>>
      /\ UNCHANGED <<usb, ep, tail, rest, overs, asked, mayPush, heard>>
      /\ UNCHANGED <<s_tx, s_tx_off, s_rx_total, s_rx_buf, s_rx_pending, connected, subscribed>>
  BY DEF NothingReceived, hostVars, rxVars, txVars, apiVars
<1>2. LastReport' = LastReport /\ ~Left /\ (Waits' => Waits)
  BY <1>1 DEF LastReport, Left, Waits
<1>3. Stream' \subseteq Stream
  BY <1>1, <1>2 DEF Stream
<1>4. HostInv' /\ HostRefinement
  BY <1>1, <1>3, DevicePart DEF SessionInv
<1>5. HostTypes' /\ OffsetsAgree'
  BY <1>1, <1>2 DEF SessionInv, HostTypes, OffsetsAgree
<1>6. NobodyThere'
  BY <1>1, <1>2 DEF SessionInv, NobodyThere
<1> QED BY <1>4, <1>5, <1>6 DEF SessionInv

LEMMA ClearPendingStep ==
  ASSUME Inv, SessionInv, ClearPending PROVE SessionInv' /\ HostRefinement
<1>1. /\ pc = "clear" /\ pc' = "pump" /\ s_rx_pending' = FALSE /\ s_rx_buf' = Nothing
      /\ UNCHANGED <<usb, ep, hostVars, s_was_connected>>
      /\ UNCHANGED <<usb, ep, tail, rest, overs, asked, mayPush, heard>>
      /\ UNCHANGED <<s_tx, s_tx_off, s_rx_total, connected, subscribed>>
  BY DEF ClearPending, hostVars, txVars, apiVars
<1>2. LastReport' = LastReport /\ ~Waits'
  BY <1>1 DEF LastReport, Waits
<1>3. Stream' \subseteq Stream
  BY <1>1, <1>2 DEF Stream
<1>4. HostInv' /\ HostRefinement
  BY <1>1, <1>3, DevicePart DEF SessionInv
<1>5. HostTypes' /\ OffsetsAgree'
  BY <1>1, <1>2 DEF SessionInv, HostTypes, OffsetsAgree
<1>6. ~s_rx_total'
  BY <1>1 DEF Inv, PacketIsThere
<1>7. NobodyThere'
  BY <1>1, <1>6 DEF SessionInv, NobodyThere
<1> QED BY <1>4, <1>5, <1>7 DEF SessionInv

LEMMA PumpStopsStep ==
  ASSUME Inv, SessionInv, PumpStops PROVE SessionInv' /\ HostRefinement
<1>1. /\ pc \in {"answer", "pump"} /\ pc' = (IF pc = "answer" THEN "clear" ELSE "idle")
      /\ s_tx_off' = (IF usb /\ Peek(s_tx) = NoFrame THEN 0 ELSE s_tx_off)
      /\ UNCHANGED <<usb, ep, hostVars, s_was_connected>>
      /\ UNCHANGED <<usb, ep, tail, rest, overs, asked, mayPush, heard>>
      /\ UNCHANGED <<s_tx, s_rx_total, s_rx_buf, s_rx_pending, connected, subscribed>>
  BY DEF PumpStops, Pumping, hostVars, rxVars, apiVars
<1>2. s_tx_off' = s_tx_off
  BY <1>1 DEF SessionInv, OffsetsAgree, HostTypes
<1>3. LastReport' = LastReport /\ ~Left /\ (Waits' => Waits)
  BY <1>1 DEF LastReport, Left, Waits
<1>4. Stream' \subseteq Stream
  BY <1>1, <1>3 DEF Stream
<1>5. HostInv' /\ HostRefinement
  BY <1>1, <1>4, DevicePart DEF SessionInv
<1>6. HostTypes' /\ OffsetsAgree'
  BY <1>1, <1>2, <1>3 DEF SessionInv, HostTypes, OffsetsAgree
<1>7. NobodyThere'
  BY <1>1, <1>2, <1>3 DEF SessionInv, NobodyThere
<1> QED BY <1>5, <1>6, <1>7 DEF SessionInv

(* The pump moves the front of the ring into the endpoint.                 *)
LEMMA PumpSendsStep ==
  ASSUME Inv, SessionInv, PumpSends PROVE SessionInv' /\ HostRefinement
<1> DEFINE f == Peek(s_tx)
           n == Need(f)
<1>1. /\ usb /\ ep = Nothing /\ f # NoFrame /\ ep' = [frame |-> f, off |-> s_tx_off]
      /\ UNCHANGED <<usb, hostVars, s_was_connected>>
      /\ UNCHANGED <<tail, rest, overs, asked, mayPush, heard>>
      /\ UNCHANGED <<pc, s_rx_total, s_rx_buf, s_rx_pending, connected, subscribed>>
  BY DEF PumpSends, PumpCan, hostVars, rxVars, apiVars
<1>2. s_tx \in Ring /\ Whole(s_tx)
  BY DEF Inv, RingInOrder
<1>3. /\ f \in Frames /\ n \in Nat \ {0} /\ <<0, f>> \in Starts(s_tx)
      /\ \A x \in Starts(DropFront(s_tx)) : <<x[1] + n, x[2]>> \in Starts(s_tx)
  BY <1>1, <1>2, DropStarts
<1>4. /\ s_tx_off \in Nat /\ rest = s_tx_off /\ Report \in Nat \ {0} /\ f.len \in Nat \ {0}
      /\ Size \in Nat \ {0} /\ Used(s_tx) \in Nat /\ Used(s_tx) < Size
  BY <1>1, <1>2, <1>3, LinkAssumption, FramesAssumption, SizeIs, RingParts
  DEF SessionInv, HostTypes, OffsetsAgree
<1>5. ep' # Nothing /\ ep' \in [frame : Frames, off : Nat]
      /\ ep'.frame = f /\ ep'.off = s_tx_off
  BY <1>1, <1>3, <1>4, NothingAssumption
<1>6. connected
  BY <1>1, NothingStarts DEF SessionInv, NobodyThere
<1>7. ~LastReport /\ (LastReport' <=> ~(s_tx_off + Report < f.len))
  BY <1>1, <1>5 DEF LastReport
<1>8. Waits' = Waits
  BY <1>1 DEF Waits, Left
<1> HIDE DEF f, n
<1>9. NobodyThere'
  BY <1>1, <1>6 DEF SessionInv, NobodyThere
<1>10. CASE s_tx_off + Report < f.len
  <2>1. s_tx_off' = s_tx_off + Report /\ s_tx' = s_tx
    BY <1>10 DEF PumpSends, f
  <2>2. Stream' \subseteq Stream
    BY <1>1, <1>7, <1>8, <1>10, <2>1 DEF Stream
  <2>3. HostInv' /\ HostRefinement
    BY <1>1, <2>2, DevicePart DEF SessionInv
  <2>4. HostTypes'
    BY <1>1, <1>4, <1>5, <2>1 DEF SessionInv, HostTypes
  <2>5. Peek(s_tx') = f
    BY <2>1 DEF f
  <2>6. OffsetsAgree'
    BY <1>1, <1>4, <1>5, <1>7, <1>10, <2>1, <2>5 DEF OffsetsAgree
  <2> QED BY <1>9, <2>3, <2>4, <2>6 DEF SessionInv
<1>11. CASE ~(s_tx_off + Report < f.len)
  <2>1. s_tx_off' = 0 /\ s_tx' = DropFront(s_tx)
    BY <1>11 DEF PumpSends, f
  <2> DEFINE m == [j \in Int |-> IF j = Size THEN Size ELSE IF j = -1 THEN 0 ELSE j + n]
  <2>2. m \in [Int -> Int]
    BY <1>3, <1>4
  <2>3. \A x \in Stream' :
           /\ x[1] \in Int /\ -1 <= x[1] /\ x[1] <= Size
           /\ <<m[x[1]], x[2]>> \in Stream
           /\ x[1] # -1 /\ x[1] # Size => 0 <= x[1] /\ x[1] + n < Used(s_tx)
    <3> TAKE x \in Stream'
    <3>1. x \in (-1 .. Size) \X Frames
      BY DEF Stream
    <3>2. /\ x = <<x[1], x[2]>> /\ x[1] \in Int /\ x[2] \in Frames
          /\ -1 <= x[1] /\ x[1] <= Size
      BY <1>4, <3>1
    <3>3. \/ x[1] = -1 /\ x[2] = f
          \/ x \in Starts(DropFront(s_tx))
          \/ x[1] = Size /\ Waits /\ x[2] = Answer(s_rx_buf)
      BY <1>1, <1>5, <1>8, <2>1 DEF Stream
    <3>4. CASE x[1] = -1 /\ x[2] = f
      <4>1. m[x[1]] = 0
        BY <1>4, <3>4
      <4>2. <<0, f>> \in Stream
        BY <1>3, <1>4 DEF Stream
      <4> QED BY <3>2, <3>4, <4>1, <4>2
    <3>5. CASE x \in Starts(DropFront(s_tx))
      <4>1. <<x[1] + n, x[2]>> \in Starts(s_tx) /\ x[1] \in 0 .. Size - 1
        BY <1>3, <3>5 DEF Starts
      <4>2. m[x[1]] = x[1] + n
        BY <1>4, <3>2, <4>1
      <4>3. x[1] + n \in 0 .. Size - 1 /\ x[1] + n < Used(s_tx)
        BY <4>1 DEF Starts
      <4>4. <<x[1] + n, x[2]>> \in Stream
        BY <1>4, <3>2, <4>1, <4>3 DEF Stream
      <4> QED BY <3>2, <4>1, <4>2, <4>3, <4>4
    <3>6. CASE x[1] = Size /\ Waits /\ x[2] = Answer(s_rx_buf)
      <4>1. m[x[1]] = Size
        BY <1>4, <3>6
      <4>2. <<Size, x[2]>> \in Stream
        BY <1>4, <3>2, <3>6 DEF Stream
      <4> QED BY <3>2, <3>6, <4>1, <4>2
    <3> QED BY <3>3, <3>4, <3>5, <3>6
  <2>4. \A x, y \in Stream' : x[1] < y[1] => m[x[1]] < m[y[1]]
    <3> SUFFICES ASSUME NEW x \in Stream', NEW y \in Stream', x[1] < y[1]
                 PROVE  m[x[1]] < m[y[1]]
      OBVIOUS
    <3>1. /\ x[1] \in Int /\ -1 <= x[1] /\ x[1] <= Size
          /\ y[1] \in Int /\ -1 <= y[1] /\ y[1] <= Size
          /\ x[1] # -1 /\ x[1] # Size => 0 <= x[1] /\ x[1] + n < Used(s_tx)
          /\ y[1] # -1 /\ y[1] # Size => 0 <= y[1] /\ y[1] + n < Used(s_tx)
      BY <2>3
    <3>2. m[x[1]] = (IF x[1] = Size THEN Size ELSE IF x[1] = -1 THEN 0 ELSE x[1] + n)
          /\ m[y[1]] = (IF y[1] = Size THEN Size ELSE IF y[1] = -1 THEN 0 ELSE y[1] + n)
      BY <3>1
    <3> HIDE DEF m
    <3> QED BY <1>3, <1>4, <3>1, <3>2
  <2>5. \A x \in Stream' : x[1] < Size => m[x[1]] < Size
    <3> TAKE x \in Stream'
    <3> HAVE x[1] < Size
    <3>0. /\ x[1] \in Int /\ -1 <= x[1]
          /\ x[1] # -1 /\ x[1] # Size => 0 <= x[1] /\ x[1] + n < Used(s_tx)
      BY <2>3
    <3>1. /\ x[1] \in Int /\ -1 <= x[1] /\ x[1] # Size
          /\ x[1] # -1 => 0 <= x[1] /\ x[1] + n < Used(s_tx)
      BY <1>4, <3>0
    <3>2. m[x[1]] = IF x[1] = -1 THEN 0 ELSE x[1] + n
      BY <3>1, <1>4
    <3> HIDE DEF m
    <3> QED BY <1>3, <1>4, <3>1, <3>2
  <2> HIDE DEF m
  <2>6. mayPush \in BOOLEAN /\ (overs > 0) \in BOOLEAN
    BY DEF SessionInv, HostTypes
  <2>7. Sound(Stream, asked, mayPush, overs > 0)
    BY <1>1 DEF SessionInv, HostInv
  <2>8. Sound(Stream', asked, mayPush, overs > 0)
    <3>1. \A x \in Stream' : x[1] \in Int /\ <<m[x[1]], x[2]>> \in Stream
      BY <2>3
    <3>2. MovesTo(m, Stream, Stream')
      BY <2>4, <3>1 DEF MovesTo
    <3> QED BY ONLY <2>6, <2>7, <3>2, MovedIsSound
  <2>9. ASSUME connected', subscribed' PROVE PushesSound(Stream', asked, mayPush)
    <3>1. PushesSound(Stream, asked, mayPush)
      BY <1>1, <2>9 DEF SessionInv, HostInv
    <3>2. \A x \in Stream' : x[1] < Size => <<m[x[1]], x[2]>> \in Stream /\ m[x[1]] < Size
      BY <2>3, <2>5
    <3> QED BY <2>2, <2>6, <3>1, <3>2, MovedKeepsPushes
  <2>10. HostInv' /\ HostRefinement
    BY <1>1, <2>8, <2>9, DeviceStep DEF SessionInv
  <2>11. HostTypes'
    BY <1>1, <1>5, <2>1 DEF SessionInv, HostTypes
  <2>12. OffsetsAgree'
    BY <1>1, <1>4, <1>5, <1>7, <1>11, <2>1 DEF OffsetsAgree
  <2> QED BY <1>9, <2>10, <2>11, <2>12 DEF SessionInv
<1> QED BY <1>10, <1>11

(* Behind the packet that waits comes nothing but what it has asked for.   *)
LEMMA SubscribeComesLast ==
  ASSUME NEW S, NEW a, NEW mp, NEW o, NEW p \in Requests, Sound(S, a, mp, o),
         <<Size, Answer(p)>> \in S, p.kind = "subscribe", Wanted(a) => mp
  PROVE  PushesSound(S, a, mp)
<1>1. Answer(p).to = p /\ AnswersRequest(Answer(p)) /\ Answer(p) # PushFrame
  BY FrameIs DEF Packets, AnswersRequest
<1>2. PICK k \in DOMAIN a : a[k] = p
  <2>1. Expected(<<Size, Answer(p)>>[2], a, mp, o)
    BY DEF Sound
  <2> QED BY <1>1, <2>1 DEF Expected
<1>3. mp
  BY <1>2 DEF Wanted
<1>4. ASSUME NEW x \in S, x[1] < Size, AnswersRequest(x[2])
      PROVE  SubscribedAfter(x[2].to, a)
  <2>1. InOrder(x[2], <<Size, Answer(p)>>[2], a)
    BY <1>4 DEF Sound
  <2>2. Before(x[2].to, p, a)
    BY <1>1, <1>4, <2>1 DEF InOrder
  <2> QED BY <1>2, <2>2 DEF Before, SubscribedAfter
<1>5. ASSUME NEW x \in S, x[1] < Size PROVE InOrder(x[2], PushFrame, a)
  <2>1. ~AnswersRequest(PushFrame)
    BY DEF PushFrame, AnswersRequest
  <2> QED BY <1>4, <1>5, <2>1 DEF InOrder
<1> QED BY <1>3, <1>5 DEF PushesSound

LEMMA DispatchStep ==
  ASSUME Inv, SessionInv, Dispatch PROVE SessionInv' /\ HostRefinement
<1> DEFINE f == Answer(s_rx_buf)
<1>1. /\ pc = "rx" /\ s_rx_pending
      /\ pc' = (IF Refused(s_rx_buf) THEN "clear" ELSE "answer")
      /\ UNCHANGED <<usb, ep, hostVars, s_was_connected>>
      /\ UNCHANGED <<usb, ep, tail, rest, overs, asked, mayPush, heard>>
      /\ UNCHANGED <<s_tx_off, s_rx_total, s_rx_buf, s_rx_pending, connected>>
      /\ s_tx' = IF connected THEN Push(s_tx, f, TRUE) ELSE s_tx
  BY DEF Dispatch, SendAnswer, hostVars, rxVars
<1>2. /\ s_tx \in Ring /\ Whole(s_tx) /\ s_rx_buf \in Packets /\ s_rx_buf # Nothing
      /\ f \in Frames
  BY <1>1, SentAreFrames, NothingAssumption DEF Inv, RingInOrder, PacketIsThere
<1>3. /\ mayPush \in BOOLEAN /\ (overs > 0) \in BOOLEAN /\ Size \in Nat \ {0}
      /\ Used(s_tx) \in Nat /\ Used(s_tx) < Size
  BY <1>2, SizeIs, RingParts DEF SessionInv, HostTypes
<1>4. LastReport' = LastReport /\ ~Waits'
  BY <1>1 DEF LastReport, Waits
<1>5. connected => Waits /\ <<Size, f>> \in Stream
  <2>1. connected => Waits
    BY <1>1, <1>2 DEF Waits, Left
  <2> QED BY <1>2, <1>3, <2>1 DEF Stream
<1>6. (subscribed' /\ s_rx_buf.kind # "subscribe") =>
        subscribed /\ s_rx_buf.kind # "unsubscribe"
  BY DEF Dispatch
<1>7. ASSUME usb, connected, subscribed' PROVE PushesSound(Stream, asked, mayPush)
  <2>1. CASE s_rx_buf.kind = "subscribe"
    <3>1. s_rx_buf \in Requests
      BY <1>2, <2>1 DEF Packets, Noise
    <3>2. Sound(Stream, asked, mayPush, overs > 0) /\ (Wanted(asked) => mayPush)
      BY <1>7 DEF SessionInv, HostInv
    <3> QED BY <1>5, <1>7, <2>1, <3>1, <3>2, SubscribeComesLast
  <2>2. CASE s_rx_buf.kind # "subscribe"
    BY <1>6, <1>7, <2>2 DEF SessionInv, HostInv
  <2> QED BY <2>1, <2>2
<1>8. HostTypes' /\ NobodyThere'
  <2>1. HostTypes'
    BY <1>1 DEF SessionInv, HostTypes
  <2>2. ~connected => Left' /\ s_tx' = s_tx /\ pc' # "answer"
    BY <1>1 DEF Left, Refused
  <2>3. connected' = s_was_connected' /\ (~connected' => s_tx' = EmptyRing /\ s_tx_off' = 0)
    BY <1>1, <2>2 DEF SessionInv, NobodyThere
  <2>4. ~usb' => /\ ep' = Nothing /\ asked' = <<>> /\ ~tail' /\ overs' = 0 /\ rest' = 0
                 /\ ~mayPush'
    BY <1>1 DEF SessionInv, NobodyThere
  <2>5. ~connected' => Left' /\ pc' # "answer"
    BY <1>1, <2>2
  <2> QED BY <2>1, <2>3, <2>4, <2>5 DEF NobodyThere
<1>9. OffsetsAgree'
  <2>1. Peek(s_tx) # NoFrame => Peek(s_tx') = Peek(s_tx)
    BY <1>1, <1>2, PushFront
  <2>0. usb' = usb
    BY <1>1
  <2> SUFFICES ASSUME usb PROVE OffsetsAgree'
    BY <2>0 DEF OffsetsAgree
  <2>2. ep # Nothing /\ ~LastReport => Peek(s_tx) # NoFrame
    BY FramesAssumption DEF SessionInv, OffsetsAgree, HostTypes
  <2> QED BY <1>1, <1>4, <2>1, <2>2 DEF SessionInv, OffsetsAgree
<1> HIDE DEF f
<1>10. CASE Refused(s_rx_buf)
  <2>1. s_tx' = s_tx
    BY <1>1, <1>10 DEF Refused, Push, f
  <2>2. Stream' \subseteq Stream
    BY <1>1, <1>4, <2>1 DEF Stream
  <2>3. ASSUME usb PROVE Sound(Stream', asked, mayPush, overs > 0)
    BY <2>2, <2>3, PartIsSound DEF SessionInv, HostInv
  <2>4. ASSUME usb, connected', subscribed' PROVE PushesSound(Stream', asked, mayPush)
    BY <1>1, <1>7, <2>2, <2>4, PartIsSound
  <2>5. HostInv' /\ HostRefinement
    BY <1>1, <2>3, <2>4, DeviceStep DEF SessionInv
  <2> QED BY <1>8, <1>9, <2>5 DEF SessionInv
<1>11. CASE ~Refused(s_rx_buf)
  <2>1. connected /\ Fits(s_tx, f, TRUE) /\ s_tx' = Push(s_tx, f, TRUE)
    BY <1>1, <1>11 DEF Refused, f
  <2> DEFINE m == [j \in Int |-> IF j = Used(s_tx) THEN Size ELSE j]
  <2>2. m \in [Int -> Int]
    BY <1>3
  <2>3. \A x \in Stream' :
           /\ x[1] \in Int /\ x[1] <= Used(s_tx)
           /\ <<m[x[1]], x[2]>> \in Stream
           /\ \/ x[1] < Used(s_tx) /\ x \in Stream
              \/ x[1] = Used(s_tx) /\ x[2] = f
    <3> TAKE x \in Stream'
    <3>1. x \in (-1 .. Size) \X Frames
      BY DEF Stream
    <3>2. /\ x = <<x[1], x[2]>> /\ x[1] \in Int /\ x[2] \in Frames
      BY <1>3, <3>1
    <3>3. \/ x[1] = -1 /\ LastReport /\ x[2] = ep.frame
          \/ x \in Starts(Push(s_tx, f, TRUE))
      BY <1>1, <1>4, <2>1 DEF Stream
    <3>4. CASE x[1] = -1 /\ LastReport /\ x[2] = ep.frame
      <4>1. x \in Stream
        BY <3>1, <3>4 DEF Stream
      <4>2. m[x[1]] = x[1]
        BY <1>3, <3>4
      <4> QED BY <1>3, <3>2, <3>4, <4>1, <4>2
    <3>5. CASE x \in Starts(s_tx)
      <4>1. x \in Stream /\ x[1] < Used(s_tx)
        BY <3>1, <3>5 DEF Stream, Starts
      <4>2. m[x[1]] = x[1]
        BY <1>3, <3>2, <4>1
      <4> QED BY <1>3, <3>2, <4>1, <4>2
    <3>6. CASE x = <<Used(s_tx), f>>
      BY <1>3, <1>5, <2>1, <3>2, <3>6
    <3>7. x \in Starts(Push(s_tx, f, TRUE)) => x \in Starts(s_tx) \/ x = <<Used(s_tx), f>>
      BY <1>2, <2>1, PushStarts
    <3> QED BY <3>3, <3>4, <3>5, <3>6, <3>7
  <2>4. \A x, y \in Stream' : x[1] < y[1] => m[x[1]] < m[y[1]]
    <3> SUFFICES ASSUME NEW x \in Stream', NEW y \in Stream', x[1] < y[1]
                 PROVE  m[x[1]] < m[y[1]]
      OBVIOUS
    <3>1. x[1] \in Int /\ x[1] <= Used(s_tx) /\ y[1] \in Int /\ y[1] <= Used(s_tx)
      BY <2>3
    <3>2. m[x[1]] = (IF x[1] = Used(s_tx) THEN Size ELSE x[1])
          /\ m[y[1]] = (IF y[1] = Used(s_tx) THEN Size ELSE y[1])
      BY <3>1
    <3> HIDE DEF m
    <3> QED BY <1>3, <3>1, <3>2
  <2> HIDE DEF m
  <2>5. ASSUME usb PROVE Sound(Stream', asked, mayPush, overs > 0)
    <3>1. \A x \in Stream' : x[1] \in Int /\ <<m[x[1]], x[2]>> \in Stream
      BY <2>3
    <3>2. Sound(Stream, asked, mayPush, overs > 0)
      BY <2>5 DEF SessionInv, HostInv
    <3>3. MovesTo(m, Stream, Stream')
      BY <2>4, <3>1 DEF MovesTo
    <3>4. mayPush \in BOOLEAN /\ (overs > 0) \in BOOLEAN
      BY <1>3 DEF SessionInv, HostTypes
    <3> QED BY ONLY <3>2, <3>3, <3>4, MovedIsSound
  <2>6. ASSUME usb, connected', subscribed' PROVE PushesSound(Stream', asked, mayPush)
    <3>1. PushesSound(Stream, asked, mayPush)
      BY <1>1, <1>7, <2>6
    <3>2. ASSUME NEW x \in Stream', x[1] < Size PROVE InOrder(x[2], PushFrame, asked)
      <4>1. CASE x[1] < Used(s_tx) /\ x \in Stream
        BY <3>1, <3>2, <4>1 DEF PushesSound
      <4>2. CASE x[2] = f
        <5>1. f.to = s_rx_buf /\ ~AnswersRequest(PushFrame)
          BY <1>2, FrameIs DEF f, AnswersRequest, PushFrame
        <5>2. s_rx_buf.kind # "unsubscribe"
          BY <1>6, <2>6
        <5> QED BY <4>2, <5>1, <5>2 DEF InOrder
      <4> QED BY <2>3, <4>1, <4>2
    <3> QED BY <3>1, <3>2 DEF PushesSound
  <2>7. HostInv' /\ HostRefinement
    BY <1>1, <2>5, <2>6, DeviceStep DEF SessionInv
  <2> QED BY <1>8, <1>9, <2>7 DEF SessionInv
<1> QED BY <1>10, <1>11

LEMMA ApiUpdateStep ==
  ASSUME Inv, SessionInv, ApiUpdate PROVE SessionInv' /\ HostRefinement
<1>1. /\ pc = "idle" /\ connected /\ subscribed /\ pc' = "pump"
      /\ Fits(s_tx, PushFrame, FALSE) /\ s_tx' = Push(s_tx, PushFrame, FALSE)
      /\ UNCHANGED <<usb, ep, hostVars, s_was_connected>>
      /\ UNCHANGED <<usb, ep, tail, rest, overs, asked, mayPush, heard>>
      /\ UNCHANGED <<s_tx_off, s_rx_total, s_rx_buf, s_rx_pending, connected, subscribed>>
  BY DEF ApiUpdate, hostVars, rxVars, apiVars
<1>2. /\ s_tx \in Ring /\ Whole(s_tx) /\ PushFrame \in Frames /\ ~AnswersRequest(PushFrame)
      /\ Used(s_tx) \in Nat /\ Used(s_tx) < Size /\ Size \in Nat \ {0}
  BY SentAreFrames, RingParts, SizeIs DEF Inv, RingInOrder, AnswersRequest, PushFrame
<1>3. LastReport' = LastReport /\ ~Left /\ ~Left' /\ (Waits' => Waits)
  BY <1>1 DEF LastReport, Waits, Left
<1>4. \A x \in Stream' : x \in Stream \/ x = <<Used(s_tx), PushFrame>>
  <2> TAKE x \in Stream'
  <2>1. x \in Starts(Push(s_tx, PushFrame, FALSE)) =>
          x \in Starts(s_tx) \/ x = <<Used(s_tx), PushFrame>>
    BY <1>1, <1>2, PushStarts
  <2> QED BY <1>1, <1>3, <2>1 DEF Stream
<1>5. ASSUME usb
      PROVE  Sound(Stream', asked, mayPush, overs > 0) /\ PushesSound(Stream', asked, mayPush)
  <2>1. Sound(Stream, asked, mayPush, overs > 0) /\ PushesSound(Stream, asked, mayPush)
    BY <1>1, <1>5 DEF SessionInv, HostInv
  <2>2. \A x \in Stream' : Expected(x[2], asked, mayPush, overs > 0)
    <3>1. Expected(PushFrame, asked, mayPush, overs > 0)
      BY <1>2, <2>1, FrameIs DEF PushesSound, Expected
    <3> QED BY <1>4, <2>1, <3>1 DEF Sound
  <2>3. \A g : InOrder(PushFrame, g, asked)
    BY <1>2 DEF InOrder
  <2>4. \A x \in Stream' : x[1] < Size => InOrder(x[2], PushFrame, asked)
    <3> TAKE x \in Stream'
    <3>1. CASE x \in Stream
      BY <2>1, <3>1 DEF PushesSound
    <3>2. CASE x = <<Used(s_tx), PushFrame>>
      BY <2>3, <3>2
    <3> QED BY <1>4, <3>1, <3>2
  <2>5. ASSUME NEW x \in Stream', NEW y \in Stream', x[1] < y[1]
        PROVE  InOrder(x[2], y[2], asked)
    <3>1. CASE x \in Stream /\ y \in Stream
      BY <2>1, <2>5, <3>1 DEF Sound
    <3>2. CASE x = <<Used(s_tx), PushFrame>>
      BY <2>3, <3>2
    <3>3. CASE x \in Stream /\ y = <<Used(s_tx), PushFrame>>
      <4>1. x[1] < Size
        BY <1>2, <2>5, <3>3, StreamIs
      <4> QED BY <2>4, <3>3, <4>1
    <3> QED BY <1>4, <3>1, <3>2, <3>3
  <2>6. Sound(Stream', asked, mayPush, overs > 0)
    BY <2>2, <2>5 DEF Sound
  <2>7. PushesSound(Stream', asked, mayPush)
    BY <2>1, <2>4 DEF PushesSound
  <2> QED BY <2>6, <2>7
<1>6. HostInv' /\ HostRefinement
  BY <1>1, <1>5, DeviceStep DEF SessionInv
<1>7. HostTypes' /\ NobodyThere'
  <2>1. HostTypes'
    BY <1>1 DEF SessionInv, HostTypes
  <2>2. connected' /\ connected' = s_was_connected'
    BY <1>1 DEF SessionInv, NobodyThere
  <2>3. ~usb' => /\ ep' = Nothing /\ asked' = <<>> /\ ~tail' /\ overs' = 0 /\ rest' = 0
                 /\ ~mayPush'
    BY <1>1 DEF SessionInv, NobodyThere
  <2> QED BY <2>1, <2>2, <2>3 DEF NobodyThere
<1>8. OffsetsAgree'
  <2>1. Peek(s_tx) # NoFrame => Peek(s_tx') = Peek(s_tx)
    BY <1>1, <1>2, PushFront
  <2>0. usb' = usb
    BY <1>1
  <2> SUFFICES ASSUME usb PROVE OffsetsAgree'
    BY <2>0 DEF OffsetsAgree
  <2>2. ep # Nothing /\ ~LastReport => Peek(s_tx) # NoFrame
    BY FramesAssumption DEF SessionInv, OffsetsAgree, HostTypes
  <2> QED BY <1>1, <1>3, <2>1, <2>2 DEF SessionInv, OffsetsAgree
<1> QED BY <1>6, <1>7, <1>8 DEF SessionInv

(* The cable: the device has noticed the last change before the next.      *)
LEMMA LinkChangesStep ==
  ASSUME Inv, SessionInv, EdgesSeen, LinkChanges PROVE SessionInv' /\ HostRefinement
<1>1. /\ usb' = ~usb /\ connected = usb /\ s_was_connected = usb
      /\ ep' = Nothing /\ tail' = FALSE /\ rest' = 0 /\ overs' = 0
      /\ asked' = <<>> /\ mayPush' = FALSE /\ heard' = "nothing"
      /\ UNCHANGED <<s_was_connected, s_tx, s_tx_off, s_rx_total, s_rx_buf, s_rx_pending>>
      /\ UNCHANGED <<connected, subscribed, pc>>
  BY DEF LinkChanges, FreshHost, rxVars, txVars, apiVars, SessionInv, NobodyThere
<1>2. usb \in BOOLEAN
  BY DEF SessionInv, HostTypes
<1>3. ~LastReport'
  BY <1>1 DEF LastReport
<1>4. HostRefinement
  <2>1. ~(overs' > 0)
    BY <1>1
  <2> QED BY <1>1, <1>2, <2>1 DEF HostRefinement, Host!Next, Host!Open, Host!Close, Host!NewSession
<1>5. HostTypes'
  <2>1. asked' \in Seq(Requests) /\ rest' \in Nat /\ overs' \in Nat
    BY <1>1
  <2>2. usb' \in BOOLEAN /\ mayPush' \in BOOLEAN
    BY <1>1, <1>2
  <2> QED BY <1>1, <2>1, <2>2 DEF SessionInv, HostTypes
<1>6. Left' = Left
  BY <1>1 DEF Left
<1>7. NobodyThere'
  BY <1>1, <1>2, <1>6 DEF SessionInv, NobodyThere
<1>8. CASE usb
  <2>1. ~usb'
    BY <1>1, <1>8
  <2> QED BY <1>4, <1>5, <1>7, <2>1 DEF SessionInv, OffsetsAgree, HostInv
<1>9. CASE ~usb
  <2>1. s_tx = EmptyRing /\ s_tx_off = 0
    BY <1>1, <1>9 DEF SessionInv, NobodyThere
  <2>2. OffsetsAgree'
    BY <1>1, <1>3, <2>1 DEF OffsetsAgree
  <2>3. ~Waits'
    <3>1. ~Left => s_rx_buf = Nothing
      BY <1>1, <1>9 DEF SessionInv, NobodyThere
    <3> QED BY <1>1, <1>6, <3>1 DEF Waits
  <2>4. Stream' = {}
    BY <1>1, <1>3, <2>1, <2>3, NothingStarts DEF Stream
  <2>5. HostInv'
    <3>1. Sound(Stream', asked', mayPush', overs' > 0)
      BY <2>4 DEF Sound
    <3>2. Distinct(asked') /\ ~Wanted(asked')
      BY <1>1 DEF Distinct, Wanted
    <3>3. ~connected'
      BY <1>1, <1>9
    <3> QED BY <1>1, <3>1, <3>2, <3>3 DEF HostInv
  <2> QED BY <1>4, <1>5, <1>7, <2>2, <2>5 DEF SessionInv
<1> QED BY <1>8, <1>9

-----------------------------------------------------------------------------
(* The steps of the host.                                                  *)

(* rx_handler keeps its packet, or takes the one that the host sends.      *)
LEMMA HandlerIs ==
  ASSUME NEW p \in Packets, NEW reports \in Nat, RxHandler(p, reports), pc' = pc,
         UNCHANGED connected, s_rx_buf \in Packets \cup {Nothing}
  PROVE  /\ s_rx_buf' \in Packets \cup {Nothing}
         /\ Waits' => s_rx_buf' = p \/ (Waits /\ s_rx_buf' = s_rx_buf)
         /\ s_rx_pending => s_rx_pending'
<1>1. CASE UNCHANGED rxVars
  BY <1>1 DEF rxVars, Waits, Left
<1>2. CASE ~s_rx_pending /\ RxRest
  BY <1>2 DEF RxRest, Waits, Left
<1>3. CASE ~s_rx_pending /\ s_rx_buf' = p
  BY <1>3
<1>4. \/ UNCHANGED rxVars
      \/ ~s_rx_pending /\ RxRest
      \/ ~s_rx_pending /\ s_rx_buf' = p
  BY DEF RxHandler, RxHead
<1> QED BY <1>1, <1>2, <1>3, <1>4

(* A host that sends has a link.                                           *)
LEMMA SenderStep ==
  ASSUME SessionInv, usb, NEW p \in Packets, NEW reports \in Nat, RxHandler(p, reports),
         UNCHANGED <<usb, ep, s_was_connected, txVars, apiVars, pc, rest>>,
         asked' \in Seq(Requests), mayPush' \in BOOLEAN, overs' \in Nat
  PROVE  /\ HostTypes' /\ NobodyThere' /\ OffsetsAgree'
         /\ \A x \in Stream' : x \in Stream \/ x = <<Size, Answer(p)>>
<1>1. UNCHANGED <<usb, ep, s_was_connected, s_tx, s_tx_off, connected, subscribed, pc, rest>>
  BY DEF txVars, apiVars
<1>2. /\ s_rx_buf' \in Packets \cup {Nothing}
      /\ Waits' => s_rx_buf' = p \/ (Waits /\ s_rx_buf' = s_rx_buf)
  BY <1>1, HandlerIs DEF SessionInv, HostTypes
<1>3. LastReport' = LastReport
  BY <1>1 DEF LastReport
<1>4. HostTypes' /\ NobodyThere' /\ OffsetsAgree'
  BY <1>1, <1>2, <1>3 DEF SessionInv, HostTypes, NobodyThere, OffsetsAgree
<1>5. \A x \in Stream' : x \in Stream \/ x = <<Size, Answer(p)>>
  BY <1>1, <1>2, <1>3 DEF Stream
<1> QED BY <1>4, <1>5

LEMMA HostAsksStep ==
  ASSUME Inv, SessionInv, NEW kind \in Kinds, HostAsks(kind)
  PROVE  SessionInv' /\ HostRefinement
<1> DEFINE r == [id |-> CHOOSE i \in Fresh : TRUE, kind |-> kind]
           a == asked
           b == Append(asked, r)
<1>1. /\ usb /\ Fresh # {} /\ asked' = b
      /\ RxHandler(r, IF kind = "over" THEN 2 ELSE 1)
      /\ mayPush' = (mayPush \/ kind = "subscribe") /\ tail' = (kind = "over")
      /\ overs' = (IF kind = "over" THEN overs + 1 ELSE overs)
      /\ UNCHANGED <<usb, ep, s_was_connected, txVars, apiVars, pc, rest, heard>>
      /\ UNCHANGED <<usb, ep, s_was_connected, connected, subscribed, pc, rest, heard>>
  BY DEF HostAsks, apiVars
<1>2. /\ r \in Requests /\ r \in Packets /\ IsNew(r, a) /\ r.kind = kind
  <2>1. (CHOOSE i \in Fresh : TRUE) \in Fresh
    BY <1>1
  <2>2. r.id \in Ids /\ ~Asked(r.id)
    BY <2>1 DEF Fresh
  <2> QED BY <2>2 DEF Requests, Packets, IsNew, Asked
<1> HIDE DEF r
<1>3. /\ a \in Seq(Requests) /\ mayPush \in BOOLEAN /\ overs \in Nat
      /\ Distinct(a) /\ (Wanted(a) => mayPush) /\ Sound(Stream, a, mayPush, overs > 0)
  BY <1>1 DEF SessionInv, HostTypes, HostInv
<1>4. /\ b \in Seq(Requests) /\ Len(a) \in Nat /\ DOMAIN a = 1 .. Len(a)
      /\ DOMAIN b = 1 .. Len(a) + 1 /\ \A k \in 1 .. Len(a) : b[k] = a[k]
      /\ b[Len(a) + 1] = r
  BY <1>2, <1>3, AppendIs
<1>5. /\ mayPush' \in BOOLEAN /\ overs' \in Nat /\ (mayPush => mayPush')
      /\ (overs > 0 => overs' > 0) /\ ((overs' > 0) = (overs > 0 \/ kind = "over"))
  BY <1>1, <1>3
<1>6. /\ HostTypes' /\ NobodyThere' /\ OffsetsAgree'
      /\ \A x \in Stream' : x \in Stream \/ x = <<Size, Answer(r)>>
  BY <1>1, <1>2, <1>4, <1>5, SenderStep
<1> HIDE DEF b
<1>7. HostRefinement
  <2>1. Host!Ask(r)
    BY <1>1, <1>2, <1>5 DEF Host!Ask, IsNew, b
  <2> QED BY <1>2, <2>1 DEF HostRefinement, Host!Next
<1>8. \A x \in Stream : Expected(x[2], a, mayPush, overs > 0)
  BY <1>3 DEF Sound
<1>9. \A x \in Stream : Expected(x[2], b, mayPush', overs' > 0)
  <2> TAKE x \in Stream
  <2>1. Expected(x[2], a, mayPush, overs > 0)
    BY <1>8
  <2> QED BY <1>2, <1>3, <1>5, <2>1, AskedStaysExpected DEF b
<1>10. Answer(r).to = r /\ ~(Answer(r) = PushFrame) /\ Answer(r) # Answer(Noise) /\ Noise \notin Requests
  BY <1>2, FrameIs
<1>11. Expected(Answer(r), b, mayPush', overs' > 0)
  <2>1. Len(a) + 1 \in DOMAIN b
    BY <1>4
  <2> QED BY <1>4, <1>10, <2>1 DEF Expected
<1>12. \A x \in Stream' : Expected(x[2], b, mayPush', overs' > 0)
  BY <1>6, <1>9, <1>11
<1>13. ASSUME NEW x \in Stream', NEW y \in Stream', x[1] < y[1]
       PROVE  InOrder(x[2], y[2], b)
  <2>1. x \in Stream
    <3>1. CASE x = <<Size, Answer(r)>>
      <4>1. y[1] \in Int /\ y[1] <= Size
        <5>1. y \in (-1 .. Size) \X Frames
          BY DEF Stream
        <5> QED BY <5>1, SizeIs
      <4> QED BY <1>13, <3>1, <4>1, SizeIs
    <3> QED BY <1>6, <3>1
  <2>2. Expected(x[2], a, mayPush, overs > 0)
    BY <1>8, <2>1
  <2>3. CASE y \in Stream
    <3>1. InOrder(x[2], y[2], a) /\ Expected(y[2], a, mayPush, overs > 0)
      BY <1>3, <1>13, <2>1, <2>3 DEF Sound
    <3> QED BY <1>2, <1>3, <2>2, <3>1, AskedStaysInOrder DEF b
  <2>4. CASE y = <<Size, Answer(r)>>
    <3>1. InOrder(x[2], Answer(r), b)
      BY <1>2, <1>3, <2>2, NewComesLast DEF b
    <3> QED BY <2>4, <3>1
  <2> QED BY <1>6, <2>3, <2>4
<1>14. Sound(Stream', b, mayPush', overs' > 0)
  BY <1>12, <1>13 DEF Sound
<1>15. ASSUME connected', subscribed' PROVE PushesSound(Stream', b, mayPush')
  <2>1. PushesSound(Stream, a, mayPush)
    BY <1>1, <1>15 DEF SessionInv, HostInv
  <2>2. mayPush'
    BY <1>5, <2>1 DEF PushesSound
  <2>3. ASSUME NEW x \in Stream', x[1] < Size PROVE InOrder(x[2], PushFrame, b)
    <3>1. x \in Stream
      <4>1. x # <<Size, Answer(r)>>
        BY <2>3, SizeIs
      <4> QED BY <1>6, <4>1
    <3>2. InOrder(x[2], PushFrame, a) /\ Expected(x[2], a, mayPush, overs > 0)
      BY <1>8, <2>1, <2>3, <3>1 DEF PushesSound
    <3>3. Expected(PushFrame, a, TRUE, TRUE)
      BY DEF Expected, AnswersRequest, PushFrame
    <3> QED BY <1>2, <1>3, <3>2, <3>3, AskedStaysInOrder DEF b
  <2> QED BY <2>2, <2>3 DEF PushesSound
<1>16. Distinct(b)
  BY <1>2, <1>3, AskedIsDistinct DEF b
<1>17. Wanted(b) => mayPush'
  <2> SUFFICES ASSUME NEW k \in DOMAIN b, b[k].kind = "subscribe" PROVE mayPush'
    BY DEF Wanted
  <2>1. CASE k = Len(a) + 1
    BY <1>1, <1>2, <1>4, <2>1
  <2>2. CASE k \in 1 .. Len(a)
    BY <1>3, <1>4, <1>5, <2>2 DEF Wanted
  <2> QED BY <1>4, <2>1, <2>2
<1>18. tail' => overs' > 0
  BY <1>1, <1>5
<1>19. HostInv'
  BY <1>1, <1>14, <1>15, <1>16, <1>17, <1>18 DEF HostInv
<1> QED BY <1>6, <1>7, <1>19 DEF SessionInv

LEMMA HostSendsRestStep ==
  ASSUME Inv, SessionInv, HostSendsRest PROVE SessionInv' /\ HostRefinement
<1>1. PICK reports \in 0 .. 2 : RxHandler(Noise, reports)
  BY DEF HostSendsRest
<1>2. /\ tail /\ tail' = FALSE
      /\ UNCHANGED <<usb, ep, s_was_connected, txVars, apiVars, pc, rest>>
      /\ UNCHANGED <<usb, ep, s_was_connected, connected, subscribed, pc, rest>>
      /\ UNCHANGED <<overs, asked, mayPush, heard>>
  BY DEF HostSendsRest, apiVars
<1>3. usb
  BY <1>2 DEF SessionInv, NobodyThere
<1>4. /\ asked \in Seq(Requests) /\ mayPush \in BOOLEAN /\ overs \in Nat /\ overs > 0
      /\ Sound(Stream, asked, mayPush, overs > 0)
  BY <1>2, <1>3 DEF SessionInv, HostTypes, HostInv
<1>5. Noise \in Packets /\ ~AnswersRequest(Answer(Noise)) /\ Answer(Noise) # PushFrame
  BY FrameIs
<1>6. /\ HostTypes' /\ NobodyThere' /\ OffsetsAgree'
      /\ \A x \in Stream' : x \in Stream \/ x = <<Size, Answer(Noise)>>
  <2>1. asked' \in Seq(Requests) /\ mayPush' \in BOOLEAN /\ overs' \in Nat /\ reports \in Nat
    BY <1>1, <1>2, <1>4
  <2> QED BY <1>1, <1>2, <1>3, <1>5, <2>1, SenderStep
<1>7. HostRefinement
  BY <1>2 DEF HostRefinement, Host!vars
<1>8. Expected(Answer(Noise), asked, mayPush, overs > 0)
  BY <1>4, <1>5 DEF Expected
<1>9. \A f : InOrder(f, Answer(Noise), asked) /\ InOrder(Answer(Noise), f, asked)
  BY <1>5 DEF InOrder
<1>10. Sound(Stream', asked, mayPush, overs > 0)
  <2>1. \A x \in Stream' : Expected(x[2], asked, mayPush, overs > 0)
    BY <1>4, <1>6, <1>8 DEF Sound
  <2>2. ASSUME NEW x \in Stream', NEW y \in Stream', x[1] < y[1]
        PROVE  InOrder(x[2], y[2], asked)
    <3>1. CASE x \in Stream /\ y \in Stream
      BY <1>4, <2>2, <3>1 DEF Sound
    <3>2. CASE x = <<Size, Answer(Noise)>>
      BY <1>9, <3>2
    <3>3. CASE y = <<Size, Answer(Noise)>>
      BY <1>9, <3>3
    <3> QED BY <1>6, <3>1, <3>2, <3>3
  <2> QED BY <2>1, <2>2 DEF Sound
<1>11. ASSUME connected', subscribed' PROVE PushesSound(Stream', asked, mayPush)
  <2>1. PushesSound(Stream, asked, mayPush)
    BY <1>2, <1>3, <1>11 DEF SessionInv, HostInv
  <2>2. \A x \in Stream' : x[1] < Size => InOrder(x[2], PushFrame, asked)
    BY <1>6, <1>9, <2>1 DEF PushesSound
  <2> QED BY <2>1, <2>2 DEF PushesSound
<1>12. HostInv'
  BY <1>2, <1>3, <1>4, <1>10, <1>11 DEF SessionInv, HostInv
<1> QED BY <1>6, <1>7, <1>12 DEF SessionInv

(* Some requests are over.                                                 *)
LEMMA CutIsSound ==
  ASSUME NEW S, NEW T \in SUBSET S, NEW a, NEW b, NEW n, CutTo(a, n, b),
         NEW mp \in BOOLEAN, NEW mp2 \in BOOLEAN, NEW o, Sound(S, a, mp, o),
         \A x \in T : /\ AnswersRequest(x[2]) => \A k \in DOMAIN a : a[k] = x[2].to => k > n
                      /\ x[2] = PushFrame => mp2
  PROVE  /\ Sound(T, b, mp2, o)
         /\ PushesSound(S, a, mp) /\ mp2 => PushesSound(T, b, mp2)
<1>1. ASSUME NEW x \in T PROVE Expected(x[2], b, mp2, o)
  <2>1. Expected(x[2], a, mp, o)
    BY DEF Sound
  <2>2. /\ AnswersRequest(x[2]) => \A k \in DOMAIN a : a[k] = x[2].to => k > n
        /\ x[2] = PushFrame => mp2
    BY <1>1
  <2> QED BY <2>1, <2>2, CutExpected
<1>2. ASSUME NEW x \in T, NEW y \in T, x[1] < y[1] PROVE InOrder(x[2], y[2], b)
  <2>1. InOrder(x[2], y[2], a)
    BY <1>2 DEF Sound
  <2> QED BY <2>1, CutOrder
<1>3. ASSUME PushesSound(S, a, mp), mp2, NEW x \in T, x[1] < Size
      PROVE  InOrder(x[2], PushFrame, b)
  <2>1. InOrder(x[2], PushFrame, a)
    BY <1>3 DEF PushesSound
  <2> QED BY <2>1, CutOrder
<1> QED BY <1>1, <1>2, <1>3 DEF Sound, PushesSound

LEMMA RequestIsLostStep ==
  ASSUME Inv, SessionInv, RequestIsLost PROVE SessionInv' /\ HostRefinement
<1>1. /\ asked # <<>> /\ ~InDevice(Head(asked).id) /\ asked' = Tail(asked)
      /\ UNCHANGED <<usb, ep, s_was_connected, tail, rest, overs, mayPush, heard, pc>>
      /\ UNCHANGED <<s_tx, s_tx_off, s_rx_total, s_rx_buf, s_rx_pending, connected, subscribed>>
  BY DEF RequestIsLost, rxVars, txVars, apiVars
<1>2. usb
  BY <1>1 DEF SessionInv, NobodyThere
<1>3. /\ asked \in Seq(Requests) /\ mayPush \in BOOLEAN /\ overs \in Nat
      /\ Distinct(asked) /\ (Wanted(asked) => mayPush) /\ (tail => overs > 0)
      /\ Sound(Stream, asked, mayPush, overs > 0)
  BY <1>2 DEF SessionInv, HostTypes, HostInv
<1>4. /\ CutTo(asked, 1, Tail(asked)) /\ Tail(asked) \in Seq(Requests)
      /\ 1 \in DOMAIN asked /\ asked[1] = Head(asked)
  BY <1>1, <1>3 DEF CutTo
<1>5. LastReport' = LastReport /\ Waits' = Waits /\ Stream' = Stream
  BY <1>1 DEF LastReport, Waits, Left, Stream
<1>6. HostRefinement
  <2>1. Host!Lose
    BY <1>1 DEF Host!Lose
  <2> QED BY <2>1 DEF HostRefinement, Host!Next
<1>7. ASSUME NEW x \in Stream, AnswersRequest(x[2]) PROVE x[2].to # asked[1]
  <2>1. InDevice(x[2].to.id)
    <3>1. CASE x[1] = -1 /\ LastReport /\ x[2] = ep.frame
      BY <3>1 DEF LastReport, InDevice
    <3>2. CASE x \in Starts(s_tx)
      <4>1. x[1] \in Cells /\ x[2] \in Frames /\ ByteAt(s_tx, x[1]) = <<x[2], 0>>
        BY <3>2 DEF Starts, Cells
      <4>2. Place(s_tx.tail, x[1]) \in Cells
        BY <4>1, RingParts, PlaceIs DEF Inv, RingInOrder
      <4>3. s_tx.buf[Place(s_tx.tail, x[1])] = <<x[2], 0>> /\ <<x[2], 0>> # NoByte
        BY <4>1, FramesAssumption DEF ByteAt
      <4>4. <<x[2], 0>>[1] = x[2]
        OBVIOUS
      <4> QED BY <4>2, <4>3, <4>4 DEF InDevice
    <3>3. CASE x[1] = Size /\ Waits /\ x[2] = Answer(s_rx_buf)
      <4>1. s_rx_buf # Nothing /\ s_rx_buf \in Packets
        BY <3>3 DEF Waits, SessionInv, HostTypes
      <4>2. x[2].to = s_rx_buf
        BY <3>3, <4>1, FrameIs
      <4> QED BY <4>1, <4>2 DEF InDevice
    <3> QED BY <3>1, <3>2, <3>3, StreamIs
  <2> QED BY <1>1, <1>4, <2>1
<1>8. \A x \in Stream : AnswersRequest(x[2]) => \A k \in DOMAIN asked : asked[k] = x[2].to => k > 1
  <2> SUFFICES ASSUME NEW x \in Stream, AnswersRequest(x[2]), NEW k \in DOMAIN asked,
                      asked[k] = x[2].to
               PROVE  k > 1
    OBVIOUS
  <2>1. k # 1
    BY <1>7
  <2>2. k \in Nat /\ k >= 1
    BY <1>3
  <2> QED BY <2>1, <2>2
<1>9. \A x \in Stream : x[2] = PushFrame => mayPush
  BY <1>3 DEF Sound, Expected
<1>10. /\ Sound(Stream, Tail(asked), mayPush, overs > 0)
       /\ PushesSound(Stream, asked, mayPush) => PushesSound(Stream, Tail(asked), mayPush)
  <2>1. PushesSound(Stream, asked, mayPush) => mayPush
    BY DEF PushesSound
  <2> QED BY <1>3, <1>4, <1>8, <1>9, <2>1, CutIsSound
<1>11. Distinct(Tail(asked)) /\ (Wanted(Tail(asked)) => Wanted(asked))
  BY <1>3, <1>4, CutDistinct
<1>12. HostInv'
  BY <1>1, <1>2, <1>3, <1>5, <1>10, <1>11 DEF SessionInv, HostInv
<1>13. HostTypes' /\ OffsetsAgree'
  BY <1>1, <1>4, <1>5 DEF SessionInv, HostTypes, OffsetsAgree
<1>14. NobodyThere'
  BY <1>1, <1>2 DEF SessionInv, NobodyThere
<1> QED BY <1>6, <1>12, <1>13, <1>14 DEF SessionInv

(* What the host takes out of the endpoint is the next of the stream.      *)
LEMMA HostHearsStep ==
  ASSUME Inv, SessionInv, HostReads, LastReport
  PROVE  HostInv' /\ HostRefinement /\ asked' \in Seq(Requests) /\ mayPush' \in BOOLEAN
<1> DEFINE f == ep.frame
           k == IF \E j \in DOMAIN asked : asked[j] = f.to
                THEN CHOOSE j \in DOMAIN asked : asked[j] = f.to ELSE 0
<1>1. /\ ep # Nothing /\ ep' = Nothing
      /\ UNCHANGED <<usb, s_was_connected, s_tx, s_tx_off, s_rx_total, s_rx_buf, s_rx_pending>>
      /\ UNCHANGED <<connected, subscribed, pc, tail, overs>>
  BY DEF HostReads, rxVars, txVars, apiVars
<1>2. usb
  BY <1>1 DEF SessionInv, NobodyThere
<1>3. ep.off = rest /\ ~(ep.off + Report < ep.frame.len)
  BY <1>1, <1>2 DEF SessionInv, OffsetsAgree, LastReport
<1>4. HostHears(f)
  <2>1. rest' = 0
    BY <1>3 DEF HostReads
  <2> QED BY <1>3, <2>1 DEF HostReads
<1>5. /\ asked \in Seq(Requests) /\ mayPush \in BOOLEAN /\ overs \in Nat /\ f \in Frames
      /\ Distinct(asked) /\ (Wanted(asked) => mayPush) /\ (tail => overs > 0)
      /\ Sound(Stream, asked, mayPush, overs > 0)
  BY <1>1, <1>2 DEF SessionInv, HostTypes, HostInv
<1>6. <<-1, f>> \in Stream
  BY <1>5, SizeIs DEF Stream
<1>7. Stream' \subseteq Stream /\ \A x \in Stream' : -1 < x[1]
  <2>1. ~LastReport' /\ Waits' = Waits
    BY <1>1 DEF LastReport, Waits, Left
  <2>2. \A x \in Starts(s_tx) : -1 < x[1]
    BY DEF Starts
  <2> QED BY <1>1, <2>1, <2>2, SizeIs DEF Stream
<1>8. /\ Expected(f, asked, mayPush, overs > 0)
      /\ \A x \in Stream' : InOrder(f, x[2], asked)
  <2>1. Expected(<<-1, f>>[2], asked, mayPush, overs > 0)
    BY <1>5, <1>6 DEF Sound
  <2>2. \A x \in Stream' : InOrder(<<-1, f>>[2], x[2], asked)
    BY <1>5, <1>6, <1>7 DEF Sound
  <2> QED BY <2>1, <2>2
<1>9. Host!Next => HostRefinement
  BY DEF HostRefinement
<1>10. ASSUME asked' = asked, mayPush' = mayPush PROVE HostInv'
  <2>1. Sound(Stream', asked, mayPush, overs > 0)
    BY <1>5, <1>7, PartIsSound
  <2>2. connected /\ subscribed => PushesSound(Stream', asked, mayPush)
    BY <1>2, <1>7, PartIsSound DEF SessionInv, HostInv
  <2> QED BY <1>1, <1>2, <1>5, <1>10, <2>1, <2>2 DEF HostInv
<1> HIDE DEF f
<1>11. CASE f.what = "push"
  <2>1. heard' = "push" /\ asked' = asked /\ mayPush' = mayPush
    BY <1>4, <1>11 DEF HostHears
  <2>2. f = PushFrame
    BY <1>5, <1>11, FrameIs
  <2>3. mayPush
    BY <1>8, <2>2 DEF Expected
  <2>4. Host!HearPush
    BY <1>1, <1>2, <2>1, <2>3 DEF Host!HearPush
  <2> QED BY <1>5, <1>9, <1>10, <2>1, <2>4 DEF Host!Next
<1>12. CASE f.what # "push" /\ f.to = Noise
  <2>1. heard' = "noise" /\ asked' = asked /\ mayPush' = mayPush
    BY <1>4, <1>12 DEF HostHears
  <2>2. f = Answer(Noise)
    <3>1. f # PushFrame
      BY <1>12 DEF PushFrame
    <3> QED BY <1>5, <1>12, <3>1, FrameIs
  <2>3. overs > 0
    BY <1>8, <2>2 DEF Expected
  <2>4. Host!HearNoise
    BY <1>1, <1>2, <2>1, <2>3 DEF Host!HearNoise
  <2> QED BY <1>5, <1>9, <1>10, <2>1, <2>4 DEF Host!Next
<1>13. CASE f.what # "push" /\ f.to # Noise
  <2>1. AnswersRequest(f) /\ f.to \in Requests /\ f = Answer(f.to)
    <3>1. f # PushFrame
      BY <1>13 DEF PushFrame
    <3>2. PICK p \in Packets : f = Answer(p) /\ f.what = "answer" /\ f.to = p
      BY <1>5, <3>1, FrameIs
    <3> QED BY <1>13, <3>2 DEF Packets, AnswersRequest
  <2>2. k \in DOMAIN asked /\ asked[k] = f.to
    BY <1>8, <2>1 DEF Expected
  <2>3. k \in Nat /\ k > 0 /\ k <= Len(asked) /\ Len(asked) \in Nat
    BY <1>5, <2>2
  <2>4. /\ heard' = "answer" /\ asked' = SubSeq(asked, k + 1, Len(asked))
        /\ mayPush' = (IF f.to.kind # "unsubscribe" THEN mayPush
                       ELSE \E j \in DOMAIN asked' : asked'[j].kind = "subscribe")
    <3>1. k # 0
      BY <2>3
    <3> QED BY <1>4, <1>13, <3>1, Zenon DEF HostHears
  <2> HIDE DEF k
  <2>5. CutTo(asked, k, asked') /\ asked' \in Seq(Requests)
    BY <1>5, <2>3, <2>4 DEF CutTo
  <2>6. mayPush' = IF f.to.kind = "unsubscribe" THEN Wanted(asked') ELSE mayPush
    BY <2>4 DEF Wanted
  <2>7. mayPush' \in BOOLEAN
    BY <1>5, <2>6 DEF Wanted
  <2>8. Host!HearAnswer(k)
    BY <1>1, <2>2, <2>4 DEF Host!HearAnswer
  <2>9. HostRefinement
    BY <1>9, <2>2, <2>8 DEF Host!Next
  <2>10. ASSUME NEW g, InOrder(f, g, asked), AnswersRequest(g), NEW l \in DOMAIN asked,
                asked[l] = g.to
         PROVE  l > k
    BY <2>1, <2>2, <2>3, <2>10, <1>5 DEF InOrder, Before
  <2>11. InOrder(f, PushFrame, asked) /\ f.to.kind = "unsubscribe" => Wanted(asked')
    <3> SUFFICES ASSUME InOrder(f, PushFrame, asked), f.to.kind = "unsubscribe"
                 PROVE  Wanted(asked')
      OBVIOUS
    <3>1. SubscribedAfter(f.to, asked)
      BY <2>1 DEF InOrder
    <3>2. PICK l \in DOMAIN asked : k < l /\ asked[l].kind = "subscribe"
      BY <2>2, <3>1 DEF SubscribedAfter
    <3>3. /\ l - k \in 1 .. Len(asked') /\ (l - k) + k = l
          /\ DOMAIN asked' = 1 .. Len(asked')
      BY <1>5, <2>3, <2>5, <3>2 DEF CutTo
    <3>4. asked'[l - k] = asked[l]
      BY <2>5, <3>3 DEF CutTo
    <3> QED BY <3>2, <3>3, <3>4 DEF Wanted
  <2>12. ASSUME NEW x \in Stream'
         PROVE  /\ AnswersRequest(x[2]) =>
                     \A l \in DOMAIN asked : asked[l] = x[2].to => l > k
                /\ x[2] = PushFrame => mayPush'
    <3>1. InOrder(f, x[2], asked)
      BY <1>8
    <3>2. x[2] = PushFrame => mayPush
      BY <1>5, <1>7 DEF Sound, Expected
    <3> QED BY <2>6, <2>10, <2>11, <3>1, <3>2
  <2>13. /\ Sound(Stream', asked', mayPush', overs > 0)
         /\ PushesSound(Stream, asked, mayPush) /\ mayPush'
              => PushesSound(Stream', asked', mayPush')
    BY <1>5, <1>7, <2>5, <2>7, <2>12, CutIsSound
  <2>14. ASSUME connected, subscribed PROVE PushesSound(Stream', asked', mayPush')
    <3>1. PushesSound(Stream, asked, mayPush)
      BY <1>2, <2>14 DEF SessionInv, HostInv
    <3>2. mayPush'
      <4>1. InOrder(<<-1, f>>[2], PushFrame, asked) /\ mayPush
        BY <1>6, <3>1, SizeIs DEF PushesSound
      <4> QED BY <2>6, <2>11, <4>1
    <3> QED BY <2>13, <3>1, <3>2
  <2>15. Distinct(asked') /\ (Wanted(asked') => mayPush')
    BY <1>5, <2>5, <2>6, CutDistinct
  <2>16. HostInv'
    BY <1>1, <1>2, <1>5, <2>13, <2>14, <2>15 DEF HostInv
  <2> QED BY <2>5, <2>7, <2>9, <2>16
<1> QED BY <1>11, <1>12, <1>13

LEMMA HostReadsStep ==
  ASSUME Inv, SessionInv, HostReads PROVE SessionInv' /\ HostRefinement
<1>1. /\ ep # Nothing /\ ep' = Nothing
      /\ UNCHANGED <<usb, s_was_connected, s_tx, s_tx_off, s_rx_total, s_rx_buf, s_rx_pending>>
      /\ UNCHANGED <<connected, subscribed, pc, tail, overs>>
  BY DEF HostReads, rxVars, txVars, apiVars
<1>2. usb
  BY <1>1 DEF SessionInv, NobodyThere
<1>3. /\ ep.off = rest /\ rest \in Nat /\ Report \in Nat \ {0} /\ ep \in [frame : Frames, off : Nat]
      /\ LastReport => s_tx_off = 0
      /\ ~LastReport => s_tx_off = ep.off + Report /\ ep.off + Report < ep.frame.len
      /\ LastReport => ~(ep.off + Report < ep.frame.len)
  BY <1>1, <1>2, LinkAssumption DEF SessionInv, OffsetsAgree, LastReport, HostTypes
<1>4. rest' = IF LastReport THEN 0 ELSE ep.off + Report
  BY <1>3 DEF HostReads
<1>5. rest' = s_tx_off /\ rest' \in Nat
  BY <1>3, <1>4
<1>6. ~LastReport'
  BY <1>1 DEF LastReport
<1>7. OffsetsAgree'
  BY <1>1, <1>2, <1>5, <1>6 DEF SessionInv, OffsetsAgree
<1>8. NobodyThere'
  BY <1>1, <1>2 DEF SessionInv, NobodyThere, Left
<1>9. CASE LastReport
  <2>1. HostInv' /\ HostRefinement /\ asked' \in Seq(Requests) /\ mayPush' \in BOOLEAN
    BY <1>9, HostHearsStep
  <2>2. HostTypes'
    BY <1>1, <1>5, <2>1 DEF SessionInv, HostTypes
  <2> QED BY <1>7, <1>8, <2>1, <2>2 DEF SessionInv
<1>10. CASE ~LastReport
  <2>1. UNCHANGED <<asked, mayPush, heard>>
    <3>1. rest' # 0
      BY <1>3, <1>4, <1>10
    <3> QED BY <1>3, <3>1 DEF HostReads
  <2>2. Stream' = Stream
    <3>1. Waits' = Waits
      BY <1>1 DEF Waits, Left
    <3> QED BY <1>1, <1>6, <1>10, <3>1 DEF Stream
  <2>3. HostInv'
    BY <1>1, <2>1, <2>2 DEF SessionInv, HostInv
  <2>4. HostRefinement
    BY <1>1, <2>1 DEF HostRefinement, Host!vars
  <2>5. HostTypes'
    BY <1>1, <1>5, <2>1 DEF SessionInv, HostTypes
  <2> QED BY <1>7, <1>8, <2>3, <2>4, <2>5 DEF SessionInv
<1> QED BY <1>9, <1>10

LEMMA SessionInitInv == Init => SessionInv /\ Host!Init
<1> SUFFICES ASSUME Init PROVE SessionInv /\ Host!Init
  OBVIOUS
<1>1. Host!Init
  BY DEF Init, Host!Init
<1>2. HostTypes
  <2>1. asked \in Seq(Requests)
    BY DEF Init
  <2>2. s_rx_buf \in Packets \cup {Nothing} /\ ep = Nothing
    BY DEF Init
  <2> QED BY <2>1, <2>2 DEF Init, HostTypes
<1>3. NobodyThere
  BY DEF Init, NobodyThere
<1>4. OffsetsAgree /\ HostInv
  BY DEF Init, OffsetsAgree, HostInv
<1> QED BY <1>1, <1>2, <1>3, <1>4 DEF SessionInv

(* Every step of the link is one of the host, or none.                     *)
LEMMA SessionStep ==
  ASSUME EdgesSeen, Inv, SessionInv, [Next]_vars PROVE SessionInv' /\ HostRefinement
<1>1. CASE Task
  BY <1>1, UpdateBeginsStep, NothingReceivedStep, DispatchStep, ClearPendingStep,
     PumpSendsStep, PumpStopsStep DEF Task
<1>2. CASE \E kind \in Kinds : HostAsks(kind)
  BY <1>2, HostAsksStep
<1>3. CASE UNCHANGED vars
  <2>1. /\ UNCHANGED <<usb, ep, s_was_connected, s_tx, s_tx_off, s_rx_total, s_rx_buf, s_rx_pending>>
        /\ UNCHANGED <<connected, subscribed, pc, tail, rest, overs, asked, mayPush, heard>>
    BY <1>3 DEF vars, apiVars, rxVars, txVars, hostVars
  <2>2. LastReport' = LastReport /\ Left' = Left /\ Waits' = Waits
    BY <2>1 DEF LastReport, Left, Waits
  <2>3. Stream' = Stream
    BY <2>1, <2>2 DEF Stream
  <2>4. HostRefinement
    BY <2>1 DEF HostRefinement, Host!vars
  <2>5. HostTypes' /\ NobodyThere'
    BY <2>1, <2>2 DEF SessionInv, HostTypes, NobodyThere
  <2>6. OffsetsAgree' /\ HostInv'
    BY <2>1, <2>2, <2>3 DEF SessionInv, OffsetsAgree, HostInv
  <2> QED BY <2>4, <2>5, <2>6 DEF SessionInv
<1> QED BY <1>1, <1>2, <1>3, ApiUpdateStep, LinkChangesStep, HostReadsStep,
           HostSendsRestStep, RequestIsLostStep DEF Next

(* What waits on the link is sound for the host, and its frames follow     *)
(* each other whole, when the device has seen each change of the link      *)
(* before the next (svc_usb_update's edges).                               *)
THEOREM WhatWaitsIsSound == ASSUME EdgesSeen PROVE Spec => []SessionInv
<1>1. Init => SessionInv
  BY SessionInitInv
<1>2. SessionInv /\ Inv /\ [Next]_vars => SessionInv'
  BY SessionStep, EdgesSeen
<1> QED BY <1>1, <1>2, LinkInvariant, PTL DEF Spec

(* The link is a host's session: whatever reports were dropped or put out  *)
(* of step, the host gets the answers it asked for in order, each at most  *)
(* once and none of an earlier connection, and pushes only while it may    *)
(* have a subscription.                                                    *)
THEOREM LinkIsASession == ASSUME EdgesSeen PROVE Spec => HostSession
<1>1. Init => Host!Init
  BY SessionInitInv
<1>2. SessionInv /\ Inv /\ [Next]_vars => [Host!Next]_(Host!vars)
  BY SessionStep, EdgesSeen DEF HostRefinement
<1> QED BY <1>1, <1>2, WhatWaitsIsSound, LinkInvariant, PTL DEF Spec, HostSession, Host!Spec
=====
