--------------------------- MODULE AdsRingProofs ---------------------------
(***************************************************************************)
(* Proofs about AdsRing for every ring size, index width and timing: that  *)
(* the drain never needs its clamp, that the DMA never writes a slot the   *)
(* drain has still to read, that damage is never silent, that the whole is *)
(* a queue, and that a slip fault is no false alarm.                       *)
(***************************************************************************)
EXTENDS AdsRing, SequenceTheorems, TLAPS

-----------------------------------------------------------------------------
(* Arithmetic of the free-running indices: they become linear once the     *)
(* remainders are removed.                                                 *)

(* A remainder is in range, and it is what the quotient leaves.            *)
LEMMA DivMod ==
  ASSUME NEW N \in Nat \ {0}, NEW a \in Int
  PROVE  /\ a % N \in 0 .. N - 1
         /\ a \div N \in Int
         /\ a = (N * (a \div N)) + (a % N)
  OBVIOUS

(* Three ranges in which a remainder is a sum.                             *)
LEMMA ModBelow ==
  ASSUME NEW N \in Nat \ {0}, NEW a \in 0 .. N - 1 PROVE a % N = a
  OBVIOUS
(* From one turn to two, the turn is taken off.                            *)
LEMMA ModAbove ==
  ASSUME NEW N \in Nat \ {0}, NEW a \in N .. 2 * N - 1 PROVE a % N = a - N
  OBVIOUS
(* Below zero, a turn is added.                                            *)
LEMMA ModNegative ==
  ASSUME NEW N \in Nat \ {0}, NEW a \in -N .. -1 PROVE a % N = a + N
  OBVIOUS

(* The ring and its indices are not empty, and an index range is a whole   *)
(* number of turns of the ring.                                            *)
LEMMA Sizes ==
  /\ RingFrames \in Nat \ {0} /\ RingFrames > 1
  /\ IndexRange \in Nat \ {0}
  /\ \E turns \in Int : IndexRange = RingFrames * turns
  /\ RingFrames <= IndexRange
<1>1. /\ RingFrames \in Nat \ {0} /\ RingFrames > 1
      /\ IndexRange \in Nat \ {0} /\ IndexRange % RingFrames = 0
  BY RingAssumption
<1>2. /\ IndexRange \div RingFrames \in Int
      /\ IndexRange = (RingFrames * (IndexRange \div RingFrames)) + 0
  BY <1>1, DivMod
<1>3. IndexRange = RingFrames * (IndexRange \div RingFrames)
  BY <1>1, <1>2
<1>4. \E turns \in Int : IndexRange = RingFrames * turns
  BY <1>2, <1>3
<1>5. RingFrames <= IndexRange
  BY <1>1, ModBelow
<1> QED BY <1>1, <1>4, <1>5

(* How far one index is behind another.                                    *)
LEMMA GapIs ==
  ASSUME NEW h \in Index, NEW t \in Index
  PROVE  Gap(h, t) = IF h >= t THEN h - t ELSE h - t + IndexRange
<1>1. IndexRange \in Nat \ {0}
  BY Sizes
<1>2. h \in Int /\ t \in Int /\ 0 <= h /\ h < IndexRange /\ 0 <= t /\ t < IndexRange
  BY <1>1 DEF Index
<1>3. CASE h >= t
  <2>1. h - t \in 0 .. IndexRange - 1 BY <1>1, <1>2, <1>3
  <2> QED BY <1>1, <1>3, <2>1, ModBelow DEF Gap
<1>4. CASE ~(h >= t)
  <2>1. h - t \in -IndexRange .. -1 BY <1>1, <1>2, <1>4
  <2> QED BY <1>1, <1>4, <2>1, ModNegative DEF Gap
<1> QED BY <1>3, <1>4

(* The next index.                                                         *)
LEMMA AfterIs ==
  ASSUME NEW i \in Index
  PROVE  /\ After(i) = IF i = IndexRange - 1 THEN 0 ELSE i + 1
         /\ After(i) \in Index
<1>1. IndexRange \in Nat \ {0}
  BY Sizes
<1>2. i \in Int /\ 0 <= i /\ i < IndexRange
  BY <1>1 DEF Index
<1>3. CASE i = IndexRange - 1
  <2>1. i + 1 \in IndexRange .. 2 * IndexRange - 1 BY <1>1, <1>2, <1>3
  <2>2. After(i) = 0 BY <1>1, <1>2, <1>3, <2>1, ModAbove DEF After
  <2> QED BY <1>1, <1>3, <2>2 DEF Index
<1>4. CASE i # IndexRange - 1
  <2>1. i + 1 \in 0 .. IndexRange - 1 BY <1>1, <1>2, <1>4
  <2>2. After(i) = i + 1 BY <1>1, <2>1, ModBelow DEF After
  <2> QED BY <1>4, <2>1, <2>2 DEF Index
<1> QED BY <1>3, <1>4

(* A gap is a number of indices; it is zero only between equal ones.       *)
LEMMA GapRange ==
  ASSUME NEW h \in Index, NEW t \in Index
  PROVE  /\ Gap(h, t) \in Nat /\ Gap(h, t) < IndexRange
         /\ Gap(h, t) = 0 <=> h = t
<1>1. /\ IndexRange \in Nat \ {0} /\ h \in Int /\ t \in Int
      /\ 0 <= h /\ h < IndexRange /\ 0 <= t /\ t < IndexRange
  BY Sizes DEF Index
<1> QED BY <1>1, GapIs

(* A commit widens the gap by one.                                         *)
LEMMA GapGrows ==
  ASSUME NEW h \in Index, NEW t \in Index, Gap(h, t) < IndexRange - 1
  PROVE  Gap(After(h), t) = Gap(h, t) + 1
<1>1. /\ IndexRange \in Nat \ {0} /\ h \in Int /\ t \in Int
      /\ 0 <= h /\ h < IndexRange /\ 0 <= t /\ t < IndexRange
  BY Sizes DEF Index
<1>2. After(h) \in Index /\ After(h) = IF h = IndexRange - 1 THEN 0 ELSE h + 1
  BY AfterIs
<1>3. Gap(After(h), t)
        = IF After(h) >= t THEN After(h) - t ELSE After(h) - t + IndexRange
  BY <1>2, GapIs
<1>4. Gap(h, t) = IF h >= t THEN h - t ELSE h - t + IndexRange
  BY GapIs
<1> QED BY <1>1, <1>2, <1>3, <1>4

(* A frame passed on narrows it by one.                                    *)
LEMMA GapShrinks ==
  ASSUME NEW h \in Index, NEW t \in Index, h # t
  PROVE  Gap(h, After(t)) = Gap(h, t) - 1
<1>1. /\ IndexRange \in Nat \ {0} /\ h \in Int /\ t \in Int
      /\ 0 <= h /\ h < IndexRange /\ 0 <= t /\ t < IndexRange
  BY Sizes DEF Index
<1>2. After(t) \in Index /\ After(t) = IF t = IndexRange - 1 THEN 0 ELSE t + 1
  BY AfterIs
<1>3. Gap(h, After(t))
        = IF h >= After(t) THEN h - After(t) ELSE h - After(t) + IndexRange
  BY <1>2, GapIs
<1>4. Gap(h, t) = IF h >= t THEN h - t ELSE h - t + IndexRange
  BY GapIs
<1> QED BY <1>1, <1>2, <1>3, <1>4

(* An index between two others splits their gap.                           *)
LEMMA GapSplits ==
  ASSUME NEW h \in Index, NEW d \in Index, NEW t \in Index, Gap(d, t) <= Gap(h, t)
  PROVE  Gap(h, d) = Gap(h, t) - Gap(d, t)
<1>1. /\ IndexRange \in Nat \ {0} /\ h \in Int /\ t \in Int /\ d \in Int
      /\ 0 <= h /\ h < IndexRange /\ 0 <= t /\ t < IndexRange
      /\ 0 <= d /\ d < IndexRange
  BY Sizes DEF Index
<1>2. /\ Gap(h, d) = IF h >= d THEN h - d ELSE h - d + IndexRange
      /\ Gap(h, t) = IF h >= t THEN h - t ELSE h - t + IndexRange
      /\ Gap(d, t) = IF d >= t THEN d - t ELSE d - t + IndexRange
  BY GapIs
<1> QED BY <1>1, <1>2

(* A slot is a place of the ring.                                          *)
LEMMA SlotIsSlot ==
  ASSUME NEW i \in Int PROVE Slot(i) \in Slots
  BY Sizes, DivMod DEF Slot, Slots

(* Less than a turn apart, two indices never share a slot.                 *)
LEMMA SlotsApart ==
  ASSUME NEW h \in Index, NEW t \in Index, NEW k \in Nat,
         k < Gap(h, t), Gap(h, t) <= RingFrames - 1
  PROVE  Slot(t + k) # Slot(h)
<1>1. /\ RingFrames \in Nat \ {0} /\ IndexRange \in Nat \ {0}
      /\ h \in Int /\ t \in Int
  BY Sizes DEF Index
<1> DEFINE d == Gap(h, t) - k
<1>2. d \in 1 .. RingFrames - 1 /\ (h - (t + k) = d \/ h - (t + k) = d - IndexRange)
  BY <1>1, GapIs
<1>3. PICK turns \in Int : IndexRange = RingFrames * turns
  BY Sizes
<1> SUFFICES ASSUME Slot(t + k) = Slot(h) PROVE FALSE
  OBVIOUS
<1> DEFINE a == h \div RingFrames
           b == (t + k) \div RingFrames
<1>4. /\ a \in Int /\ h = (RingFrames * a) + Slot(h)
      /\ b \in Int /\ t + k = (RingFrames * b) + Slot(t + k)
  BY <1>1, DivMod DEF Slot
<1>5. Slot(h) \in Int
  BY <1>1, SlotIsSlot, Sizes DEF Slots
<1> HIDE DEF a, b
<1>6. (RingFrames * a) - (RingFrames * b) = RingFrames * (a - b)
  BY <1>1, <1>4
<1> DEFINE q == a - b
<1>7. q \in Int /\ h - (t + k) = RingFrames * q
  BY <1>1, <1>4, <1>5, <1>6
<1> HIDE DEF q, d
<1>8. d = RingFrames * q \/ d = RingFrames * (q + turns)
  BY <1>1, <1>2, <1>3, <1>7
<1>9. ASSUME NEW m \in Int, d = RingFrames * m PROVE FALSE
  <2>1. CASE m <= 0 BY <1>1, <1>2, <1>9, <2>1
  <2>2. CASE m >= 1 BY <1>1, <1>2, <1>9, <2>2
  <2> QED BY <2>1, <2>2
<1> QED BY <1>3, <1>7, <1>8, <1>9

-----------------------------------------------------------------------------
(* The inductive invariant.                                                *)

(* The read in flight goes to the slot of s_ring_head.                     *)
DmaServesHead ==
  /\ s_xfer_active <=> dma.at # "off"
  /\ dma.at # "off" => dma.slot = Slot(s_ring_head)

(* One slot is free, whatever the drain is doing.                          *)
RingHasRoom == Gap(s_ring_head, s_ring_tail) <= RingFrames - 1

(* In the middle of a frame the drain is not at its end.                   *)
FrameInHand == drain.at \in {"store", "deliver"} => drain.tail # drain.head

(* A stopped acquisition has no read in flight.                            *)
StopEndsReads == ~s_running => ~s_xfer_active

(* A due SysTick has been waiting at least since the last millisecond.     *)
DueSinceMs == systick => ms <= late

RingInv == RingHasRoom /\ DrainInBounds /\ FrameInHand
Inv == TypeOK /\ DmaServesHead /\ StopEndsReads /\ DueSinceMs /\ RingInv

(* Nothing is read, committed or drained at power-up.                      *)
LEMMA InitInv == Init => Inv
<1> SUFFICES ASSUME Init PROVE Inv
  OBVIOUS
<1>1. /\ RingFrames \in Nat \ {0} /\ RingFrames > 1 /\ IndexRange \in Nat \ {0}
      /\ 0 \in Index /\ 0 \in Slots
  BY Sizes DEF Index, Slots
<1>2. Gap(0, 0) = 0
  BY <1>1, GapIs
<1>3. TypeOK
  <2>1. drain \in Drain
    BY <1>1 DEF Init, DrainOff, Drain, Faults
  <2>2. dma \in Dma /\ reads \in 0 .. Labels - 1
    BY <1>1, FrameAssumption DEF Init, DmaOff, Dma
  <2>3. /\ run_ms \in 0 .. SettleMs /\ s_deficit_hold \in 0 .. DeficitHoldMs
        /\ ms \in 0 .. ConversionsPerMs - 1 /\ late \in 0 .. MaxLate
        /\ lost \in 0 .. MaxLost /\ frame_deficit \in Int
    BY TimingAssumption DEF Init
  <2>4. s_ring \in [Slots -> Frames \cup {Torn}]
    BY DEF Init
  <2> QED
    BY <1>1, <2>1, <2>2, <2>3, <2>4 DEF Init, TypeOK
<1>4. DmaServesHead /\ StopEndsReads /\ DueSinceMs
  BY DEF Init, DmaServesHead, StopEndsReads, DueSinceMs, DmaOff
<1>5. RingInv
  BY <1>1, <1>2
     DEF Init, RingInv, RingHasRoom, DrainInBounds, FrameInHand, Draining, DrainOff
<1> QED BY <1>3, <1>4, <1>5 DEF Inv

(* Beginning a drain: the snapshot is in bounds, so the clamp is not taken.*)
LEMMA DrainFromIs ==
  ASSUME Inv, NEW caller \in {"tick", "stop"}, DrainFrom(caller)
  PROVE  /\ drain' = [at |-> "frame", by |-> caller, tail |-> s_ring_tail,
                      head |-> s_ring_head, code |-> "slip"]
         /\ drain' \in Drain
<1>1. /\ s_ring_head \in Index /\ s_ring_tail \in Index
      /\ RingFrames \in Nat
      /\ Gap(s_ring_head, s_ring_tail) <= RingFrames - 1
  BY Sizes DEF Inv, TypeOK, RingInv, RingHasRoom
<1>2. Gap(s_ring_head, s_ring_tail) \in Int
  BY <1>1, GapIs, Sizes DEF Index
<1>3. ~(Gap(s_ring_head, s_ring_tail) > RingFrames)
  BY <1>1, <1>2
<1>4. drain' = [at |-> "frame", by |-> caller, tail |-> s_ring_tail,
                head |-> s_ring_head, code |-> "slip"]
  BY <1>3 DEF DrainFrom
<1>5. drain' \in Drain
  BY <1>1, <1>4 DEF Drain, Faults
<1> QED BY <1>4, <1>5

(* A fresh snapshot is within bounds.                                      *)
LEMMA SnapshotInBounds ==
  ASSUME Inv, NEW caller \in {"tick", "stop"}, DrainFrom(caller), UNCHANGED ringVars
  PROVE  RingInv'
<1>1. /\ s_ring_head \in Index /\ s_ring_tail \in Index /\ RingFrames \in Nat
      /\ Gap(s_ring_head, s_ring_tail) <= RingFrames - 1
  BY Sizes DEF Inv, TypeOK, RingInv, RingHasRoom
<1>2. /\ Gap(s_ring_tail, s_ring_tail) = 0
      /\ Gap(s_ring_head, s_ring_tail) \in Int
  BY <1>1, GapIs, Sizes DEF Index
<1>3. /\ drain'.at = "frame" /\ drain'.tail = s_ring_tail /\ drain'.head = s_ring_head
      /\ s_ring_head' = s_ring_head /\ s_ring_tail' = s_ring_tail
  BY DrainFromIs DEF ringVars
<1> QED
  BY <1>1, <1>2, <1>3
     DEF RingInv, RingHasRoom, DrainInBounds, FrameInHand, Draining

-----------------------------------------------------------------------------
(* One lemma per group of actions.                                         *)

(* A commit closes one more slot only if two were free; a read is armed at *)
(* the new head.                                                           *)
LEMMA OnTriggerInv ==
  ASSUME Inv, OnTrigger PROVE Inv'
<1>1. /\ s_ring_head \in Index /\ s_ring_tail \in Index
      /\ RingFrames \in Nat \ {0} /\ IndexRange \in Nat \ {0}
      /\ RingFrames <= IndexRange
      /\ Index = 0 .. IndexRange - 1
  BY Sizes DEF Inv, TypeOK, Index
<1>2. HeadAfter \in Index
  BY <1>1, AfterIs DEF HeadAfter
<1>3. Slot(HeadAfter) \in Slots
  BY <1>1, <1>2, SlotIsSlot
<1>4. /\ s_ring_head' = HeadAfter /\ s_ring_tail' = s_ring_tail /\ drain' = drain
      /\ s_running /\ s_running' = s_running
  BY DEF OnTrigger
<1>5. FaultAfter \in Faults \cup {"none"}
  BY DEF FaultAfter, Latched, Inv, TypeOK, Faults
<1>6. /\ s_ring' \in [Slots -> Frames \cup {Torn}] /\ s_xfer_active' \in BOOLEAN
      /\ dma' \in Dma /\ reads' \in 0 .. Labels - 1 /\ drdy' \in BOOLEAN
      /\ DmaServesHead'
  <2>1. reads \in 0 .. Labels - 1 /\ Labels \in Nat \ {0} /\ drdy \in BOOLEAN
        /\ s_ring \in [Slots -> Frames \cup {Torn}]
    BY FrameAssumption DEF Inv, TypeOK
  <2>2. CASE ArmRead
    <3>1. (reads + 1) % Labels \in 0 .. Labels - 1
      BY <2>1, DivMod
    <3>2. dma' = [at |-> "shifting", slot |-> Slot(HeadAfter), n |-> reads]
      BY <2>2 DEF ArmRead
    <3>3. s_ring' \in [Slots -> Frames \cup {Torn}]
      BY <1>3, <2>1, <2>2 DEF ArmRead
    <3>4. dma' \in Dma
      BY <1>3, <2>1, <3>2 DEF Dma
    <3>5. DmaServesHead'
      BY <1>4, <2>2, <3>2 DEF ArmRead, DmaServesHead
    <3> QED BY <2>2, <3>1, <3>3, <3>4, <3>5 DEF ArmRead
  <2>3. CASE NoRead
    <3>1. dma' \in Dma
      BY <1>1, <2>1, <2>3, Sizes DEF NoRead, DmaOff, Dma, Slots
    <3> QED BY <2>1, <2>3, <3>1 DEF NoRead, DmaOff, DmaServesHead
  <2> QED BY <2>2, <2>3 DEF OnTrigger
<1>7. TypeOK'
  <2>1. frame_deficit' \in Int
    BY DEF OnTrigger, Inv, TypeOK
  <2> QED
    BY <1>2, <1>4, <1>5, <1>6, <2>1
       DEF OnTrigger, Inv, TypeOK, slipVars, timeVars
<1>8. RingInv'
  <2>1. CASE Commits
    <3>1. /\ s_ring_head' = After(s_ring_head)
          /\ Gap(s_ring_head, s_ring_tail) < RingFrames - 1
      <4>1. Gap(s_ring_head, s_ring_tail) \in Nat
        BY <1>1, GapRange
      <4> QED BY <1>1, <1>4, <2>1, <4>1 DEF HeadAfter, Commits, RingFull
    <3>2. Gap(s_ring_head', s_ring_tail) = Gap(s_ring_head, s_ring_tail) + 1
      <4>1. Gap(s_ring_head, s_ring_tail) \in Nat
        BY <1>1, GapRange
      <4>2. Gap(s_ring_head, s_ring_tail) < IndexRange - 1
        BY <1>1, <3>1, <4>1
      <4> QED BY <1>1, <3>1, <4>2, GapGrows
    <3>3. RingHasRoom'
      <4>1. Gap(s_ring_head, s_ring_tail) \in Nat
        BY <1>1, GapRange
      <4>2. Gap(s_ring_head, s_ring_tail) + 1 <= RingFrames - 1
        BY <1>1, <3>1, <4>1
      <4> QED BY <1>4, <3>2, <4>2 DEF RingHasRoom
    <3>4. DrainInBounds'
      <4>1. /\ drain.tail \in Index /\ drain.head \in Index
        BY DEF Inv, TypeOK, Drain
      <4>2. /\ Gap(s_ring_head, s_ring_tail) \in Nat
            /\ Gap(drain.tail, s_ring_tail) \in Nat
            /\ Gap(drain.head, drain.tail) \in Nat
        BY <1>1, <4>1, GapRange
      <4>3. Draining /\ drain.at # "slip" =>
              /\ Gap(drain.tail, s_ring_tail) + Gap(drain.head, drain.tail)
                   <= Gap(s_ring_head, s_ring_tail)
              /\ Gap(drain.head, drain.tail) < RingFrames
        BY DEF Inv, RingInv, DrainInBounds
      <4> QED
        BY <1>4, <3>2, <4>2, <4>3 DEF DrainInBounds, Draining
    <3> QED BY <1>4, <3>3, <3>4 DEF Inv, RingInv, FrameInHand
  <2>2. CASE ~Commits
    BY <1>4, <2>2
       DEF HeadAfter, Inv, RingInv, RingHasRoom, DrainInBounds, FrameInHand, Draining
  <2> QED BY <2>1, <2>2
<1>9. StopEndsReads' /\ DueSinceMs'
  BY <1>4 DEF Inv, StopEndsReads, DueSinceMs, OnTrigger, timeVars
<1> QED BY <1>6, <1>7, <1>8, <1>9 DEF Inv

(* The drain moves inside its snapshot and publishes only at the end.      *)
LEMMA DrainStepInv ==
  ASSUME Inv, DrainStep PROVE Inv'
<1>1. /\ s_ring_head \in Index /\ s_ring_tail \in Index
      /\ drain.tail \in Index /\ drain.head \in Index /\ drain \in Drain
      /\ RingFrames \in Nat \ {0} /\ IndexRange \in Nat \ {0}
      /\ Index = 0 .. IndexRange - 1
      /\ s_ring \in [Slots -> Frames \cup {Torn}]
  BY Sizes DEF Inv, TypeOK, Drain, Index
<1>2. InHand \in Frames \cup {Torn}
  BY <1>1, SlotIsSlot DEF InHand
<1>3. CASE CheckFrame
  <2>1. CASE InHand.q \in Faults /\ fault_code = "none"
    <3>1. drain' = [drain EXCEPT !.at = "store", !.code = InHand.q]
      BY <1>3, <2>1 DEF CheckFrame
    <3>2. /\ drain' \in Drain
          /\ drain'.at = "store" /\ drain'.tail = drain.tail /\ drain'.head = drain.head
      BY <1>1, <2>1, <3>1 DEF Drain
    <3> QED
      BY <1>3, <3>2
         DEF CheckFrame, Inv, TypeOK, DmaServesHead, StopEndsReads, DueSinceMs, RingInv,
             RingHasRoom, DrainInBounds, FrameInHand, Draining, ringVars,
             slipVars, adcVars, timeVars
  <2>2. CASE ~(InHand.q \in Faults /\ fault_code = "none")
    <3>1. drain' = [drain EXCEPT !.at = "deliver"]
      BY <1>3, <2>2 DEF CheckFrame
    <3>2. /\ drain' \in Drain
          /\ drain'.at = "deliver" /\ drain'.tail = drain.tail /\ drain'.head = drain.head
      BY <1>1, <3>1 DEF Drain
    <3> QED
      BY <1>3, <3>2
         DEF CheckFrame, Inv, TypeOK, DmaServesHead, StopEndsReads, DueSinceMs, RingInv,
             RingHasRoom, DrainInBounds, FrameInHand, Draining, ringVars,
             slipVars, adcVars, timeVars
  <2> QED BY <2>1, <2>2
<1>4. CASE StoreFault
  <2>1. /\ drain' \in Drain /\ drain.code \in Faults
        /\ drain'.at = "deliver" /\ drain'.tail = drain.tail /\ drain'.head = drain.head
    BY <1>1, <1>4 DEF StoreFault, Drain
  <2> QED
    BY <1>4, <2>1
       DEF StoreFault, Inv, TypeOK, DmaServesHead, StopEndsReads, DueSinceMs, RingInv,
           RingHasRoom, DrainInBounds, FrameInHand, Draining, ringVars,
           slipVars, adcVars, timeVars
<1>5. CASE PassOn
  <2>1. After(drain.tail) \in Index
    BY <1>1, AfterIs
  <2>2. /\ drain' \in Drain
        /\ drain'.at = "frame" /\ drain'.tail = After(drain.tail)
        /\ drain'.head = drain.head
    BY <1>1, <1>5, <2>1 DEF PassOn, Drain
  <2>3. TypeOK' /\ DmaServesHead' /\ StopEndsReads' /\ DueSinceMs'
    BY <1>2, <1>5, <2>2
       DEF PassOn, Inv, TypeOK, DmaServesHead, StopEndsReads, DueSinceMs, ringVars, slipVars,
           adcVars, timeVars
  <2>4. /\ drain.tail # drain.head
        /\ Gap(drain.tail, s_ring_tail) + Gap(drain.head, drain.tail)
             <= Gap(s_ring_head, s_ring_tail)
        /\ Gap(drain.head, drain.tail) < RingFrames
        /\ Gap(s_ring_head, s_ring_tail) <= RingFrames - 1
    BY <1>5 DEF PassOn, Inv, RingInv, RingHasRoom, DrainInBounds, FrameInHand, Draining
  <2>5. Gap(drain.head, After(drain.tail)) = Gap(drain.head, drain.tail) - 1
    BY <1>1, <2>4, GapShrinks
  <2>6. /\ Gap(drain.tail, s_ring_tail) \in Nat /\ Gap(drain.head, drain.tail) \in Nat
        /\ Gap(s_ring_head, s_ring_tail) \in Nat /\ Gap(drain.head, drain.tail) # 0
        /\ Gap(s_ring_head, s_ring_tail) < IndexRange
    BY <1>1, <2>4, GapRange
  <2>7. Gap(After(drain.tail), s_ring_tail) = Gap(drain.tail, s_ring_tail) + 1
    <3>1. Gap(drain.tail, s_ring_tail) < IndexRange - 1
      BY <1>1, <2>4, <2>6
    <3> QED BY <1>1, <3>1, GapGrows
  <2>8. RingInv'
    <3>1. /\ drain'.tail = After(drain.tail) /\ drain'.head = drain.head /\ drain'.at = "frame"
          /\ s_ring_head' = s_ring_head /\ s_ring_tail' = s_ring_tail
      BY <1>1, <1>5, <2>2 DEF PassOn, ringVars
    <3>2. RingHasRoom'
      BY <2>4, <3>1 DEF RingHasRoom
    <3>3. DrainInBounds'
      <4>1. /\ Gap(drain'.tail, s_ring_tail') = Gap(drain.tail, s_ring_tail) + 1
            /\ Gap(drain'.head, drain'.tail) = Gap(drain.head, drain.tail) - 1
            /\ Gap(s_ring_head', s_ring_tail') = Gap(s_ring_head, s_ring_tail)
        BY <2>5, <2>7, <3>1
      <4>2. RingFrames \in Int
        BY <1>1
      <4>3. /\ Gap(drain'.tail, s_ring_tail') + Gap(drain'.head, drain'.tail)
                 <= Gap(s_ring_head', s_ring_tail')
            /\ Gap(drain'.head, drain'.tail) < RingFrames
        BY ONLY <2>4, <2>6, <4>1, <4>2
      <4> QED BY <4>3 DEF DrainInBounds
    <3>4. FrameInHand'
      BY <3>1 DEF FrameInHand
    <3> QED BY <3>2, <3>3, <3>4 DEF RingInv
  <2> QED BY <2>3, <2>8 DEF Inv
<1>6. ASSUME HandlerOver, ms' = ms, systick' = systick, DueSinceMs,
             late \in 0 .. MaxLate, ms \in 0 .. ConversionsPerMs - 1
      PROVE  late' \in 0 .. MaxLate /\ DueSinceMs' /\ drain' \in Drain /\ drain'.at = "off"
  <2>1. DrainOff \in Drain
    BY <1>1 DEF DrainOff, Drain, Faults
  <2>2. drain' = DrainOff /\ DrainOff.at = "off"
    BY <1>6 DEF HandlerOver, DrainOff
  <2>3. late' = IF ~systick THEN 0 ELSE IF drain.by = "tick" THEN ms ELSE late
    BY <1>6 DEF HandlerOver
  <2>4. MaxLate \in Nat /\ ConversionsPerMs \in Nat \ {0}
    BY TimingAssumption
  <2>5. late' \in 0 .. MaxLate /\ DueSinceMs'
    BY <1>6, <2>3, <2>4 DEF DueSinceMs
  <2> QED BY <2>1, <2>2, <2>5
<1>7. CASE DrainOver
  <2>1. /\ drain' \in Drain /\ drain'.at \in {"slip", "off"}
        /\ late' \in 0 .. MaxLate /\ DueSinceMs'
    <3>1. CASE drain' = [drain EXCEPT !.at = "slip"] /\ UNCHANGED late
      <4>1. drain' \in Drain /\ drain'.at = "slip"
        BY <1>1, <3>1 DEF Drain
      <4>2. late' \in 0 .. MaxLate /\ DueSinceMs'
        BY <1>7, <3>1 DEF DrainOver, Inv, TypeOK, DueSinceMs
      <4> QED BY <4>1, <4>2
    <3>2. CASE HandlerOver
      BY <1>6, <1>7, <3>2 DEF DrainOver, Inv, TypeOK
    <3> QED BY <1>7, <3>1, <3>2 DEF DrainOver
  <2>2. TypeOK' /\ DmaServesHead' /\ StopEndsReads'
    BY <1>1, <1>7, <2>1
       DEF DrainOver, Inv, TypeOK, DmaServesHead, StopEndsReads, slipVars, adcVars
  <2>3. /\ drain.at = "frame" /\ drain.tail = drain.head
        /\ s_ring_tail' = drain.tail /\ s_ring_head' = s_ring_head
    BY <1>7 DEF DrainOver
  <2>4. /\ Gap(drain.tail, s_ring_tail) <= Gap(s_ring_head, s_ring_tail)
        /\ Gap(s_ring_head, s_ring_tail) <= RingFrames - 1
    <3>1. Gap(drain.head, drain.tail) = 0 /\ Gap(drain.tail, s_ring_tail) \in Nat
      BY <1>1, <2>3, GapRange
    <3>2. /\ Gap(drain.tail, s_ring_tail) + Gap(drain.head, drain.tail)
               <= Gap(s_ring_head, s_ring_tail)
          /\ Gap(s_ring_head, s_ring_tail) <= RingFrames - 1
      BY <2>3 DEF Inv, RingInv, RingHasRoom, DrainInBounds, Draining
    <3> QED BY <3>1, <3>2
  <2>5. Gap(s_ring_head, drain.tail)
          = Gap(s_ring_head, s_ring_tail) - Gap(drain.tail, s_ring_tail)
    BY <1>1, <2>4, GapSplits
  <2>6. Gap(s_ring_head, s_ring_tail) \in Nat /\ Gap(drain.tail, s_ring_tail) \in Nat
    BY <1>1, GapRange
  <2>7. RingInv'
    BY <1>1, <2>1, <2>3, <2>4, <2>5, <2>6
       DEF RingInv, RingHasRoom, DrainInBounds, FrameInHand, Draining
  <2> QED BY <2>1, <2>2, <2>7 DEF Inv
<1>8. CASE SlipCheck
  <2>1. /\ run_ms' \in 0 .. SettleMs /\ s_deficit_hold' \in 0 .. DeficitHoldMs
        /\ frame_deficit' \in Int /\ lost' \in 0 .. MaxLost
        /\ fault_code' \in Faults \cup {"none"}
    <3>1. /\ run_ms \in 0 .. SettleMs /\ s_deficit_hold \in 0 .. DeficitHoldMs
          /\ frame_deficit \in Int /\ lost \in 0 .. MaxLost
          /\ fault_code \in Faults \cup {"none"}
      BY DEF Inv, TypeOK
    <3>2. CASE Settled /\ CheckDeficit
      BY <3>1, <3>2, TimingAssumption DEF CheckDeficit, Latched, Faults
    <3>3. CASE ~Settled /\ TakeReference
      BY <3>1, <3>3, TimingAssumption DEF TakeReference, Settled
    <3> QED BY <1>8, <3>2, <3>3 DEF SlipCheck
  <2>2. /\ drain' \in Drain /\ drain'.at = "off"
        /\ late' \in 0 .. MaxLate /\ DueSinceMs'
    BY <1>6, <1>8 DEF SlipCheck, Inv, TypeOK
  <2> QED
    BY <1>8, <2>1, <2>2
       DEF SlipCheck, Inv, TypeOK, DmaServesHead, StopEndsReads, RingInv,
           RingHasRoom, DrainInBounds, FrameInHand, Draining, ringVars
<1> QED BY <1>3, <1>4, <1>5, <1>7, <1>8 DEF DrainStep

(* SysTick begins its drain inside the ring's bounds.                      *)
LEMMA SysTickInv ==
  ASSUME Inv, SysTick PROVE Inv'
<1>1. late' \in 0 .. MaxLate /\ DueSinceMs' /\ systick' \in BOOLEAN
  <2>1. 0 \in 0 .. MaxLate /\ late \in 0 .. MaxLate
    BY TimingAssumption DEF Inv, TypeOK
  <2>2. systick' = FALSE /\ (late' = late \/ late' = 0)
    BY DEF SysTick
  <2> QED BY <2>1, <2>2 DEF DueSinceMs
<1>2. CASE s_running
  <2>1. DrainFrom("tick") /\ UNCHANGED ringVars
    BY <1>2 DEF SysTick
  <2>2. drain' \in Drain /\ RingInv'
    BY <2>1, DrainFromIs, SnapshotInBounds
  <2> QED
    BY <1>1, <2>2
       DEF SysTick, Inv, TypeOK, DmaServesHead, StopEndsReads, ringVars, slipVars, adcVars
<1>3. CASE ~s_running
  BY <1>1, <1>3
     DEF SysTick, Inv, TypeOK, DmaServesHead, StopEndsReads, RingInv, RingHasRoom,
         DrainInBounds, FrameInHand, Draining, ringVars, slipVars, adcVars
<1> QED BY <1>2, <1>3

(* A new run finds no read in flight and begins with an empty ring.        *)
LEMMA StartInv ==
  ASSUME Inv, Start PROVE Inv'
<1>1. /\ 0 \in Index /\ 0 \in Slots /\ RingFrames \in Nat /\ RingFrames > 1
  BY Sizes DEF Index, Slots
<1>2. Gap(0, 0) = 0
  BY <1>1, GapIs
<1>3. dma.at = "off" /\ drain.at = "off" /\ drain' = drain
  BY DEF Start, Inv, StopEndsReads, DmaServesHead, Draining
<1>4. 0 \in 0 .. Labels - 1 /\ 0 \in 0 .. SettleMs /\ 0 \in 0 .. DeficitHoldMs
      /\ 0 \in 0 .. MaxLost
  BY TimingAssumption, FrameAssumption
<1>5. TypeOK'
  <2>1. sample' = NoFrame /\ frame_deficit' \in Int
    BY DEF Start
  <2> QED BY <1>1, <1>4, <2>1 DEF Start, Inv, TypeOK, timeVars
<1>6. DmaServesHead' /\ StopEndsReads' /\ DueSinceMs'
  BY <1>3 DEF Start, Inv, DmaServesHead, StopEndsReads, DueSinceMs, timeVars
<1>7. RingInv'
  BY <1>1, <1>2, <1>3
     DEF Start, RingInv, RingHasRoom, DrainInBounds, FrameInHand, Draining
<1> QED BY <1>5, <1>6, <1>7 DEF Inv

(* A stop ends the read in flight before it drains.                        *)
LEMMA StopInv ==
  ASSUME Inv, Stop PROVE Inv'
<1>1. DrainFrom("stop") /\ UNCHANGED ringVars
  BY DEF Stop
<1>2. drain' \in Drain /\ RingInv'
  BY <1>1, DrainFromIs, SnapshotInBounds
<1>3. DmaOff \in Dma /\ DmaOff.at = "off"
  BY Sizes, FrameAssumption DEF DmaOff, Dma, Slots
<1>4. dma' \in Dma /\ ~s_xfer_active' /\ dma'.at = "off"
  BY <1>3 DEF Stop, Inv, TypeOK, DmaServesHead
<1> QED
  BY <1>2, <1>4
     DEF Stop, Inv, TypeOK, DmaServesHead, StopEndsReads, DueSinceMs, ringVars,
         slipVars, adcVars, timeVars

(* The hardware writes only the slot it was given, and time passes.        *)
LEMMA HardwareInv ==
  ASSUME Inv, DmaDone \/ Convert PROVE Inv'
<1>1. CASE DmaDone
  <2>1. dma' \in Dma /\ dma'.at = "done" /\ dma'.slot = dma.slot /\ dma.at # "off"
    BY <1>1 DEF DmaDone, Inv, TypeOK, Dma
  <2>2. s_ring' \in [Slots -> Frames \cup {Torn}]
    <3>1. PICK q \in {"good"} \cup BadQualities :
            s_ring' = [s_ring EXCEPT ![dma.slot] = [n |-> dma.n, q |-> q]]
      BY <1>1 DEF DmaDone
    <3>2. [n |-> dma.n, q |-> q] \in Frames
      BY DEF Inv, TypeOK, Dma, Frames
    <3> QED BY <3>1, <3>2 DEF Inv, TypeOK
  <2> QED
    BY <1>1, <2>1, <2>2
       DEF DmaDone, Inv, TypeOK, DmaServesHead, StopEndsReads, DueSinceMs, RingInv,
           RingHasRoom, DrainInBounds, FrameInHand, Draining, ringVars, slipVars,
           adcVars, timeVars
<1>2. CASE Convert
  <2>1. /\ MaxLate \in Nat /\ MaxLost \in Nat /\ ConversionsPerMs \in Nat \ {0}
        /\ late \in 0 .. MaxLate /\ lost \in 0 .. MaxLost
        /\ ms \in 0 .. ConversionsPerMs - 1 /\ systick \in BOOLEAN
    BY TimingAssumption DEF Inv, TypeOK
  <2>2. lost' \in 0 .. MaxLost
    BY <1>2, <2>1 DEF Convert
  <2>3. late' \in 0 .. MaxLate
    BY <1>2, <2>1 DEF Convert
  <2>4. /\ ms' = IF ms = ConversionsPerMs - 1 THEN 0 ELSE ms + 1
        /\ ms' \in 0 .. ConversionsPerMs - 1
    <3>1. CASE ms = ConversionsPerMs - 1
      <4>1. ms + 1 \in ConversionsPerMs .. 2 * ConversionsPerMs - 1 BY <2>1, <3>1
      <4> QED BY <1>2, <2>1, <3>1, <4>1, ModAbove DEF Convert
    <3>2. CASE ms # ConversionsPerMs - 1
      <4>1. ms + 1 \in 0 .. ConversionsPerMs - 1 BY <2>1, <3>2
      <4> QED BY <1>2, <2>1, <3>2, <4>1, ModBelow DEF Convert
    <3> QED BY <3>1, <3>2
  <2>5. DueSinceMs'
    <3>1. CASE systick
      BY <1>2, <2>1, <2>4, <3>1 DEF Convert, SysTickOwed, Inv, DueSinceMs
    <3>2. CASE ~systick
      BY <1>2, <2>1, <2>3, <2>4, <3>2 DEF Convert, DueSinceMs
    <3> QED BY <3>1, <3>2
  <2> QED
    BY <1>2, <2>2, <2>3, <2>4, <2>5
       DEF Convert, Inv, TypeOK, DmaServesHead, StopEndsReads, RingInv,
           RingHasRoom, DrainInBounds, FrameInHand, Draining, ringVars, slipVars
<1> QED BY <1>1, <1>2

(* A step that changes nothing.                                            *)
LEMMA StutterInv ==
  ASSUME Inv, UNCHANGED vars PROVE Inv'
  BY DEF vars, Inv, TypeOK, DmaServesHead, StopEndsReads, DueSinceMs, RingInv,
         RingHasRoom, DrainInBounds, FrameInHand, Draining, ringVars, slipVars,
         adcVars, timeVars

-----------------------------------------------------------------------------
(* The theorems.                                                           *)

(* Inv holds of drv_ads131m04.c's acquisition in every state.              *)
THEOREM RingInvariant == Spec => []Inv
<1>1. Inv /\ [Next]_vars => Inv'
  BY OnTriggerInv, DrainStepInv, SysTickInv, StartInv, StopInv, HardwareInv, StutterInv
     DEF Next
<1> QED BY InitInv, <1>1, PTL DEF Spec

(* Every variable keeps its type, for every size, width and timing.        *)
THEOREM RingTypes == Spec => []TypeOK
<1>1. Inv => TypeOK
  BY DEF Inv
<1> QED BY RingInvariant, <1>1, PTL

(* drain_ring's snapshot is always inside what is committed and unread: the*)
(* clamp at drv_ads131m04.c:265 is never taken.                            *)
THEOREM DrainStaysInBounds == Spec => []DrainInBounds
<1>1. Inv => DrainInBounds
  BY DEF Inv, RingInv
<1> QED BY RingInvariant, <1>1, PTL

(* The DMA never writes a slot the drain has still to read, for every ring *)
(* size and however the two interrupts interleave (drv_ads131m04.c:408).   *)
THEOREM DmaNeverTearsAFrame == Spec => []DmaSlotIsFree
<1>1. Inv => DmaSlotIsFree
  <2> SUFFICES ASSUME Inv, dma.at # "off", dma.slot \in Unread PROVE FALSE
    BY DEF DmaSlotIsFree
  <2>1. PICK k \in 0 .. Gap(s_ring_head, s_ring_tail) - 1 : dma.slot = Slot(s_ring_tail + k)
    BY DEF Unread
  <2>2. /\ s_ring_head \in Index /\ s_ring_tail \in Index
        /\ Gap(s_ring_head, s_ring_tail) <= RingFrames - 1
        /\ dma.slot = Slot(s_ring_head)
    BY DEF Inv, TypeOK, RingInv, RingHasRoom, DmaServesHead
  <2>3. Gap(s_ring_head, s_ring_tail) \in Int
    BY <2>2, GapIs, Sizes DEF Index
  <2>4. k \in Nat /\ k < Gap(s_ring_head, s_ring_tail)
    BY <2>1, <2>3
  <2> QED BY <2>1, <2>2, <2>4, SlotsApart
<1> QED BY RingInvariant, <1>1, PTL

-----------------------------------------------------------------------------
(* Damage.                                                                 *)

(* The frame in hand, and every frame after it, is clear of the slot that  *)
(* the DMA writes; no more of them wait than the ring has room for.        *)
LEMMA UnreadIsClear ==
  ASSUME Inv
  PROVE  /\ s_ring_head \in Index /\ FirstUnread \in Index
         /\ Gap(s_ring_head, FirstUnread) \in Nat
         /\ Gap(s_ring_head, FirstUnread) <= Gap(s_ring_head, s_ring_tail)
         /\ Gap(s_ring_head, FirstUnread) <= RingFrames - 1
         /\ \A k \in Nat : k < Gap(s_ring_head, FirstUnread) =>
              Slot(FirstUnread + k) # Slot(s_ring_head)
         /\ drain.at \in {"store", "deliver"} \/ (drain.at = "frame" /\ drain.tail # drain.head)
              => /\ FirstUnread = drain.tail /\ Gap(s_ring_head, FirstUnread) > 0
                 /\ Slot(drain.tail) # Slot(s_ring_head)
<1>1. /\ s_ring_head \in Index /\ s_ring_tail \in Index
      /\ drain.tail \in Index /\ drain.head \in Index
      /\ RingFrames \in Nat \ {0}
      /\ FirstUnread \in Index
  BY Sizes DEF Inv, TypeOK, Drain, FirstUnread
<1>2. /\ Gap(s_ring_head, s_ring_tail) \in Nat /\ Gap(drain.tail, s_ring_tail) \in Nat
      /\ Gap(drain.head, drain.tail) \in Nat /\ Gap(s_ring_head, FirstUnread) \in Nat
      /\ Gap(s_ring_head, s_ring_tail) <= RingFrames - 1
  BY <1>1, GapRange DEF Inv, RingInv, RingHasRoom
<1>3. CASE ~(Draining /\ drain.at # "slip")
  <2>1. FirstUnread = s_ring_tail /\ drain.at \notin {"store", "deliver", "frame"}
    BY <1>3 DEF FirstUnread, Draining, Inv, TypeOK, Drain
  <2> QED BY <1>1, <1>2, <2>1, SlotsApart
<1>4. CASE Draining /\ drain.at # "slip"
  <2>1. /\ FirstUnread = drain.tail
        /\ Gap(drain.tail, s_ring_tail) + Gap(drain.head, drain.tail)
             <= Gap(s_ring_head, s_ring_tail)
    BY <1>4 DEF FirstUnread, Inv, RingInv, DrainInBounds
  <2>2. Gap(drain.tail, s_ring_tail) <= Gap(s_ring_head, s_ring_tail)
    BY <1>2, <2>1
  <2>3. Gap(s_ring_head, drain.tail)
          = Gap(s_ring_head, s_ring_tail) - Gap(drain.tail, s_ring_tail)
    BY <1>1, <2>2, GapSplits
  <2>4. /\ Gap(s_ring_head, FirstUnread) <= Gap(s_ring_head, s_ring_tail)
        /\ Gap(s_ring_head, FirstUnread) <= RingFrames - 1
        /\ Gap(s_ring_head, FirstUnread) >= Gap(drain.head, drain.tail)
    BY <1>1, <1>2, <2>1, <2>3
  <2>5. \A k \in Nat : k < Gap(s_ring_head, FirstUnread) =>
          Slot(FirstUnread + k) # Slot(s_ring_head)
    BY <1>1, <2>4, SlotsApart
  <2>6. ASSUME drain.tail # drain.head
        PROVE  Gap(s_ring_head, FirstUnread) > 0 /\ Slot(drain.tail) # Slot(s_ring_head)
    <3>1. Gap(drain.head, drain.tail) > 0
      BY <1>1, <1>2, <2>6, GapRange
    <3>2. Gap(s_ring_head, FirstUnread) > 0
      BY <1>2, <2>4, <3>1
    <3>3. FirstUnread + 0 = drain.tail
      BY <1>1, <2>1, Sizes DEF Index
    <3> QED BY <2>5, <3>2, <3>3
  <2>7. drain.at \in {"store", "deliver"} => drain.tail # drain.head
    BY DEF Inv, RingInv, FrameInHand
  <2> QED BY <1>1, <1>2, <2>1, <2>4, <2>5, <2>6, <2>7
<1> QED BY <1>3, <1>4

(* A damaged frame that is passed on next has its fault latched; the cause *)
(* to be stored is one of damage.                                          *)
DamageInHand ==
  /\ drain.at = "deliver" /\ InHand.q \in Faults => fault_code # "none"
  /\ drain.at = "store" => drain.code \in BadQualities
DamageInv == Inv /\ DamageInHand /\ DamageIsLatched

(* Whatever TIM7 latches between the check of a frame and its store, the   *)
(* sample callback never sees damage without a fault.                      *)
LEMMA DamageStep ==
  ASSUME DamageInv, Inv', [Next]_vars PROVE DamageInHand' /\ DamageIsLatched'
<1>0. /\ s_ring \in [Slots -> Frames \cup {Torn}] /\ drain \in Drain
      /\ Slot(drain.tail) \in Slots /\ InHand \in Frames \cup {Torn}
      /\ fault_code \in Faults \cup {"none"}
  <2>1. drain.tail \in Int
    BY Sizes DEF DamageInv, Inv, TypeOK, Drain, Index
  <2>2. Slot(drain.tail) \in Slots
    BY <2>1, SlotIsSlot
  <2> QED BY <2>2 DEF DamageInv, Inv, TypeOK, InHand
<1>1. InHand.q \in Faults => InHand.q \in BadQualities
  BY <1>0, FrameAssumption DEF Frames, Torn, Faults
<1>2. BadQualities \subseteq Faults /\ "none" \notin Faults
  BY FrameAssumption DEF Faults
<1>3. CASE OnTrigger
  <2>1. drain' = drain /\ sample' = sample /\ fault_code' = FaultAfter
    BY <1>3 DEF OnTrigger
  <2>2. fault_code # "none" => fault_code' # "none"
    BY <2>1 DEF FaultAfter, Latched
  <2>3. InHand' = InHand \/ InHand' = Torn
    <3>1. CASE ArmRead
      BY <1>0, <2>1, <3>1 DEF ArmRead, InHand
    <3>2. CASE NoRead
      BY <2>1, <3>2 DEF NoRead, InHand
    <3> QED BY <1>3, <3>1, <3>2 DEF OnTrigger
  <2>4. Torn.q \notin Faults
    BY DEF Torn, Faults
  <2> QED BY <2>1, <2>2, <2>3, <2>4 DEF DamageInv, DamageInHand, DamageIsLatched
<1>4. CASE CheckFrame
  <2>1. fault_code' = fault_code /\ sample' = sample /\ s_ring' = s_ring
    BY <1>4 DEF CheckFrame
  <2>2. CASE InHand.q \in Faults /\ fault_code = "none"
    <3>1. drain'.at = "store" /\ drain'.code = InHand.q
      BY <1>0, <1>4, <2>2 DEF CheckFrame, Drain
    <3> QED BY <1>1, <2>1, <2>2, <3>1 DEF DamageInv, DamageInHand, DamageIsLatched
  <2>3. CASE ~(InHand.q \in Faults /\ fault_code = "none")
    <3>1. drain'.at = "deliver" /\ drain'.tail = drain.tail
      BY <1>0, <1>4, <2>3 DEF CheckFrame, Drain
    <3>2. InHand' = InHand
      BY <2>1, <3>1 DEF InHand
    <3> QED BY <2>1, <2>3, <3>1, <3>2 DEF DamageInv, DamageInHand, DamageIsLatched
  <2> QED BY <2>2, <2>3
<1>5. CASE StoreFault
  <2>1. drain'.at = "deliver" /\ fault_code' = drain.code /\ sample' = sample
    BY <1>0, <1>5 DEF StoreFault, Drain
  <2>2. fault_code' # "none"
    BY <1>2, <1>5, <2>1 DEF DamageInv, DamageInHand, StoreFault
  <2> QED BY <2>1, <2>2 DEF DamageInHand, DamageIsLatched
<1>6. CASE PassOn
  <2>1. drain'.at = "frame" /\ fault_code' = fault_code /\ sample' = InHand
    BY <1>0, <1>6 DEF PassOn, Drain
  <2> QED BY <1>6, <2>1 DEF PassOn, DamageInv, DamageInHand, DamageIsLatched
<1>7. CASE DrainOver
  <2>1. drain'.at \in {"slip", "off"}
    BY <1>0, <1>7 DEF DrainOver, HandlerOver, DrainOff, Drain
  <2> QED BY <1>7, <2>1 DEF DrainOver, DamageInv, DamageInHand, DamageIsLatched
<1>8. CASE SlipCheck
  <2>1. drain'.at = "off" /\ sample' = sample
    BY <1>8 DEF SlipCheck, HandlerOver, DrainOff
  <2>2. fault_code # "none" => fault_code' # "none"
    BY <1>8 DEF SlipCheck, CheckDeficit, TakeReference, Latched
  <2> QED BY <2>1, <2>2 DEF DamageInv, DamageInHand, DamageIsLatched
<1>9. CASE SysTick
  <2>1. sample' = sample /\ fault_code' = fault_code
    BY <1>9 DEF SysTick
  <2>2. drain'.at \in {"off", "frame"}
    <3>1. CASE s_running
      BY <1>9, <3>1 DEF SysTick, DrainFrom
    <3>2. CASE ~s_running
      BY <1>9, <3>2 DEF SysTick, Draining
    <3> QED BY <3>1, <3>2
  <2> QED BY <2>1, <2>2 DEF DamageInv, DamageInHand, DamageIsLatched
<1>10. CASE Start
  BY <1>10 DEF Start, Draining, DamageInHand, DamageIsLatched
<1>11. CASE Stop
  <2>1. sample' = sample /\ fault_code' = fault_code /\ drain'.at = "frame"
    BY <1>11 DEF Stop, DrainFrom
  <2> QED BY <2>1 DEF DamageInv, DamageInHand, DamageIsLatched
<1>12. CASE DmaDone
  <2>1. drain' = drain /\ sample' = sample /\ fault_code' = fault_code
    BY <1>12 DEF DmaDone
  <2>2. drain.at = "deliver" => Slot(drain.tail) # dma.slot
    BY <1>12, UnreadIsClear DEF DamageInv, DmaDone, Inv, DmaServesHead
  <2>3. drain.at = "deliver" => InHand' = InHand
    <3>1. PICK q \in {"good"} \cup BadQualities :
            s_ring' = [s_ring EXCEPT ![dma.slot] = [n |-> dma.n, q |-> q]]
      BY <1>12 DEF DmaDone
    <3> QED BY <1>0, <2>1, <2>2, <3>1 DEF InHand
  <2> QED BY <2>1, <2>3 DEF DamageInv, DamageInHand, DamageIsLatched
<1>13. CASE Convert
  BY <1>13 DEF Convert, DamageInv, DamageInHand, DamageIsLatched, InHand
<1>14. CASE UNCHANGED vars
  BY <1>14 DEF vars, DamageInv, DamageInHand, DamageIsLatched, InHand
<1> QED
  BY <1>3, <1>4, <1>5, <1>6, <1>7, <1>8, <1>9, <1>10, <1>11, <1>12, <1>13, <1>14
     DEF Next, DrainStep

(* The inductive invariant behind the next theorem.                        *)
THEOREM DamageInvariant == Spec => []DamageInv
<1>1. Init => DamageInHand /\ DamageIsLatched
  BY DEF Init, DrainOff, DamageInHand, DamageIsLatched
<1>2. DamageInv /\ Inv' /\ [Next]_vars => DamageInHand' /\ DamageIsLatched'
  BY DamageStep
<1> QED BY RingInvariant, <1>1, <1>2, PTL DEF Spec, DamageInv

(* A damaged frame never reaches the sample callback without a latched     *)
(* fault, however TIM7 and SysTick interleave (drv_ads131m04.c:299-311).   *)
THEOREM NoSilentDamage == Spec => []DamageIsLatched
<1>1. DamageInv => DamageIsLatched
  BY DEF DamageInv
<1> QED BY DamageInvariant, <1>1, PTL

-----------------------------------------------------------------------------
(* The ring as a queue.                                                    *)

(* A turn of the indices leaves the slot where it is.                      *)
LEMMA SlotWraps ==
  ASSUME NEW i \in Int PROVE Slot(i + IndexRange) = Slot(i)
<1>1. RingFrames \in Nat \ {0} /\ IndexRange \in Int
  BY Sizes
<1>2. PICK turns \in Int : IndexRange = RingFrames * turns
  BY Sizes
<1> DEFINE a == i \div RingFrames
           b == (i + IndexRange) \div RingFrames
           r == Slot(i)
           s == Slot(i + IndexRange)
<1>3. /\ a \in Int /\ i = (RingFrames * a) + r /\ r \in 0 .. RingFrames - 1
      /\ b \in Int /\ i + IndexRange = (RingFrames * b) + s /\ s \in 0 .. RingFrames - 1
  <2>1. a \in Int /\ i = (RingFrames * a) + r /\ r \in 0 .. RingFrames - 1
    BY <1>1, DivMod DEF Slot
  <2>2. i + IndexRange \in Int
    BY <1>1
  <2>3. b \in Int /\ i + IndexRange = (RingFrames * b) + s /\ s \in 0 .. RingFrames - 1
    BY <1>1, <2>2, DivMod DEF Slot
  <2> QED BY <2>1, <2>3
<1> HIDE DEF a, b, r, s
<1>4. RingFrames * (b - (a + turns))
        = (RingFrames * b) - ((RingFrames * a) + (RingFrames * turns))
  <2>1. RingFrames * (a + turns) = (RingFrames * a) + (RingFrames * turns)
    BY <1>1, <1>2, <1>3
  <2> DEFINE c == a + turns
  <2>2. c \in Int
    BY <1>1, <1>2, <1>3
  <2> HIDE DEF c
  <2>3. RingFrames * (b - c) = (RingFrames * b) - (RingFrames * c)
    BY <1>1, <1>3, <2>2
  <2> QED BY <2>1, <2>3 DEF c
<1> DEFINE m == b - (a + turns)
<1>5. m \in Int /\ r - s = RingFrames * m
  BY <1>1, <1>2, <1>3, <1>4
<1>6. r - s \in -(RingFrames - 1) .. RingFrames - 1
  BY <1>1, <1>3
<1> HIDE DEF m
<1>7. m = 0
  <2>1. CASE m >= 1 BY <1>1, <1>3, <1>5, <1>6, <2>1
  <2>2. CASE m <= -1 BY <1>1, <1>3, <1>5, <1>6, <2>2
  <2> QED BY <1>5, <2>1, <2>2
<1>8. r = s
  BY <1>1, <1>3, <1>5, <1>7
<1> QED BY <1>8 DEF r, s

(* Counting on from the next index, and as far as the head.                *)
LEMMA SlotAfter ==
  ASSUME NEW i \in Index, NEW k \in Nat PROVE Slot(After(i) + k) = Slot(i + (k + 1))
<1>1. i \in Int /\ IndexRange \in Nat /\ After(i) \in Int
  BY AfterIs, Sizes DEF Index
<1>2. After(i) + k = i + (k + 1) \/ (After(i) + k) + IndexRange = i + (k + 1)
  BY <1>1, AfterIs
<1>3. After(i) + k \in Int
  BY <1>1
<1> QED BY <1>2, <1>3, SlotWraps
LEMMA SlotOfHead ==
  ASSUME NEW h \in Index, NEW t \in Index PROVE Slot(t + Gap(h, t)) = Slot(h)
<1>1. h \in Int /\ t \in Int /\ IndexRange \in Nat
  BY Sizes DEF Index
<1>2. t + Gap(h, t) = h \/ t + Gap(h, t) = h + IndexRange
  BY <1>1, GapIs
<1> QED BY <1>1, <1>2, SlotWraps

(* The queue is a sequence of what the unread slots hold.                  *)
LEMMA WaitingIs ==
  ASSUME Inv
  PROVE  /\ Waiting \in Seq(Frames \cup {Torn})
         /\ Len(Waiting) = Gap(s_ring_head, FirstUnread)
         /\ \A k \in 1 .. Len(Waiting) :
              Waiting[k] = s_ring[Slot(FirstUnread + (k - 1))]
         /\ Waiting = <<>> <=> s_ring_head = FirstUnread
<1>1. /\ s_ring_head \in Index /\ FirstUnread \in Index
      /\ Gap(s_ring_head, FirstUnread) \in Nat
  BY UnreadIsClear
<1> DEFINE G == Gap(s_ring_head, FirstUnread)
<1>2. \A k \in 1 .. G : s_ring[Slot(FirstUnread + (k - 1))] \in Frames \cup {Torn}
  <2> SUFFICES ASSUME NEW k \in 1 .. G
               PROVE  s_ring[Slot(FirstUnread + (k - 1))] \in Frames \cup {Torn}
    OBVIOUS
  <2>1. FirstUnread + (k - 1) \in Int
    BY <1>1, Sizes DEF Index
  <2> QED BY <2>1, SlotIsSlot DEF Inv, TypeOK
<1>3. Waiting = [k \in 1 .. G |-> s_ring[Slot(FirstUnread + (k - 1))]]
  BY DEF Waiting
<1> HIDE DEF G
<1>4. G \in Nat
  BY <1>1 DEF G
<1>5. Waiting \in [1 .. G -> Frames \cup {Torn}]
  BY <1>2, <1>3
<1>6. Waiting \in Seq(Frames \cup {Torn}) /\ Len(Waiting) = G
  BY <1>4, <1>5, LenProperties, SeqDef
<1>7. Waiting = <<>> <=> G = 0
  BY <1>4, <1>6, EmptySeq
<1>8. G = 0 <=> s_ring_head = FirstUnread
  BY <1>1, GapRange DEF G
<1>9. \A k \in 1 .. Len(Waiting) : Waiting[k] = s_ring[Slot(FirstUnread + (k - 1))]
  BY <1>3, <1>6
<1> QED BY <1>6, <1>7, <1>8, <1>9 DEF G

(* The last frame kept or passed on in this run.                           *)
Newest ==
  IF s_ring_head = FirstUnread THEN sample
  ELSE s_ring[Slot(FirstUnread + (Gap(s_ring_head, FirstUnread) - 1))]

(* A step that moves no end of the queue and writes no slot of it leaves   *)
(* it alone.                                                               *)
LEMMA QueueAlone ==
  ASSUME Inv, s_ring_head' = s_ring_head, FirstUnread' = FirstUnread,
         \A k \in Nat : k < Gap(s_ring_head, FirstUnread) =>
           s_ring'[Slot(FirstUnread + k)] = s_ring[Slot(FirstUnread + k)]
  PROVE  Waiting' = Waiting /\ (sample' = sample => Newest' = Newest)
<1> DEFINE G == Gap(s_ring_head, FirstUnread)
<1>1. G \in Nat /\ (G = 0 <=> s_ring_head = FirstUnread)
  BY UnreadIsClear, GapRange
<1>2. Gap(s_ring_head, FirstUnread)' = G
  BY DEF Gap
<1>3. \A k \in 1 .. G : k - 1 \in Nat /\ k - 1 < G
  BY <1>1
<1>4. Waiting = [k \in 1 .. G |-> s_ring[Slot(FirstUnread + (k - 1))]]
  BY DEF Waiting
<1>5. Waiting' = [k \in 1 .. G |-> s_ring'[Slot(FirstUnread + (k - 1))]]
  BY <1>2 DEF Waiting, Slot
<1>6. Waiting' = Waiting
  <2>1. \A k \in 1 .. G :
          s_ring'[Slot(FirstUnread + (k - 1))] = s_ring[Slot(FirstUnread + (k - 1))]
    BY <1>3
  <2> HIDE DEF G
  <2> QED BY <1>4, <1>5, <2>1
<1>7. ASSUME sample' = sample PROVE Newest' = Newest
  <2>1. CASE s_ring_head = FirstUnread
    BY <1>7, <2>1 DEF Newest
  <2>2. CASE s_ring_head # FirstUnread
    <3>1. G - 1 \in Nat /\ G - 1 < G
      BY <1>1, <2>2
    <3>2. s_ring'[Slot(FirstUnread + (G - 1))] = s_ring[Slot(FirstUnread + (G - 1))]
      BY <3>1
    <3>3. Newest' = s_ring'[Slot(FirstUnread + (G - 1))]
      BY <1>2, <2>2 DEF Newest, Slot
    <3> QED BY <2>2, <3>2, <3>3 DEF Newest
  <2> QED BY <2>1, <2>2
<1> QED BY <1>6, <1>7

(* What a state of the queue is, for both ends of a step.                  *)
QueueFacts ==
  /\ s_ring_head \in Index /\ FirstUnread \in Index
  /\ Gap(s_ring_head, FirstUnread) \in Nat
  /\ Waiting \in Seq(Frames \cup {Torn})
  /\ Len(Waiting) = Gap(s_ring_head, FirstUnread)
  /\ \A k \in 1 .. Len(Waiting) : Waiting[k] = s_ring[Slot(FirstUnread + (k - 1))]
  /\ Waiting = <<>> <=> s_ring_head = FirstUnread
LEMMA QueueFactsHold == Inv => QueueFacts
  BY WaitingIs, UnreadIsClear DEF QueueFacts
LEMMA QueueFactsHoldNext == Inv' => QueueFacts'
  BY QueueFactsHold, PTL

(* The newest frame is the last of the queue.                              *)
LEMMA NewestIs ==
  ASSUME Inv
  PROVE  Newest = IF Waiting = <<>> THEN sample ELSE Waiting[Len(Waiting)]
<1>1. QueueFacts
  BY QueueFactsHold
<1> DEFINE G == Gap(s_ring_head, FirstUnread)
<1>2. CASE s_ring_head = FirstUnread
  BY <1>1, <1>2 DEF QueueFacts, Newest
<1>3. CASE s_ring_head # FirstUnread
  <2>1. G \in Nat /\ G # 0 /\ Waiting # <<>> /\ Len(Waiting) = G
    BY <1>1, <1>3, GapRange DEF QueueFacts
  <2>2. Waiting[G] = s_ring[Slot(FirstUnread + (G - 1))]
    BY <1>1, <2>1 DEF QueueFacts
  <2> QED BY <1>3, <2>1, <2>2 DEF Newest
<1> QED BY <1>2, <1>3

(* n is the number of the frame after the newest.                          *)
IsNext(n) == Newest # NoFrame => n = (Newest.n + 1) % Labels

(* The frame being read continues the run, and so will the next one.       *)
ReadsContinue ==
  /\ dma.at # "off" => IsNext(dma.n) /\ reads = (dma.n + 1) % Labels
  /\ dma.at = "off" /\ s_running /\ fault_code = "none" => IsNext(reads)
  /\ dma.at = "done" => s_ring[dma.slot] \in Frames /\ s_ring[dma.slot].n = dma.n

(* Only stop drains a stopped acquisition, and it leaves nothing behind.   *)
CallerIsKnown ==
  /\ Draining => (drain.by = "tick" <=> s_running)
  /\ drain.at = "slip" => drain.by = "tick"
  /\ ~s_running => IF Draining THEN drain.head = s_ring_head ELSE s_ring_tail = s_ring_head

OrderInv == Inv /\ CallerIsKnown /\ ReadsContinue

(* A commit appends the frame in the DMA's slot, and the next read spares  *)
(* it and all that wait.                                                   *)
LEMMA Committed ==
  ASSUME Inv, Inv', OnTrigger, Commits
  PROVE  /\ Waiting' = Append(Waiting, s_ring[dma.slot])
         /\ Newest' = s_ring[dma.slot]
         /\ Len(Waiting) < RingFrames - 1
<1> DEFINE G == Gap(s_ring_head, FirstUnread)
           F == FirstUnread
           f == s_ring[dma.slot]
           S == Frames \cup {Torn}
<1>1. /\ s_ring_head \in Index /\ s_ring_tail \in Index /\ F \in Index
      /\ RingFrames \in Nat \ {0} /\ IndexRange \in Nat \ {0} /\ RingFrames <= IndexRange
      /\ Gap(s_ring_head, s_ring_tail) \in Nat /\ G \in Nat
      /\ G <= Gap(s_ring_head, s_ring_tail)
      /\ s_ring \in [Slots -> S]
  BY UnreadIsClear, Sizes, GapRange DEF Inv, TypeOK
<1>2. /\ s_ring_head' = After(s_ring_head) /\ drain' = drain /\ s_ring_tail' = s_ring_tail
      /\ Gap(s_ring_head, s_ring_tail) < RingFrames - 1
      /\ dma.slot = Slot(s_ring_head)
  BY <1>1 DEF OnTrigger, HeadAfter, Commits, RingFull, FrameOver, Inv, DmaServesHead
<1>3. F' = F /\ After(s_ring_head) \in Index
  BY <1>1, <1>2, AfterIs DEF FirstUnread, Draining
<1>4. G < RingFrames - 1 /\ G < IndexRange - 1
  BY <1>1, <1>2
<1>5. Gap(After(s_ring_head), F) = G + 1
  BY <1>1, <1>4, GapGrows
<1>6. G' = G + 1
  BY <1>2, <1>3, <1>5
<1>7. ASSUME NEW k \in Nat, k < G + 1
      PROVE  s_ring'[Slot(F + k)] = s_ring[Slot(F + k)]
  <2>1. Slot(F + k) # Slot(After(s_ring_head))
    BY <1>1, <1>3, <1>4, <1>5, <1>7, SlotsApart
  <2>2. Slot(F + k) \in Slots
    <3>1. F + k \in Int
      BY <1>1, Sizes DEF Index
    <3> QED BY <3>1, SlotIsSlot
  <2>3. HeadAfter = After(s_ring_head)
    BY DEF HeadAfter
  <2>4. s_ring' = s_ring \/ s_ring' = [s_ring EXCEPT ![Slot(After(s_ring_head))] = Torn]
    BY <2>3 DEF OnTrigger, ArmRead, NoRead
  <2> QED BY <1>1, <2>1, <2>2, <2>4
<1>8. Slot(F + G) = Slot(s_ring_head) /\ f \in S
  BY <1>1, <1>2, SlotOfHead, SlotIsSlot, Sizes DEF Index
<1>9. QueueFacts /\ QueueFacts'
  BY QueueFactsHold, QueueFactsHoldNext
<1>10. /\ Waiting \in Seq(S) /\ Len(Waiting) = G
       /\ \A k \in 1 .. G : Waiting[k] = s_ring[Slot(F + (k - 1))]
  BY <1>9 DEF QueueFacts
<1>11. /\ Waiting' \in Seq(S) /\ Len(Waiting') = G + 1
       /\ \A k \in 1 .. G + 1 : Waiting'[k] = s_ring'[Slot(F + (k - 1))]
  BY <1>3, <1>6, <1>9 DEF QueueFacts, Slot
<1>12. Newest' = f
  <2>1. s_ring_head' # F'
    <3>1. s_ring_head' \in Index /\ F' \in Index
      BY <1>1, <1>2, <1>3
    <3> QED BY <1>1, <1>6, <3>1, GapRange
  <2>2. Newest' = s_ring'[Slot(F + (G' - 1))]
    BY <1>3, <2>1 DEF Newest, Slot
  <2>3. G' - 1 = G
    BY <1>1, <1>6
  <2>4. s_ring'[Slot(F + G)] = s_ring[Slot(F + G)]
    BY <1>1, <1>7
  <2> QED BY <1>2, <1>8, <2>2, <2>3, <2>4
<1>13. ASSUME NEW k \in 1 .. G PROVE Waiting'[k] = Waiting[k]
  <2>1. k - 1 \in Nat /\ k - 1 < G + 1 /\ k \in 1 .. G + 1
    BY <1>1
  <2>2. s_ring'[Slot(F + (k - 1))] = s_ring[Slot(F + (k - 1))]
    BY <1>7, <2>1
  <2> QED BY <1>10, <1>11, <2>1, <2>2
<1>14. Waiting'[G + 1] = f
  <2>1. G + 1 \in 1 .. G + 1 /\ (G + 1) - 1 = G
    BY <1>1
  <2>2. s_ring'[Slot(F + G)] = s_ring[Slot(F + G)]
    BY <1>1, <1>7
  <2> QED BY <1>2, <1>8, <1>11, <2>1, <2>2
<1>15. Waiting' = Append(Waiting, f)
  <2> HIDE DEF G, F, f, S
  <2>1. /\ Append(Waiting, f) \in Seq(S) /\ Len(Append(Waiting, f)) = G + 1
        /\ \A i \in 1 .. G : Append(Waiting, f)[i] = Waiting[i]
        /\ Append(Waiting, f)[G + 1] = f
    BY <1>8, <1>10, AppendProperties
  <2>2. \A i \in 1 .. G + 1 : Waiting'[i] = Append(Waiting, f)[i]
    <3>1. \A i \in 1 .. G + 1 : i \in 1 .. G \/ i = G + 1
      BY <1>1
    <3> QED BY <1>13, <1>14, <2>1, <3>1
  <2> QED BY <1>11, <2>1, <2>2, SeqEqual
<1> QED BY <1>4, <1>10, <1>12, <1>15

(* Passing a frame on takes the head of the queue.                         *)
LEMMA PassedOn ==
  ASSUME Inv, Inv', PassOn
  PROVE  /\ Waiting # <<>> /\ sample' = Head(Waiting) /\ Waiting' = Tail(Waiting)
         /\ Newest' = Newest
<1> DEFINE G == Gap(s_ring_head, FirstUnread)
           F == FirstUnread
           S == Frames \cup {Torn}
<1>1. /\ s_ring_head \in Index /\ F \in Index /\ G \in Nat /\ F = drain.tail /\ G > 0
  BY UnreadIsClear DEF PassOn
<1>2. /\ s_ring_head' = s_ring_head /\ s_ring' = s_ring /\ sample' = InHand
      /\ drain'.at = "frame" /\ drain'.tail = After(drain.tail)
  BY DEF PassOn, ringVars, Inv, TypeOK, Drain
<1>3. F' = After(F) /\ After(F) \in Index
  BY <1>1, <1>2, AfterIs DEF FirstUnread, Draining
<1>4. G' = G - 1
  <2>1. s_ring_head # F
    BY <1>1, GapRange
  <2> QED BY <1>1, <1>2, <1>3, <2>1, GapShrinks
<1>5. QueueFacts /\ QueueFacts'
  BY QueueFactsHold, QueueFactsHoldNext
<1>6. /\ Waiting \in Seq(S) /\ Len(Waiting) = G /\ Waiting # <<>>
      /\ \A k \in 1 .. G : Waiting[k] = s_ring[Slot(F + (k - 1))]
  BY <1>1, <1>5, GapRange DEF QueueFacts
<1>7. /\ Waiting' \in Seq(S) /\ Len(Waiting') = G - 1
      /\ \A k \in 1 .. G - 1 : Waiting'[k] = s_ring[Slot(After(F) + (k - 1))]
      /\ Waiting' = <<>> <=> s_ring_head' = F'
  BY <1>2, <1>3, <1>4, <1>5 DEF QueueFacts, Slot
<1>8. sample' = Head(Waiting)
  <2>1. 1 \in 1 .. G /\ F + (1 - 1) = F
    BY <1>1, Sizes DEF Index
  <2>2. Waiting[1] = s_ring[Slot(F)]
    BY <1>6, <2>1
  <2>3. Head(Waiting) = Waiting[1]
    BY <1>6
  <2> QED BY <1>1, <1>2, <2>2, <2>3 DEF InHand
<1>9. ASSUME NEW k \in 1 .. G - 1 PROVE Waiting'[k] = Waiting[k + 1]
  <2>1. k - 1 \in Nat /\ (k - 1) + 1 = k /\ k + 1 \in 1 .. G /\ (k + 1) - 1 = k
    BY <1>1
  <2>2. Slot(After(F) + (k - 1)) = Slot(F + k)
    BY <1>1, <2>1, SlotAfter
  <2> QED BY <1>6, <1>7, <2>1, <2>2
<1>10. Waiting' = Tail(Waiting)
  <2> HIDE DEF G, F, S
  <2>1. /\ Tail(Waiting) \in Seq(S) /\ Len(Tail(Waiting)) = G - 1
        /\ \A i \in 1 .. G - 1 : Tail(Waiting)[i] = Waiting[i + 1]
    BY <1>6, HeadTailProperties
  <2> QED BY <1>7, <1>9, <2>1, SeqEqual
<1>11. Newest' = Newest
  <2>1. /\ Newest = IF Waiting = <<>> THEN sample ELSE Waiting[Len(Waiting)]
    BY NewestIs
  <2>2. Newest = Waiting[G]
    BY <1>6, <2>1
  <2>3. CASE G = 1
    <3>1. s_ring_head' = F'
      <4>1. G' = 0 /\ s_ring_head' \in Index /\ F' \in Index
        BY <1>1, <1>2, <1>3, <1>4, <2>3
      <4> QED BY <4>1, GapRange
    <3>2. Newest' = sample' /\ Head(Waiting) = Waiting[1]
      BY <1>6, <3>1 DEF Newest
    <3> QED BY <1>8, <2>2, <2>3, <3>2
  <2>4. CASE G # 1
    <3>1. s_ring_head' # F'
      <4>1. G' # 0 /\ s_ring_head' \in Index /\ F' \in Index
        BY <1>1, <1>2, <1>3, <1>4, <2>4
      <4> QED BY <4>1, GapRange
    <3>2. Newest' = s_ring[Slot(After(F) + (G' - 1))]
      BY <1>2, <1>3, <3>1 DEF Newest, Slot
    <3>3. /\ G' - 1 \in Nat /\ (G' - 1) + 1 = G - 1 /\ G \in 1 .. G
      BY <1>1, <1>4, <2>4
    <3>4. Slot(After(F) + (G' - 1)) = Slot(F + (G - 1))
      BY <1>1, <3>3, SlotAfter
    <3>5. Waiting[G] = s_ring[Slot(F + (G - 1))]
      BY <1>6, <3>3
    <3> QED BY <2>2, <3>2, <3>4, <3>5
  <2> QED BY <2>3, <2>4
<1> QED BY <1>6, <1>8, <1>10, <1>11

FifoStep == [Fifo!Next]_<<Waiting, sample>>

(* A frame kept has the number that continues the run.                     *)
LEMMA KeepsNext ==
  ASSUME Inv, NEW f \in Frames, IsNext(f.n), Len(Waiting) < RingFrames - 1,
         Waiting' = Append(Waiting, f), sample' = sample
  PROVE  FifoStep
<1>1. Fifo!Continues(f)
  BY NewestIs DEF Fifo!Continues, IsNext
<1>2. Fifo!Keep(f)
  BY <1>1 DEF Fifo!Keep
<1>3. f \in Fifo!Frames
  BY DEF Frames, Fifo!Frames
<1> QED BY <1>2, <1>3 DEF FifoStep, Fifo!Next

(* Each step of TIM7 keeps the numbering: the frame it commits is the one  *)
(* after the newest, and so is the read it arms.                           *)
LEMMA OnTriggerOrder ==
  ASSUME OrderInv, Inv', OnTrigger PROVE ReadsContinue' /\ FifoStep
<1> USE DEF OrderInv
<1>1. /\ s_ring_head \in Index /\ FirstUnread \in Index
      /\ reads \in 0 .. Labels - 1 /\ s_running
      /\ sample' = sample /\ drain' = drain /\ s_ring_tail' = s_ring_tail
      /\ FirstUnread' = FirstUnread /\ fault_code' = FaultAfter
  BY UnreadIsClear DEF OnTrigger, Inv, TypeOK, FirstUnread, Draining
<1>2. FifoStep /\ (FaultAfter = "none" => (Newest' # NoFrame => reads = (Newest'.n + 1) % Labels))
  <2>1. CASE Commits
    <3>1. /\ dma.at = "done" /\ IsNext(dma.n) /\ reads = (dma.n + 1) % Labels
          /\ s_ring[dma.slot] \in Frames /\ s_ring[dma.slot].n = dma.n
      BY <2>1 DEF Commits, FrameOver, ReadsContinue
    <3>2. /\ Waiting' = Append(Waiting, s_ring[dma.slot])
          /\ Newest' = s_ring[dma.slot]
          /\ Len(Waiting) < RingFrames - 1
      BY <2>1, Committed
    <3>3. FifoStep
      BY <1>1, <3>1, <3>2, KeepsNext
    <3> QED BY <3>1, <3>2, <3>3
  <2>2. CASE ~Commits
    <3>1. s_ring_head' = s_ring_head
      BY <2>2 DEF OnTrigger, HeadAfter
    <3>2. ASSUME NEW k \in Nat, k < Gap(s_ring_head, FirstUnread)
          PROVE  s_ring'[Slot(FirstUnread + k)] = s_ring[Slot(FirstUnread + k)]
      <4>1. Slot(FirstUnread + k) # Slot(s_ring_head)
        BY <3>2, UnreadIsClear
      <4>2. s_ring' = s_ring \/ s_ring' = [s_ring EXCEPT ![Slot(s_ring_head)] = Torn]
        BY <2>2 DEF OnTrigger, ArmRead, NoRead, HeadAfter
      <4>3. s_ring \in [Slots -> Frames \cup {Torn}] /\ Slot(FirstUnread + k) \in Slots
        BY <1>1, SlotIsSlot, Sizes DEF Inv, TypeOK, Index
      <4> QED BY <4>1, <4>2, <4>3
    <3>3. Waiting' = Waiting /\ Newest' = Newest
      BY <1>1, <3>1, <3>2, QueueAlone
    <3>4. FaultAfter = "none" => dma.at = "off" /\ fault_code = "none"
      <4>1. s_xfer_active => FrameOver
        BY DEF OnTrigger
      <4>2. FaultAfter = "none" => ~s_xfer_active /\ fault_code = "none"
        BY <2>2, <4>1 DEF FaultAfter, Latched, Commits
      <4> QED BY <4>2 DEF Inv, DmaServesHead
    <3>5. FaultAfter = "none" => IsNext(reads)
      BY <1>1, <3>4 DEF ReadsContinue
    <3> QED BY <1>1, <3>3, <3>5 DEF FifoStep, IsNext
  <2> QED BY <2>1, <2>2
<1>3. ReadsContinue'
  <2>1. CASE FaultAfter = "none" /\ ArmRead
    <3>1. dma'.at = "shifting" /\ dma'.n = reads /\ reads' = (reads + 1) % Labels
      BY <2>1 DEF ArmRead
    <3> QED BY <1>2, <2>1, <3>1 DEF ReadsContinue, IsNext
  <2>2. CASE NoRead
    <3>1. dma'.at = "off" /\ reads' = reads
      BY <2>2 DEF NoRead, DmaOff
    <3> QED BY <1>1, <1>2, <3>1 DEF ReadsContinue, IsNext
  <2> QED BY <2>1, <2>2 DEF OnTrigger
<1> QED BY <1>2, <1>3

(* Every other step passes the head of the queue on, begins a run with an  *)
(* empty queue, or leaves the queue alone.                                 *)
LEMMA OrderStep ==
  ASSUME OrderInv, Inv', [Next]_vars PROVE CallerIsKnown' /\ ReadsContinue' /\ FifoStep
<1> USE DEF OrderInv
<1>1. /\ s_ring_head \in Index /\ s_ring_tail \in Index /\ FirstUnread \in Index
      /\ drain \in Drain /\ dma \in Dma
      /\ s_ring \in [Slots -> Frames \cup {Torn}]
  BY UnreadIsClear DEF Inv, TypeOK
<1>2. ASSUME Waiting' = Waiting, Newest' = Newest, sample' = sample,
             reads' = reads, dma' = dma, s_ring' = s_ring,
             s_running' => s_running, fault_code' = "none" => fault_code = "none"
      PROVE  ReadsContinue' /\ FifoStep
  BY <1>2 DEF ReadsContinue, IsNext, FifoStep
<1>3. ASSUME s_ring_head' = s_ring_head, FirstUnread' = FirstUnread, s_ring' = s_ring,
             sample' = sample
      PROVE  Waiting' = Waiting /\ Newest' = Newest
  BY <1>3, QueueAlone
<1>4. CASE OnTrigger
  <2>1. CallerIsKnown'
    BY <1>4 DEF OnTrigger, CallerIsKnown, Draining
  <2> QED BY <1>4, <2>1, OnTriggerOrder
<1>5. CASE CheckFrame
  <2>1. /\ drain'.at \in {"store", "deliver"} /\ drain'.tail = drain.tail
        /\ drain'.head = drain.head /\ drain'.by = drain.by /\ drain.at = "frame"
    BY <1>1, <1>5 DEF CheckFrame, Drain
  <2>2. FirstUnread' = FirstUnread /\ CallerIsKnown'
    BY <1>5, <2>1 DEF CheckFrame, FirstUnread, Draining, CallerIsKnown, ringVars
  <2> QED BY <1>2, <1>3, <1>5, <2>2 DEF CheckFrame, ringVars
<1>6. CASE StoreFault
  <2>1. /\ drain'.at = "deliver" /\ drain'.tail = drain.tail
        /\ drain'.head = drain.head /\ drain'.by = drain.by /\ drain.at = "store"
        /\ drain.code # "none"
    BY <1>1, <1>6 DEF StoreFault, Drain, Faults
  <2>2. FirstUnread' = FirstUnread /\ CallerIsKnown'
    BY <1>6, <2>1 DEF StoreFault, FirstUnread, Draining, CallerIsKnown, ringVars
  <2> QED BY <1>2, <1>3, <1>6, <2>1, <2>2 DEF StoreFault, ringVars
<1>7. CASE PassOn
  <2>1. /\ drain'.at = "frame" /\ drain'.head = drain.head /\ drain'.by = drain.by
        /\ drain.at = "deliver"
    BY <1>1, <1>7 DEF PassOn, Drain
  <2>2. CallerIsKnown'
    BY <1>7, <2>1 DEF PassOn, Draining, CallerIsKnown, ringVars
  <2>3. ReadsContinue'
    BY <1>7, PassedOn DEF PassOn, ReadsContinue, IsNext
  <2>4. FifoStep
    BY <1>7, PassedOn DEF FifoStep, Fifo!Next, Fifo!Deliver
  <2> QED BY <2>2, <2>3, <2>4
<1>8. CASE DrainOver
  <2>1. /\ drain.at = "frame" /\ drain.tail = drain.head /\ s_ring_tail' = drain.tail
        /\ s_ring_head' = s_ring_head /\ s_running' = s_running
    BY <1>8 DEF DrainOver
  <2>2. \/ drain'.at = "slip" /\ drain'.by = "tick" /\ drain.by = "tick"
        \/ drain'.at = "off"
    BY <1>1, <1>8 DEF DrainOver, HandlerOver, DrainOff, Drain
  <2>3. FirstUnread' = FirstUnread
    BY <2>1, <2>2 DEF FirstUnread, Draining
  <2>4. CallerIsKnown'
    BY <2>1, <2>2 DEF Draining, CallerIsKnown
  <2> QED BY <1>2, <1>3, <1>8, <2>1, <2>3, <2>4 DEF DrainOver
<1>9. CASE SlipCheck
  <2>1. drain.at = "slip" /\ drain'.at = "off"
    BY <1>9 DEF SlipCheck, HandlerOver, DrainOff
  <2>2. FirstUnread' = FirstUnread /\ CallerIsKnown'
    BY <1>9, <2>1 DEF SlipCheck, FirstUnread, Draining, CallerIsKnown, ringVars
  <2>3. fault_code' = "none" => fault_code = "none"
    BY <1>9 DEF SlipCheck, CheckDeficit, TakeReference, Latched
  <2> QED BY <1>2, <1>3, <1>9, <2>2, <2>3 DEF SlipCheck, ringVars
<1>10. CASE SysTick
  <2>1. CASE s_running
    <3>1. DrainFrom("tick")
      BY <1>10, <2>1 DEF SysTick
    <3>2. /\ drain' = [at |-> "frame", by |-> "tick", tail |-> s_ring_tail,
                       head |-> s_ring_head, code |-> "slip"]
      BY <3>1, DrainFromIs
    <3>3. FirstUnread' = FirstUnread /\ CallerIsKnown'
      BY <1>10, <2>1, <3>2 DEF SysTick, FirstUnread, Draining, CallerIsKnown, ringVars
    <3> QED BY <1>2, <1>3, <1>10, <3>3 DEF SysTick, ringVars
  <2>2. CASE ~s_running
    <3>1. FirstUnread' = FirstUnread /\ CallerIsKnown'
      BY <1>10, <2>2 DEF SysTick, FirstUnread, Draining, CallerIsKnown, ringVars
    <3> QED BY <1>2, <1>3, <1>10, <3>1 DEF SysTick, ringVars
  <2> QED BY <2>1, <2>2
<1>11. CASE Start
  <2>1. /\ ~Draining /\ ~Draining' /\ s_ring_tail = s_ring_head
        /\ s_ring_head' = 0 /\ s_ring_tail' = 0 /\ sample' = NoFrame
        /\ dma.at = "off" /\ dma' = dma /\ s_running'
        /\ drain.at # "slip" /\ drain' = drain
    BY <1>11 DEF Start, CallerIsKnown, Draining, Inv, StopEndsReads, DmaServesHead
  <2>2. s_ring_head = FirstUnread /\ s_ring_head' = FirstUnread'
    BY <2>1 DEF FirstUnread
  <2>3. Waiting = <<>> /\ Waiting' = <<>>
    BY <2>2, QueueFactsHold, QueueFactsHoldNext DEF QueueFacts
  <2>4. Newest' = NoFrame
    BY <2>1, <2>2 DEF Newest
  <2>5. ReadsContinue'
    BY <2>1, <2>4 DEF ReadsContinue, IsNext
  <2>6. CallerIsKnown'
    BY <2>1 DEF CallerIsKnown
  <2>7. FifoStep
    BY <2>1, <2>3 DEF FifoStep, Fifo!Next, Fifo!Restart
  <2> QED BY <2>5, <2>6, <2>7
<1>12. CASE Stop
  <2>1. DrainFrom("stop") /\ ~Draining /\ s_running /\ ~s_running'
    BY <1>12 DEF Stop
  <2>2. drain' = [at |-> "frame", by |-> "stop", tail |-> s_ring_tail,
                  head |-> s_ring_head, code |-> "slip"]
    BY <2>1, DrainFromIs
  <2>3. FirstUnread' = FirstUnread /\ CallerIsKnown'
    BY <1>12, <2>1, <2>2 DEF Stop, FirstUnread, Draining, CallerIsKnown, ringVars
  <2>4. Waiting' = Waiting /\ Newest' = Newest
    BY <1>3, <1>12, <2>3 DEF Stop, ringVars
  <2>5. dma'.at = "off"
    BY <1>12 DEF Stop, DmaOff, Inv, DmaServesHead
  <2>6. ReadsContinue'
    BY <2>1, <2>5 DEF ReadsContinue
  <2>7. FifoStep
    BY <1>12, <2>4 DEF Stop, FifoStep
  <2> QED BY <2>3, <2>6, <2>7
<1>13. CASE DmaDone
  <2>1. PICK q \in {"good"} \cup BadQualities :
          s_ring' = [s_ring EXCEPT ![dma.slot] = [n |-> dma.n, q |-> q]]
    BY <1>13 DEF DmaDone
  <2>2. /\ s_ring_head' = s_ring_head /\ s_ring_tail' = s_ring_tail /\ drain' = drain
        /\ sample' = sample /\ reads' = reads /\ s_running' = s_running
        /\ dma.at # "off" /\ dma.slot = Slot(s_ring_head)
    BY <1>13 DEF DmaDone, ringVars, Inv, DmaServesHead
  <2>3. dma'.at = "done" /\ dma'.n = dma.n /\ dma'.slot = dma.slot /\ dma.slot \in Slots
        /\ dma.n \in 0 .. Labels - 1
    BY <1>1, <1>13 DEF DmaDone, Dma
  <2>4. FirstUnread' = FirstUnread /\ CallerIsKnown'
    BY <2>2 DEF FirstUnread, Draining, CallerIsKnown
  <2>5. \A k \in Nat : k < Gap(s_ring_head, FirstUnread) =>
          s_ring'[Slot(FirstUnread + k)] = s_ring[Slot(FirstUnread + k)]
    <3> SUFFICES ASSUME NEW k \in Nat, k < Gap(s_ring_head, FirstUnread)
                 PROVE  s_ring'[Slot(FirstUnread + k)] = s_ring[Slot(FirstUnread + k)]
      OBVIOUS
    <3>1. Slot(FirstUnread + k) # dma.slot
      BY <2>2, UnreadIsClear
    <3>2. Slot(FirstUnread + k) \in Slots
      BY <1>1, SlotIsSlot, Sizes DEF Index
    <3> QED BY <1>1, <2>1, <3>1, <3>2
  <2>6. Waiting' = Waiting /\ Newest' = Newest
    BY <2>2, <2>4, <2>5, QueueAlone
  <2>7. s_ring'[dma'.slot] \in Frames /\ s_ring'[dma'.slot].n = dma'.n
    BY <1>1, <2>1, <2>3 DEF Frames
  <2>8. ReadsContinue'
    BY <2>2, <2>3, <2>6, <2>7 DEF ReadsContinue, IsNext
  <2> QED BY <2>2, <2>4, <2>6, <2>8 DEF FifoStep
<1>14. CASE Convert
  <2>1. FirstUnread' = FirstUnread /\ CallerIsKnown'
    BY <1>14 DEF Convert, FirstUnread, Draining, CallerIsKnown, ringVars
  <2> QED BY <1>2, <1>3, <1>14, <2>1 DEF Convert, ringVars
<1>15. CASE UNCHANGED vars
  <2>1. FirstUnread' = FirstUnread /\ CallerIsKnown'
    BY <1>15 DEF vars, FirstUnread, Draining, CallerIsKnown, ringVars
  <2> QED BY <1>2, <1>3, <1>15, <2>1 DEF vars, ringVars
<1> QED
  BY <1>4, <1>5, <1>6, <1>7, <1>8, <1>9, <1>10, <1>11, <1>12, <1>13, <1>14, <1>15
     DEF Next, DrainStep

(* Nothing waits and nothing is read at power-up.                          *)
LEMMA InitOrder == Init => OrderInv /\ Fifo!Init
<1> SUFFICES ASSUME Init PROVE OrderInv /\ Fifo!Init
  OBVIOUS
<1>1. Inv
  BY InitInv
<1>2. ~Draining /\ s_ring_head = FirstUnread /\ CallerIsKnown
  BY DEF Init, Draining, DrainOff, FirstUnread, CallerIsKnown
<1>3. ReadsContinue
  BY DEF Init, DmaOff, ReadsContinue
<1>4. Fifo!Init
  BY <1>1, <1>2, QueueFactsHold DEF QueueFacts, Fifo!Init, Init
<1> QED BY <1>1, <1>2, <1>3, <1>4 DEF OrderInv

(* The inductive invariant behind the queue: the number of the frame in    *)
(* the DMA's slot is the one after the newest that was kept.               *)
THEOREM OrderInvariant == Spec => []OrderInv
<1>1. OrderInv /\ Inv' /\ [Next]_vars => CallerIsKnown' /\ ReadsContinue'
  BY OrderStep
<1> QED BY InitOrder, RingInvariant, <1>1, PTL DEF Spec, OrderInv

(* Ring, DMA, TIM7, SysTick, start and stop together are a queue, for      *)
(* every ring size and index width: the sample callback of                 *)
(* svc_displacement.c gets every frame that was read and kept, once, whole *)
(* and in the order it was read, and no run goes on behind a hole.         *)
THEOREM AcquisitionIsAFifo == Spec => ImplementsFifo
<1>1. Init => Fifo!Init
  BY InitOrder
<1>2. OrderInv /\ Inv' /\ [Next]_vars => [Fifo!Next]_(Fifo!vars)
  BY OrderStep DEF FifoStep, Fifo!vars
<1> QED
  BY <1>1, <1>2, OrderInvariant, RingInvariant, PTL DEF Spec, ImplementsFifo, Fifo!Spec

-----------------------------------------------------------------------------
(* The slip check.                                                         *)

(* SysTick is never so late that the next one comes due, the limit leaves  *)
(* room for what the estimate cannot know, and losses are counted.         *)
SlipMargin == MaxLate < ConversionsPerMs /\ MaxLate + 2 < DeficitLimit /\ MaxLost > 0

(* Conversions that are not yet committed frames.                          *)
InPipeline == (IF drdy THEN 1 ELSE 0) + (IF s_xfer_active THEN 1 ELSE 0)

(* Conversions the millisecond clock has not yet accounted for.            *)
TickDue == systick \/ (Draining /\ drain.by = "tick")
Unaccounted == ms + (IF TickDue THEN ConversionsPerMs ELSE 0)

(* The deficit less what explains it: it stays what it was when the        *)
(* reference was taken.                                                    *)
Bias == (InPipeline - Unaccounted) - frame_deficit

(* A SysTick is over before the next one comes due.                        *)
TickIsLate == Draining /\ drain.by = "tick" => ~systick /\ ms <= late

ReferenceInv ==
  /\ s_running /\ ~Settled => frame_deficit = 0
  /\ s_running /\ Settled /\ fault_code = "none" /\ lost = 0 => Bias \in -MaxLate .. 2
  /\ fault_code = "slip" => Settled
SlipInv == TickIsLate /\ ReferenceInv /\ SlipIsReal

(* What the arithmetic of a step needs of types and constants.             *)
LEMMA SlipTypes ==
  ASSUME Inv
  PROVE  /\ ConversionsPerMs \in Nat \ {0} /\ MaxLate \in Nat /\ MaxLost \in Nat
         /\ SettleMs \in Nat \ {0} /\ DeficitLimit \in Nat \ {0} /\ DeficitHoldMs \in Nat
         /\ ms \in 0 .. ConversionsPerMs - 1 /\ late \in 0 .. MaxLate
         /\ lost \in 0 .. MaxLost /\ frame_deficit \in Int /\ run_ms \in 0 .. SettleMs
         /\ s_deficit_hold \in 0 .. DeficitHoldMs
         /\ systick \in BOOLEAN /\ drdy \in BOOLEAN /\ s_xfer_active \in BOOLEAN
         /\ s_running \in BOOLEAN
         /\ InPipeline \in 0 .. 2 /\ Unaccounted \in Nat
         /\ drain \in Drain /\ fault_code \in Faults \cup {"none"}
  BY TimingAssumption DEF Inv, TypeOK, InPipeline, Unaccounted

(* A commit takes a frame out of the pipeline and the deficit down by one. *)
LEMMA OnTriggerSlip ==
  ASSUME Inv, SlipInv, OnTrigger PROVE SlipInv'
<1>1. /\ drain' = drain /\ ms' = ms /\ systick' = systick /\ late' = late /\ lost' = lost
      /\ run_ms' = run_ms /\ s_running' = s_running /\ s_running /\ fault_code' = FaultAfter
      /\ s_xfer_active => FrameOver
  BY DEF OnTrigger, timeVars
<1>2. /\ fault_code # "none" => FaultAfter = fault_code
      /\ FaultAfter = "slip" => fault_code = "slip"
  BY DEF FaultAfter, Latched
<1>3. TickIsLate' /\ SlipIsReal'
  BY <1>1, <1>2 DEF SlipInv, TickIsLate, SlipIsReal, Draining
<1>4. Unaccounted' = Unaccounted /\ (Settled' <=> Settled)
  BY <1>1 DEF Unaccounted, TickDue, Draining, Settled
<1>5. ASSUME FaultAfter = "none", Settled PROVE Bias' = Bias
  <2>1. s_xfer_active => Commits
    BY <1>1, <1>5 DEF FaultAfter, Latched, Commits, FrameOver
  <2>2. Commits <=> s_xfer_active
    BY <2>1 DEF Commits, FrameOver
  <2>3. frame_deficit' = IF s_xfer_active THEN frame_deficit - 1 ELSE frame_deficit
    BY <1>5, <2>2 DEF OnTrigger
  <2>4. /\ s_xfer_active' <=> drdy
        /\ ~drdy'
    <3>1. CASE drdy
      BY <1>5, <3>1 DEF OnTrigger, ArmRead
    <3>2. CASE ~drdy
      BY <1>5, <3>2 DEF OnTrigger, NoRead
    <3> QED BY <3>1, <3>2
  <2>5. InPipeline' = IF s_xfer_active THEN InPipeline - 1 ELSE InPipeline
    BY <2>4, SlipTypes DEF InPipeline
  <2> QED BY <1>4, <2>3, <2>5, SlipTypes DEF Bias
<1>6. frame_deficit' = IF Commits /\ Settled THEN frame_deficit - 1 ELSE frame_deficit
  BY DEF OnTrigger
<1>7. ReferenceInv'
  BY <1>1, <1>2, <1>4, <1>5, <1>6 DEF SlipInv, ReferenceInv
<1> QED BY <1>3, <1>7 DEF SlipInv

(* A millisecond is accounted for when its SysTick has been served.        *)
LEMMA SlipCheckSlip ==
  ASSUME Inv, SlipInv, SlipMargin, CallerIsKnown, SlipCheck PROVE SlipInv'
<1>1. /\ drain.at = "slip" /\ Draining /\ drain.by = "tick" /\ s_running
      /\ ~systick /\ ms <= late
  BY DEF SlipCheck, CallerIsKnown, Draining, SlipInv, TickIsLate
<1>2. /\ ~Draining' /\ systick' = systick /\ ms' = ms /\ drdy' = drdy
      /\ s_xfer_active' = s_xfer_active /\ s_running' = s_running
  BY DEF SlipCheck, HandlerOver, DrainOff, Draining
<1>3. /\ Unaccounted = ms + ConversionsPerMs /\ Unaccounted' = ms
      /\ InPipeline' = InPipeline
  BY <1>1, <1>2, SlipTypes DEF Unaccounted, TickDue, InPipeline
<1>4. TickIsLate'
  BY <1>2 DEF TickIsLate
<1>5. InPipeline - ms \in -MaxLate .. 2
  BY <1>1, SlipTypes
<1>6. CASE ~Settled
  <2>1. TakeReference
    BY <1>6 DEF SlipCheck
  <2>2. frame_deficit' = 0 /\ frame_deficit = 0 /\ fault_code' = fault_code
    BY <1>1, <1>6, <2>1 DEF TakeReference, SlipInv, ReferenceInv
  <2>3. fault_code # "slip"
    BY <1>6 DEF SlipInv, ReferenceInv
  <2>4. Bias' = InPipeline - ms
    BY <1>3, <2>2, SlipTypes DEF Bias
  <2> QED BY <1>4, <1>5, <2>2, <2>3, <2>4 DEF SlipInv, ReferenceInv, SlipIsReal
<1>7. CASE Settled
  <2>1. /\ frame_deficit' = frame_deficit + ConversionsPerMs /\ lost' = lost /\ Settled'
        /\ fault_code # "none" => fault_code' = fault_code
    BY <1>7 DEF SlipCheck, CheckDeficit, Latched, Settled
  <2>2. Bias' = Bias
    BY <1>3, <2>1, SlipTypes DEF Bias
  <2>3. CASE fault_code = "none" /\ lost = 0
    <3>1. Bias \in -MaxLate .. 2
      BY <1>1, <1>7, <2>3 DEF SlipInv, ReferenceInv
    <3>2. Bias = (InPipeline - (ms + ConversionsPerMs)) - frame_deficit
      BY <1>3 DEF Bias
    <3> DEFINE deficit == frame_deficit + ConversionsPerMs
               p == InPipeline
    <3>3. Bias = (p - ms) - deficit /\ deficit \in Int /\ p \in Int /\ p - ms \in -MaxLate .. 2
      BY <1>5, <3>2, SlipTypes
    <3>4. deficit <= MaxLate + 2 /\ deficit >= -(MaxLate + 2)
      <4> HIDE DEF p, deficit
      <4> QED BY <3>1, <3>3, SlipTypes
    <3>5. ~OffTheEstimate(deficit)
      <4> HIDE DEF deficit
      <4> QED BY <3>3, <3>4, SlipTypes DEF OffTheEstimate, SlipMargin
    <3>6. fault_code' = fault_code
      BY <1>7, <3>5 DEF SlipCheck, CheckDeficit
    <3> QED BY <1>4, <2>1, <2>2, <2>3, <3>1, <3>6 DEF SlipInv, ReferenceInv, SlipIsReal
  <2>4. CASE fault_code # "none"
    BY <1>4, <2>1, <2>4 DEF SlipInv, ReferenceInv, SlipIsReal
  <2>5. CASE lost # 0
    <3>1. lost > 0
      BY <2>5, SlipTypes
    <3> QED BY <1>4, <2>1, <2>5, <3>1 DEF SlipInv, ReferenceInv, SlipIsReal
  <2> QED BY <2>3, <2>4, <2>5
<1> QED BY <1>6, <1>7

(* A conversion enters the pipeline or is lost, and time passes with it.   *)
LEMMA ConvertSlip ==
  ASSUME Inv, SlipInv, SlipMargin, Convert PROVE SlipInv'
<1>1. /\ drain' = drain /\ s_running' = s_running /\ fault_code' = fault_code
      /\ frame_deficit' = frame_deficit /\ run_ms' = run_ms
      /\ s_xfer_active' = s_xfer_active /\ drdy'
      /\ ms' = (ms + 1) % ConversionsPerMs
      /\ systick' = (systick \/ ms' = 0)
      /\ late' = IF SysTickOwed THEN late + 1 ELSE late
      /\ SysTickOwed => late < MaxLate
      /\ lost' = IF s_running /\ fault_code = "none" /\ drdy /\ lost < MaxLost
                   THEN lost + 1 ELSE lost
  BY DEF Convert, slipVars
<1>2. ms' = IF ms = ConversionsPerMs - 1 THEN 0 ELSE ms + 1
  <2>1. CASE ms = ConversionsPerMs - 1
    <3>1. ms + 1 \in ConversionsPerMs .. 2 * ConversionsPerMs - 1 BY <2>1, SlipTypes
    <3> QED BY <1>1, <2>1, <3>1, ModAbove, SlipTypes
  <2>2. CASE ms # ConversionsPerMs - 1
    <3>1. ms + 1 \in 0 .. ConversionsPerMs - 1 BY <2>2, SlipTypes
    <3> QED BY <1>1, <2>2, <3>1, ModBelow, SlipTypes
  <2> QED BY <2>1, <2>2
<1>3. TickDue => ms < ConversionsPerMs - 1
  <2>1. TickDue => SysTickOwed /\ ms <= late
    BY DEF TickDue, SysTickOwed, SlipInv, TickIsLate, Inv, DueSinceMs
  <2> QED BY <1>1, <2>1, SlipTypes DEF SlipMargin
<1>4. TickDue' = (TickDue \/ ms' = 0)
  BY <1>1 DEF TickDue, Draining
<1>5. Unaccounted' = Unaccounted + 1
  <2>1. TickDue => ~(ms = ConversionsPerMs - 1)
    BY <1>3, SlipTypes
  <2>2. CASE TickDue
    <3>1. Unaccounted = ms + ConversionsPerMs /\ Unaccounted' = ms' + ConversionsPerMs
      BY <1>4, <2>2 DEF Unaccounted
    <3>2. ms' = ms + 1
      BY <1>2, <2>1, <2>2
    <3> QED BY <3>1, <3>2, SlipTypes
  <2>3. CASE ~TickDue
    <3>1. Unaccounted = ms
      BY <2>3, SlipTypes DEF Unaccounted
    <3>2. CASE ms = ConversionsPerMs - 1
      <4>1. ms' = 0 /\ TickDue'
        BY <1>2, <1>4, <3>2
      <4>2. Unaccounted' = 0 + ConversionsPerMs
        BY <4>1 DEF Unaccounted
      <4> QED BY <3>1, <3>2, <4>2, SlipTypes
    <3>3. CASE ms # ConversionsPerMs - 1
      <4>1. ms' = ms + 1 /\ ms' # 0
        BY <1>2, <3>3, SlipTypes
      <4>2. Unaccounted' = ms' + 0
        BY <1>4, <2>3, <4>1 DEF Unaccounted
      <4> QED BY <3>1, <4>1, <4>2, SlipTypes
    <3> QED BY <3>2, <3>3
  <2> QED BY <2>2, <2>3
<1>6. TickIsLate'
  <2> SUFFICES ASSUME Draining', drain'.by = "tick" PROVE ~systick' /\ ms' <= late'
    BY DEF TickIsLate
  <2>1. Draining /\ drain.by = "tick" /\ ~systick /\ ms <= late /\ TickDue /\ SysTickOwed
    BY <1>1 DEF Draining, SlipInv, TickIsLate, TickDue, SysTickOwed
  <2>2. ms' = ms + 1 /\ late' = late + 1 /\ ms' # 0
    BY <1>1, <1>2, <1>3, <2>1, SlipTypes
  <2> QED BY <1>1, <2>1, <2>2, SlipTypes
<1>7. lost' >= lost /\ (lost' = 0 /\ s_running /\ fault_code = "none" => ~drdy /\ lost = 0)
  BY <1>1, SlipTypes DEF SlipMargin
<1>8. ASSUME lost' = 0, s_running, fault_code = "none" PROVE Bias' = Bias
  <2>1. InPipeline' = InPipeline + 1
    BY <1>1, <1>7, <1>8, SlipTypes DEF InPipeline
  <2> QED BY <1>1, <1>5, <2>1, SlipTypes DEF Bias
<1>9. ReferenceInv'
  BY <1>1, <1>7, <1>8 DEF SlipInv, ReferenceInv, Settled
<1>10. SlipIsReal'
  BY <1>1, <1>7, SlipTypes DEF SlipInv, SlipIsReal
<1> QED BY <1>6, <1>9, <1>10 DEF SlipInv

(* The other steps leave the deficit and what explains it alone.           *)
LEMMA SlipStep ==
  ASSUME Inv, CallerIsKnown, DamageInHand, SlipInv, SlipMargin, [Next]_vars PROVE SlipInv'
<1>1. ASSUME s_running' = s_running, Settled' = Settled, frame_deficit' = frame_deficit,
             lost' = lost, InPipeline' = InPipeline, Unaccounted' = Unaccounted,
             fault_code' = fault_code \/ (fault_code # "slip" /\ fault_code' \notin {"none", "slip"})
      PROVE  ReferenceInv' /\ SlipIsReal'
  BY <1>1 DEF SlipInv, ReferenceInv, SlipIsReal, Bias
<1>2. CASE CheckFrame
  <2>1. drain.at = "frame" /\ drain'.at \in {"store", "deliver"} /\ drain'.by = drain.by
    BY <1>2, SlipTypes DEF CheckFrame, Drain
  <2>2. TickIsLate' /\ InPipeline' = InPipeline /\ Unaccounted' = Unaccounted
    BY <1>2, <2>1
       DEF CheckFrame, SlipInv, TickIsLate, Draining, InPipeline, Unaccounted, TickDue, timeVars, adcVars
  <2> QED BY <1>1, <1>2, <2>2 DEF CheckFrame, SlipInv, Settled, slipVars, adcVars
<1>3. CASE StoreFault
  <2>1. /\ drain.at = "store" /\ drain'.at = "deliver" /\ drain'.by = drain.by
        /\ fault_code' \notin {"none", "slip"} /\ fault_code' = drain.code
    BY <1>3, FrameAssumption, SlipTypes DEF StoreFault, DamageInHand, Drain
  <2>2. TickIsLate' /\ InPipeline' = InPipeline /\ Unaccounted' = Unaccounted
    BY <1>3, <2>1
       DEF StoreFault, SlipInv, TickIsLate, Draining, InPipeline, Unaccounted, TickDue, timeVars, adcVars
  <2> QED BY <1>3, <2>1, <2>2
      DEF StoreFault, SlipInv, ReferenceInv, SlipIsReal, Settled, slipVars, adcVars
<1>4. CASE PassOn
  <2>1. drain.at = "deliver" /\ drain'.at = "frame" /\ drain'.by = drain.by
    BY <1>4, SlipTypes DEF PassOn, Drain
  <2>2. TickIsLate' /\ InPipeline' = InPipeline /\ Unaccounted' = Unaccounted
    BY <1>4, <2>1
       DEF PassOn, SlipInv, TickIsLate, Draining, InPipeline, Unaccounted, TickDue, timeVars, adcVars
  <2> QED BY <1>1, <1>4, <2>2 DEF PassOn, SlipInv, Settled, slipVars, adcVars
<1>5. CASE DrainOver
  <2>1. /\ drain.at = "frame" /\ s_running' = s_running /\ fault_code' = fault_code
        /\ frame_deficit' = frame_deficit /\ run_ms' = run_ms /\ lost' = lost
        /\ drdy' = drdy /\ s_xfer_active' = s_xfer_active /\ ms' = ms /\ systick' = systick
    BY <1>5 DEF DrainOver, slipVars, adcVars
  <2>2. CASE drain.by = "tick" /\ fault_code = "none"
    <3>1. drain'.at = "slip" /\ drain'.by = drain.by /\ late' = late
      BY <1>5, <2>2, SlipTypes DEF DrainOver, Drain
    <3>2. TickIsLate' /\ InPipeline' = InPipeline /\ Unaccounted' = Unaccounted
      BY <2>1, <3>1 DEF SlipInv, TickIsLate, Draining, InPipeline, Unaccounted, TickDue
    <3> QED BY <1>1, <2>1, <3>2 DEF SlipInv, Settled
  <2>3. CASE ~(drain.by = "tick" /\ fault_code = "none")
    <3>1. drain'.at = "off"
      BY <1>5, <2>3 DEF DrainOver, HandlerOver, DrainOff
    <3>2. TickIsLate'
      BY <3>1 DEF TickIsLate, Draining
    <3>3. s_running => drain.by = "tick"
      BY <2>1 DEF CallerIsKnown, Draining
    <3> QED BY <2>1, <2>3, <3>2, <3>3
        DEF SlipInv, ReferenceInv, SlipIsReal, Settled
  <2> QED BY <2>2, <2>3
<1>6. CASE SysTick
  <2>1. /\ systick /\ ~Draining /\ ~systick' /\ s_running' = s_running
        /\ fault_code' = fault_code /\ frame_deficit' = frame_deficit /\ run_ms' = run_ms
        /\ lost' = lost /\ drdy' = drdy /\ s_xfer_active' = s_xfer_active /\ ms' = ms
    BY <1>6 DEF SysTick, slipVars, adcVars
  <2>2. CASE s_running
    <3>1. drain'.at = "frame" /\ drain'.by = "tick" /\ late' = late
      BY <1>6, <2>2 DEF SysTick, DrainFrom
    <3>2. TickIsLate'
      BY <2>1, <3>1 DEF TickIsLate, Inv, DueSinceMs
    <3>3. InPipeline' = InPipeline /\ Unaccounted' = Unaccounted
      BY <2>1, <3>1 DEF InPipeline, Unaccounted, TickDue, Draining
    <3> QED BY <1>1, <2>1, <3>2, <3>3 DEF SlipInv, Settled
  <2>3. CASE ~s_running
    <3>1. TickIsLate'
      BY <1>6, <2>1, <2>3 DEF SysTick, TickIsLate, Draining
    <3> QED BY <2>1, <2>3, <3>1 DEF SlipInv, ReferenceInv, SlipIsReal, Settled
  <2> QED BY <2>2, <2>3
<1>7. CASE Start
  <2>1. /\ drain' = drain /\ ~Draining /\ run_ms' = 0 /\ frame_deficit' = 0
        /\ fault_code' = "none" /\ SettleMs # 0
    BY <1>7, SlipTypes DEF Start
  <2> QED BY <2>1 DEF SlipInv, TickIsLate, ReferenceInv, SlipIsReal, Settled, Draining
<1>8. CASE Stop
  <2>1. ~s_running' /\ drain'.by = "stop" /\ fault_code' = fault_code /\ lost' = lost
        /\ run_ms' = run_ms
    BY <1>8 DEF Stop, DrainFrom, slipVars, adcVars
  <2> QED BY <2>1 DEF SlipInv, TickIsLate, ReferenceInv, SlipIsReal, Settled
<1>9. CASE DmaDone
  <2>1. TickIsLate' /\ InPipeline' = InPipeline /\ Unaccounted' = Unaccounted
    BY <1>9 DEF DmaDone, SlipInv, TickIsLate, Draining, InPipeline, Unaccounted, TickDue,
                timeVars, adcVars
  <2> QED BY <1>1, <1>9, <2>1 DEF DmaDone, SlipInv, Settled, slipVars, adcVars
<1>10. CASE UNCHANGED vars
  <2>1. TickIsLate' /\ InPipeline' = InPipeline /\ Unaccounted' = Unaccounted
    BY <1>10 DEF vars, SlipInv, TickIsLate, Draining, InPipeline, Unaccounted, TickDue,
                 timeVars, adcVars
  <2> QED BY <1>1, <1>10, <2>1 DEF vars, SlipInv, Settled, slipVars, adcVars
<1> QED
  BY <1>2, <1>3, <1>4, <1>5, <1>6, <1>7, <1>8, <1>9, <1>10,
     OnTriggerSlip, SlipCheckSlip, ConvertSlip DEF Next, DrainStep

(* The slip fault of drv_ads131m04.c:341 is never a false alarm as long as *)
(* a SysTick is over before the next is due and its lateness leaves the    *)
(* limit two conversions of room; MC_AdsRing_stall shows that it is one    *)
(* when it does not.                                                       *)
THEOREM SlipIsNoFalseAlarm ==
  ASSUME SlipMargin PROVE Spec => []SlipIsReal
<1>1. Init => SlipInv
  BY TimingAssumption
     DEF Init, DrainOff, SlipInv, TickIsLate, ReferenceInv, SlipIsReal, Draining
<1>2. Inv /\ CallerIsKnown /\ DamageInHand /\ SlipInv /\ [Next]_vars => SlipInv'
  BY SlipStep, SlipMargin
<1>3. Spec => [](Inv /\ CallerIsKnown)
  BY OrderInvariant, PTL DEF OrderInv
<1>4. Spec => []DamageInHand
  BY DamageInvariant, PTL DEF DamageInv
<1>5. SlipInv => SlipIsReal
  BY DEF SlipInv
<1> QED BY <1>1, <1>2, <1>3, <1>4, <1>5, PTL DEF Spec
=============================================================================
