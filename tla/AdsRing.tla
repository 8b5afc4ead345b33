------------------------------ MODULE AdsRing ------------------------------
(***************************************************************************)
(* The acquisition of Drivers_App/drv_ads131m04.c.  SPI DMA writes each    *)
(* frame into a ring slot; on_trigger (TIM7 ISR, priority 0) commits it by *)
(* advancing head and arms the next read; drain_ring (SysTick, priority 1) *)
(* passes the frames on and advances tail; start and stop run in task      *)
(* context.  TIM7 preempts the drain between any two of its steps.         *)
(***************************************************************************)
EXTENDS Integers, Sequences

CONSTANTS
  RingFrames,       (* ADC_FRAME_RING_FRAMES                               *)
  IndexRange,       (* values of an index: 2^16 in the code                *)
  SettleMs,         (* ADC_SLIP_SETTLE_MS                                  *)
  DeficitLimit,     (* ADC_FRAME_DEFICIT_LIMIT                             *)
  DeficitHoldMs,    (* ADC_FRAME_DEFICIT_HOLD_MS                           *)
  ConversionsPerMs, (* fDATA, as conversions in a SysTick period           *)
  MaxLate,          (* conversions that end before a due SysTick has run   *)
  MaxLost,          (* cap of the ghost counter lost                       *)
  Labels,           (* frames of a run are numbered as read, modulo Labels *)
  BadQualities,     (* subset of {"framing", "crc"}: damage on the wire    *)
  NoFrame

ASSUME RingAssumption ==
  /\ RingFrames \in Nat /\ RingFrames > 1
  /\ IndexRange \in Nat \ {0} /\ IndexRange % RingFrames = 0
ASSUME TimingAssumption ==
  /\ SettleMs \in Nat \ {0} /\ DeficitLimit \in Nat \ {0} /\ DeficitHoldMs \in Nat
  /\ ConversionsPerMs \in Nat \ {0} /\ MaxLate \in Nat /\ MaxLost \in Nat
ASSUME FrameAssumption ==
  /\ Labels \in Nat /\ Labels > 1
  /\ BadQualities \subseteq {"framing", "crc"}

VARIABLES
  s_running,
  s_ring,         (* slot -> frame                                         *)
  s_ring_head,
  s_ring_tail,
  s_xfer_active,
  fault_code,
  sample,         (* the last frame given to s_on_sample in this run       *)
  drain,          (* locals of drain_ring: at is where it stands           *)
  run_ms,         (* counts to SettleMs; there s_settled holds             *)
  frame_deficit,  (* expected - produced since the reference was taken     *)
  s_deficit_hold,
  dma,            (* the SPI1 RX channel: state, slot, number of the frame *)
  reads,          (* frames read in this run, modulo Labels                *)
  drdy,           (* DRDY low: an unread conversion waits                  *)
  ms,             (* conversions since the last millisecond                *)
  systick,        (* SysTick is pending                                    *)
  late,           (* conversions since a SysTick came due and is not over  *)
  lost            (* ghost: conversions never read since the reference     *)

ringVars == <<s_ring_head, s_ring_tail>>
slipVars == <<run_ms, frame_deficit, s_deficit_hold>>
timeVars == <<ms, systick, late>>
adcVars  == <<drdy, lost>>
vars == <<s_running, s_ring, ringVars, s_xfer_active, fault_code, sample, drain,
          slipVars, dma, reads, adcVars, timeVars>>

Index == 0 .. IndexRange - 1
Slots == 0 .. RingFrames - 1
Faults == {"overrun", "framing", "crc", "slip"}

Frames == [n : 0 .. Labels - 1, q : {"good"} \cup BadQualities]
(* What a slot holds while the DMA writes it, and before.                  *)
Torn == [n |-> 0, q |-> "torn"]

Slot(i)   == i % RingFrames
Gap(h, t) == (h - t) % IndexRange
After(i)  == (i + 1) % IndexRange

Dma == [at : {"off", "shifting", "done"}, slot : Slots, n : 0 .. Labels - 1]
Drain == [at : {"off", "frame", "store", "deliver", "slip"}, by : {"tick", "stop"},
          tail : Index, head : Index, code : Faults]

(* Every variable keeps its type; the deficit stays within what the hold   *)
(* time lets it grow to (drain_ring, drv_ads131m04_drain_tick).            *)
TypeOK ==
  /\ s_running \in BOOLEAN
  /\ s_ring \in [Slots -> Frames \cup {Torn}]
  /\ s_ring_head \in Index /\ s_ring_tail \in Index
  /\ s_xfer_active \in BOOLEAN
  /\ fault_code \in Faults \cup {"none"}
  /\ sample \in Frames \cup {NoFrame, Torn}
  /\ drain \in Drain
  /\ run_ms \in 0 .. SettleMs
  /\ frame_deficit \in Int
  /\ s_deficit_hold \in 0 .. DeficitHoldMs
  /\ dma \in Dma
  /\ reads \in 0 .. Labels - 1
  /\ drdy \in BOOLEAN
  /\ ms \in 0 .. ConversionsPerMs - 1
  /\ systick \in BOOLEAN
  /\ late \in 0 .. MaxLate
  /\ lost \in 0 .. MaxLost

DmaOff   == [at |-> "off", slot |-> 0, n |-> 0]
DrainOff == [at |-> "off", by |-> "tick", tail |-> 0, head |-> 0, code |-> "slip"]

Init ==
  /\ s_running = FALSE
  /\ s_ring = [i \in Slots |-> Torn]
  /\ s_ring_head = 0 /\ s_ring_tail = 0
  /\ s_xfer_active = FALSE
  /\ fault_code = "none"
  /\ sample = NoFrame
  /\ drain = DrainOff
  /\ run_ms = 0 /\ frame_deficit = 0 /\ s_deficit_hold = 0
  /\ dma = DmaOff /\ reads = 0
  /\ drdy = FALSE /\ lost = 0
  /\ ms = 0 /\ systick = FALSE /\ late = 0

(* integ_fault when it is not interrupted between its check and its store. *)
Latched(code) == IF fault_code = "none" THEN code ELSE fault_code

Settled == run_ms = SettleMs

-----------------------------------------------------------------------------
(* TIM7: on_trigger, one step of its state machine per fire.               *)

FrameOver == s_xfer_active /\ dma.at = "done"

(* One slot stays free: the one the DMA writes.                            *)
RingFull_noSpare == Gap(s_ring_head, s_ring_tail) >= RingFrames
RingFull == Gap(s_ring_head, s_ring_tail) >= RingFrames - 1

(* The frame that is over is committed, or dropped with a fault.           *)
Commits == FrameOver /\ ~RingFull
HeadAfter == IF Commits THEN After(s_ring_head) ELSE s_ring_head
FaultAfter_unlatched == fault_code
FaultAfter == IF FrameOver /\ RingFull THEN Latched("overrun") ELSE fault_code

ArmRead ==
  LET slot == Slot(HeadAfter) IN
  /\ s_xfer_active' = TRUE
  /\ dma' = [at |-> "shifting", slot |-> slot, n |-> reads]
  /\ s_ring' = [s_ring EXCEPT ![slot] = Torn]
  /\ reads' = (reads + 1) % Labels
  /\ drdy' = FALSE

NoRead ==
  /\ s_xfer_active' = FALSE
  /\ dma' = DmaOff
  /\ UNCHANGED <<s_ring, reads, drdy>>

OnTrigger ==
  /\ s_running
  /\ s_xfer_active => FrameOver
  /\ s_ring_head' = HeadAfter
  /\ fault_code' = FaultAfter
  /\ frame_deficit' = IF Commits /\ Settled THEN frame_deficit - 1 ELSE frame_deficit
  /\ IF FaultAfter = "none" /\ drdy THEN ArmRead ELSE NoRead
  /\ UNCHANGED <<s_running, s_ring_tail, sample, drain, run_ms, s_deficit_hold,
                 lost, timeVars>>

-----------------------------------------------------------------------------
(* drain_ring, from SysTick or from stop; TIM7 may run between the steps.  *)

DrainFrom(caller) ==
  LET gap  == Gap(s_ring_head, s_ring_tail)
      tail == IF gap > RingFrames
                THEN (s_ring_head - RingFrames) % IndexRange ELSE s_ring_tail
  IN drain' = [at |-> "frame", by |-> caller, tail |-> tail, head |-> s_ring_head,
               code |-> "slip"]

Draining == drain.at # "off"
InHand   == s_ring[Slot(drain.tail)]

(* The checks of word 0 and of the CRC, and the check half of integ_fault. *)
CheckFrame ==
  /\ drain.at = "frame" /\ drain.tail # drain.head
  /\ drain' = IF InHand.q \in Faults /\ fault_code = "none"
                THEN [drain EXCEPT !.at = "store", !.code = InHand.q]
                ELSE [drain EXCEPT !.at = "deliver"]
  /\ UNCHANGED <<s_running, s_ring, ringVars, s_xfer_active, fault_code, sample,
                 slipVars, dma, reads, adcVars, timeVars>>

StoreFault_dropped ==
  /\ drain.at = "store"
  /\ drain' = [drain EXCEPT !.at = "deliver"]
  /\ UNCHANGED <<s_running, s_ring, ringVars, s_xfer_active, fault_code, sample,
                 slipVars, dma, reads, adcVars, timeVars>>

(* The store half of integ_fault: TIM7 may have latched another cause.     *)
StoreFault ==
  /\ drain.at = "store"
  /\ fault_code' = drain.code
  /\ drain' = [drain EXCEPT !.at = "deliver"]
  /\ UNCHANGED <<s_running, s_ring, ringVars, s_xfer_active, sample, slipVars,
                 dma, reads, adcVars, timeVars>>

PassOn ==
  /\ drain.at = "deliver"
  /\ sample' = InHand
  /\ drain' = [drain EXCEPT !.at = "frame", !.tail = After(@)]
  /\ UNCHANGED <<s_running, s_ring, ringVars, s_xfer_active, fault_code, slipVars,
                 dma, reads, adcVars, timeVars>>

(* The next SysTick may have come due while this one ran.                  *)
HandlerOver ==
  /\ drain' = DrainOff
  /\ late' = IF ~systick THEN 0 ELSE IF drain.by = "tick" THEN ms ELSE late

(* The tail is published only here.                                        *)
DrainOver ==
  /\ drain.at = "frame" /\ drain.tail = drain.head
  /\ s_ring_tail' = drain.tail
  /\ IF drain.by = "tick" /\ fault_code = "none"
       THEN drain' = [drain EXCEPT !.at = "slip"] /\ UNCHANGED late
       ELSE HandlerOver
  /\ UNCHANGED <<s_running, s_ring, s_ring_head, s_xfer_active, fault_code, sample,
                 slipVars, dma, reads, adcVars, ms, systick>>

OffTheEstimate_tight(deficit) == deficit >= DeficitLimit - 1 \/ deficit <= 1 - DeficitLimit
OffTheEstimate_surplusOnly(deficit) == deficit <= -DeficitLimit
OffTheEstimate(deficit) == deficit >= DeficitLimit \/ deficit <= -DeficitLimit

(* The rest of drain_tick: the reference after the settling time, then the *)
(* deficit against the millisecond clock.                                  *)
TakeReference ==
  /\ run_ms' = run_ms + 1
  /\ lost' = IF run_ms + 1 = SettleMs THEN 0 ELSE lost
  /\ UNCHANGED <<frame_deficit, s_deficit_hold, fault_code>>

CheckDeficit ==
  LET deficit == frame_deficit + ConversionsPerMs IN
  /\ frame_deficit' = deficit
  /\ s_deficit_hold' = IF ~OffTheEstimate(deficit) THEN 0
                       ELSE IF s_deficit_hold < DeficitHoldMs THEN s_deficit_hold + 1
                       ELSE s_deficit_hold
  /\ fault_code' = IF OffTheEstimate(deficit) /\ s_deficit_hold = DeficitHoldMs
                     THEN Latched("slip") ELSE fault_code
  /\ UNCHANGED <<run_ms, lost>>

SlipCheck ==
  /\ drain.at = "slip"
  /\ IF Settled THEN CheckDeficit ELSE TakeReference
  /\ HandlerOver
  /\ UNCHANGED <<s_running, s_ring, ringVars, s_xfer_active, sample, dma, reads,
                 drdy, ms, systick>>

DrainStep == CheckFrame \/ StoreFault \/ PassOn \/ DrainOver \/ SlipCheck

(* SysTick_Handler begins; drain_tick returns at once unless running.      *)
SysTick ==
  /\ systick /\ ~Draining
  /\ systick' = FALSE
  /\ IF s_running THEN DrainFrom("tick") /\ UNCHANGED late
                  ELSE late' = 0 /\ UNCHANGED drain
  /\ UNCHANGED <<s_running, s_ring, ringVars, s_xfer_active, fault_code, sample,
                 slipVars, dma, reads, adcVars, ms>>

-----------------------------------------------------------------------------
(* Task context: never inside an interrupt handler.                        *)

Start ==
  /\ ~Draining /\ ~s_running
  /\ s_running' = TRUE
  /\ s_xfer_active' = FALSE
  /\ s_ring_head' = 0 /\ s_ring_tail' = 0
  /\ run_ms' = 0 /\ frame_deficit' = 0 /\ s_deficit_hold' = 0
  /\ fault_code' = "none"
  /\ sample' = NoFrame
  /\ lost' = 0 /\ reads' = 0
  /\ UNCHANGED <<s_ring, drain, dma, drdy, timeVars>>

(* The read in flight is ended; the flush runs with SysTick masked.        *)
Stop ==
  /\ ~Draining /\ s_running
  /\ s_running' = FALSE
  /\ IF s_xfer_active THEN s_xfer_active' = FALSE /\ dma' = DmaOff
                      ELSE UNCHANGED <<s_xfer_active, dma>>
  /\ DrainFrom("stop")
  /\ UNCHANGED <<s_ring, ringVars, fault_code, sample, slipVars, reads, adcVars,
                 timeVars>>

-----------------------------------------------------------------------------
(* The hardware.                                                           *)

DmaDone ==
  /\ dma.at = "shifting"
  /\ dma' = [dma EXCEPT !.at = "done"]
  /\ \E q \in {"good"} \cup BadQualities :
       s_ring' = [s_ring EXCEPT ![dma.slot] = [n |-> dma.n, q |-> q]]
  /\ UNCHANGED <<s_running, ringVars, s_xfer_active, fault_code, sample, drain,
                 slipVars, reads, adcVars, timeVars>>

SysTickOwed == systick \/ Draining

(* A conversion ends; one that was not read is overwritten.                *)
Convert ==
  /\ SysTickOwed => late < MaxLate
  /\ drdy' = TRUE
  /\ lost' = IF s_running /\ fault_code = "none" /\ drdy /\ lost < MaxLost
               THEN lost + 1 ELSE lost
  /\ ms' = (ms + 1) % ConversionsPerMs
  /\ systick' = (systick \/ ms' = 0)
  /\ late' = IF SysTickOwed THEN late + 1 ELSE late
  /\ UNCHANGED <<s_running, s_ring, ringVars, s_xfer_active, fault_code, sample,
                 drain, slipVars, dma, reads>>

Next ==
  \/ OnTrigger \/ SysTick \/ DrainStep
  \/ Start \/ Stop
  \/ DmaDone \/ Convert

Spec == Init /\ [][Next]_vars

(* The converter's clock (TIM2) runs, and interrupts are taken; TIM7 fires *)
(* and the DMA may stop for good.                                          *)
FairSpec == Spec /\ WF_vars(Convert) /\ WF_vars(SysTick) /\ WF_vars(DrainStep)

-----------------------------------------------------------------------------
(* Properties.                                                             *)

(* The DMA never writes a slot that still holds a frame the drain has not  *)
(* passed on (drv_ads131m04.c:408, "keep one slot free").                  *)
Unread == { Slot(s_ring_tail + k) : k \in 0 .. Gap(s_ring_head, s_ring_tail) - 1 }
DmaSlotIsFree == dma.at # "off" => dma.slot \notin Unread

(* The drain's snapshot stays inside what is committed and unread, so the  *)
(* clamp of drain_ring is never needed.                                    *)
DrainInBounds ==
  Draining /\ drain.at # "slip" =>
    /\ Gap(drain.tail, s_ring_tail) + Gap(drain.head, drain.tail)
         <= Gap(s_ring_head, s_ring_tail)
    /\ Gap(drain.head, drain.tail) < RingFrames

(* A damaged frame is never passed on without a latched fault, even when   *)
(* TIM7 latches another cause between the check and the store.             *)
DamageIsLatched ==
  sample # NoFrame /\ sample.q \in Faults => fault_code # "none"

(* The slip fault is never a false alarm: no conversion was lost, no slip. *)
SlipIsReal == fault_code = "slip" => lost > 0

(* drv_ads131m04.c:333 "(a transient SysTick stall recovers)".             *)
StallRecovers == SlipIsReal

(* The frames waiting, from where the drain stands.                        *)
FirstUnread == IF Draining /\ drain.at # "slip" THEN drain.tail ELSE s_ring_tail
Waiting == [k \in 1 .. Gap(s_ring_head, FirstUnread) |-> s_ring[Slot(FirstUnread + k - 1)]]

(* The ring, the two interrupts and start/stop together are a queue that   *)
(* loses, doubles, tears and reorders nothing.                             *)
Fifo == INSTANCE SampleFifo
  WITH queue <- Waiting, Capacity <- RingFrames - 1,
       Qualities <- {"good"} \cup BadQualities
ImplementsFifo == Fifo!Spec

(* Lost conversions beyond the limit, the noise of the estimate and the    *)
(* lateness of SysTick stop the acquisition with a fault.                  *)
Noise == MaxLate + 2
LossesAreLatched ==
  (s_running /\ Settled /\ lost >= DeficitLimit + Noise) ~> (fault_code # "none" \/ ~s_running)

(* docs/adc_acquisition_redesign.md:69 "every lost/duplicated conversion   *)
(* is an ERROR".                                                           *)
EveryLossIsLatched ==
  (s_running /\ Settled /\ lost > 0) ~> (fault_code # "none" \/ ~s_running)
=============================================================================
