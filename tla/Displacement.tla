---------------------------- MODULE Displacement ----------------------------
(***************************************************************************)
(* Who gets the ADC's samples: Services/svc_displacement.c with its        *)
(* procedures (svc_disp_procedures.c), the raw capture (svc_disp_capture.c)*)
(* and the phasor tap (svc_disp_phasor_stream.c), as hosts on several      *)
(* transports use them through svc_api_res_stream.c and svc_api_res_cmd.c. *)
(*                                                                         *)
(* Frames wait in the driver's ring (unread) until SysTick drains them     *)
(* into on_sample; stop flushes what is left. A task runs to its end:      *)
(* while svc_displacement_update is inside its loop (turn > 0) only        *)
(* SysTick and the ADC move.                                               *)
(*                                                                         *)
(* Samples are abstracted to the run (driver start to stop) they come      *)
(* from; a batch is its number and the runs its samples come from. Whether *)
(* a window is clean is a free choice.                                     *)
(***************************************************************************)
EXTENDS Integers, Sequences, FiniteSets

CONSTANTS
  BatchSamples,   (* s_n_pos * DISPLACEMENT_BATCH_CYCLES                   *)
  RingDepth,      (* DISPLACEMENT_BATCH_RING_DEPTH                         *)
  MaxPerTick,     (* DISPLACEMENT_MAX_BATCHES_PER_TICK                     *)
  SeqRange,       (* values of seq, in batches (2^16 / BATCH_CYCLES)       *)
  MaxDrops,       (* batches dropped in a row before the watchdog resets   *)
  MaxUnread,      (* frames that wait for a drain                          *)
  ZcSamples,      (* DISPLACEMENT_ZERO_CAL_SAMPLES                         *)
  Window,         (* DISPLACEMENT_PRECISION_WINDOW_BATCHES                 *)
  Timeout,        (* DISPLACEMENT_PRECISION_TIMEOUT_MS                     *)
  CapSamples,     (* ADC_BULK_SAMPLE_COUNT                                 *)
  CapChunks,      (* chunks of a bulk transfer                             *)
  RunLabels,      (* ghost: runs of the driver that are told apart         *)
  MaxFaults,      (* integrity faults the ADC driver latches               *)
  Transports,
  Uses            (* what is asked of the device                           *)

ASSUME SizesAssumption ==
  /\ BatchSamples \in Nat \ {0} /\ MaxUnread \in 1 .. BatchSamples
  /\ RingDepth \in Nat /\ RingDepth > 1 /\ MaxPerTick \in Nat \ {0}
  /\ MaxDrops \in Nat /\ SeqRange \in Nat /\ SeqRange > MaxDrops + 2
  /\ ZcSamples \in Nat \ {0} /\ Window \in Nat \ {0} /\ Timeout \in Nat
  /\ CapSamples \in Nat \ {0} /\ CapChunks \in Nat \ {0}
  /\ RunLabels \in Nat \ {0} /\ MaxFaults \in Nat
ASSUME UsesAssumption ==
  Uses \subseteq {"zero_cal", "precision", "reconfigure", "power_test", "degenerate",
                  "bulk", "phasors"}

VARIABLES
  s_running,              (* the driver acquires                           *)
  ads_fault,              (* its fault is latched                          *)
  unread,                 (* frames in its ring                            *)
  run,                    (* ghost: the driver's run, modulo RunLabels     *)
  faults,                 (* bound: faults so far                          *)
  accum,                  (* [n, from, seq, ring, dropped]: the batch in   *)
                          (* progress, s_cycle_seq, s_in_ring, and (ghost) *)
                          (* the batches dropped since the last hand-off   *)
  turn,                   (* turns svc_displacement_update's loop has left,*)
                          (* plus one; 0 outside                           *)
  reading,                (* s_disp_ok, and the runs the reading is from   *)
  disp,                   (* s_ds: have_seq, last_seq, win.count           *)
  s_fault_reported,
  cap,                    (* g_disp_cap_active, s_cap_idx, s_cap_done      *)
  g_disp_pstream_active,
  zc,                     (* s_zero_cal_phase, _count; ghost: its run      *)
  prec,                   (* s_precision_phase, s_prec.fill and failed,    *)
                          (* time since the start; ghost: since, batches   *)
                          (* without a gap since the trigger               *)
  s_bulk,                 (* phase, transport, send_pos in chunks (an idle *)
                          (* one's are cleared: nothing reads them)        *)
  sub,                    (* transports with an active phasor subscription *)
  connected

adcVars  == <<s_running, ads_fault, unread, run>>
measVars == <<reading, disp, zc, prec>>
apiVars  == <<s_bulk, sub, connected>>
vars == <<adcVars, faults, accum, turn, measVars, s_fault_reported, cap,
          g_disp_pstream_active, apiVars>>

Runs    == 0 .. RunLabels - 1
Seqs    == 0 .. SeqRange - 1
Batches == [seq : Seqs, from : SUBSET Runs, gap : BOOLEAN]
ZcPhases == {"idle", "step1_running", "step1_done", "step2_running", "result_ready"}
Captures   == [active : BOOLEAN, idx : 0 .. CapSamples, done : BOOLEAN, from : SUBSET Runs]
ZeroCals   == [phase : ZcPhases, count : 0 .. ZcSamples, run : Runs]
Precisions == [phase : {"idle", "running", "done"}, fill : 0 .. Window,
               since : 0 .. Window, elapsed : 0 .. Timeout, failed : BOOLEAN]
Transfers  == [phase : {"idle", "capturing", "sending"},
               transport : Transports \cup {"none"}, send_pos : 0 .. CapChunks]
Accums  == [n : 0 .. BatchSamples - 1, from : SUBSET Runs, seq : Seqs,
            ring : Seq(Batches), dropped : 0 .. MaxDrops + 1]

Least(a, b) == IF a < b THEN a ELSE b

AccumReset == [n |-> 0, from |-> {}, seq |-> 0, ring |-> <<>>, dropped |-> 0]
NoWindow   == [have_seq |-> FALSE, last_seq |-> 0, count |-> 0]
NoReading  == [ok |-> FALSE, from |-> {}]
NoBulk     == [phase |-> "idle", transport |-> "none", send_pos |-> 0]
ZcIdle     == [zc EXCEPT !.phase = "idle", !.count = 0]
PrecIdle   == [prec EXCEPT !.phase = "idle", !.fill = 0, !.since = 0, !.elapsed = 0]

(* Every variable keeps its type: in particular the batch ring never takes *)
(* more than RingDepth - 1 batches (svc_displacement.c:270).               *)
TypeOK ==
  /\ s_running \in BOOLEAN /\ ads_fault \in BOOLEAN
  /\ unread \in 0 .. MaxUnread /\ run \in Runs /\ faults \in 0 .. MaxFaults
  /\ accum \in Accums /\ Len(accum.ring) < RingDepth
  /\ turn \in 0 .. MaxPerTick + 1
  /\ reading \in [ok : BOOLEAN, from : SUBSET Runs]
  /\ disp \in [have_seq : BOOLEAN, last_seq : Seqs, count : 0 .. Window]
  /\ s_fault_reported \in BOOLEAN
  /\ cap \in Captures
  /\ g_disp_pstream_active \in BOOLEAN
  /\ zc \in ZeroCals
  /\ prec \in Precisions
  /\ s_bulk \in Transfers
  /\ sub \subseteq Transports /\ connected \subseteq Transports

Init ==
  /\ s_running = FALSE /\ ads_fault = FALSE /\ unread = 0 /\ run = 0 /\ faults = 0
  /\ accum = AccumReset /\ turn = 0
  /\ reading = NoReading /\ disp = NoWindow
  /\ s_fault_reported = FALSE
  /\ cap = [active |-> FALSE, idx |-> 0, done |-> FALSE, from |-> {}]
  /\ g_disp_pstream_active = FALSE
  /\ zc = [phase |-> "idle", count |-> 0, run |-> 0]
  /\ prec = [phase |-> "idle", fill |-> 0, since |-> 0, elapsed |-> 0, failed |-> FALSE]
  /\ s_bulk = NoBulk
  /\ sub = {} /\ connected = {}

-----------------------------------------------------------------------------
(* on_sample, for k samples in a row.                                      *)

RingFull == Len(accum.ring) = RingDepth - 1

(* A batch is complete: it is handed to the task, or dropped as a whole.   *)
HandedOff(rest, from) ==
  [n       |-> rest,
   from    |-> IF rest > 0 THEN {run} ELSE {},
   seq     |-> (accum.seq + 1) % SeqRange,
   ring    |-> IF RingFull THEN accum.ring
               ELSE Append(accum.ring, [seq |-> accum.seq, from |-> from,
                                        gap |-> accum.dropped > 0]),
   dropped |-> IF RingFull THEN Least(accum.dropped + 1, MaxDrops + 1) ELSE 0]

AccumAfter(k) ==
  LET n    == accum.n + k
      from == IF k > 0 THEN accum.from \cup {run} ELSE accum.from
  IN IF n < BatchSamples THEN [accum EXCEPT !.n = n, !.from = from]
                         ELSE HandedOff(n - BatchSamples, from)

(* disp_capture_store                                                      *)
CapAfter(k) ==
  LET idx == Least(cap.idx + k, CapSamples)
  IN [cap EXCEPT !.idx = idx, !.done = @ \/ (cap.idx < CapSamples /\ idx = CapSamples),
                 !.from = IF idx > cap.idx THEN @ \cup {run} ELSE @]

OnSamples(k) ==
  IF cap.active THEN cap' = CapAfter(k) /\ UNCHANGED accum
                ELSE accum' = AccumAfter(k) /\ UNCHANGED cap

(* The ADC driver: a frame arrives, SysTick drains one, a fault latches    *)
(* and no more frames arrive.                                              *)
Frame ==
  /\ s_running /\ ~ads_fault /\ unread < MaxUnread
  /\ cap.active \/ ~RingFull \/ accum.dropped < MaxDrops
  /\ unread' = unread + 1
  /\ UNCHANGED <<s_running, ads_fault, run, faults, accum, turn, measVars,
                 s_fault_reported, cap, g_disp_pstream_active, apiVars>>

Sample ==
  /\ unread > 0
  /\ unread' = unread - 1
  /\ OnSamples(1)
  /\ UNCHANGED <<s_running, ads_fault, run, faults, turn, measVars, s_fault_reported,
                 g_disp_pstream_active, apiVars>>

AdsFault ==
  /\ s_running /\ ~ads_fault /\ faults < MaxFaults
  /\ ads_fault' = TRUE /\ faults' = faults + 1
  /\ UNCHANGED <<s_running, unread, run, accum, turn, measVars, s_fault_reported, cap,
                 g_disp_pstream_active, apiVars>>

DrvStart ==
  /\ s_running' = TRUE /\ ads_fault' = FALSE /\ unread' = 0
  /\ run' = (run + 1) % RunLabels

DrvStopped == s_running' = FALSE /\ unread' = 0 /\ UNCHANGED <<ads_fault, run>>

-----------------------------------------------------------------------------
(* The service's calls.                                                    *)

(* svc_displacement_start, the driver not running.                         *)
Start ==
  /\ DrvStart
  /\ accum' = AccumReset
  /\ s_fault_reported' = FALSE
  /\ reading' = NoReading /\ disp' = NoWindow
  /\ zc' = ZcIdle /\ prec' = PrecIdle

(* svc_displacement_stop: the driver flushes, then the state is reset.     *)
StopAccum_keep == IF cap.active THEN accum ELSE AccumAfter(unread)
StopAccum == AccumReset
StopZc_keep == zc
StopZc == ZcIdle

Stop ==
  /\ DrvStopped
  /\ cap' = IF cap.active THEN CapAfter(unread) ELSE cap
  /\ accum' = StopAccum
  /\ reading' = NoReading
  /\ zc' = StopZc /\ prec' = PrecIdle

(* svc_displacement_capture_begin, the driver not running.                 *)
CaptureCleared_keep == [cap EXCEPT !.active = TRUE, !.done = FALSE]
CaptureCleared == [active |-> TRUE, idx |-> 0, done |-> FALSE, from |-> {}]

CaptureBegin ==
  /\ cap' = CaptureCleared
  /\ IF s_running THEN UNCHANGED adcVars ELSE DrvStart

(* svc_displacement_capture_end: capturing ends before the driver's flush. *)
CaptureEnd ==
  /\ cap' = [cap EXCEPT !.active = FALSE]
  /\ accum' = AccumAfter(unread)
  /\ DrvStopped

-----------------------------------------------------------------------------
(* task_displacement: svc_displacement_update, then _check_integrity.      *)

UpdateBegins ==
  /\ turn = 0
  /\ turn' = MaxPerTick + 1
  /\ UNCHANGED <<adcVars, faults, accum, measVars, s_fault_reported, cap,
                 g_disp_pstream_active, apiVars>>

Contiguous_any(batch) == disp.have_seq
Contiguous(batch) ==
  disp.have_seq /\ (batch.seq - disp.last_seq) % SeqRange = 1

(* zero_cal_accumulate                                                     *)
ZcFed ==
  LET last == zc.count + 1 = ZcSamples IN
  CASE zc.phase = "step1_running" ->
         [zc EXCEPT !.count = @ + 1, !.phase = IF last THEN "step1_done" ELSE @]
    [] zc.phase = "step2_running" ->
         [zc EXCEPT !.count = @ + 1, !.phase = IF last THEN "result_ready" ELSE @]
    [] OTHER -> zc

TimedOut == prec.elapsed = Timeout
PrecFailed == [prec EXCEPT !.phase = "done", !.failed = TRUE]

(* disp_procs_break, then precision_batch: accepted says that the floor is *)
(* ready and the window clean, for a full window.                          *)
PrecFed(batch, accepted) ==
  LET kept   == IF Contiguous(batch) THEN prec.fill ELSE 0
      fed    == [prec EXCEPT !.fill  = Least(kept + 1, Window),
                             !.since = IF batch.gap THEN 1 ELSE Least(@ + 1, Window)]
  IN CASE prec.phase # "running" -> [prec EXCEPT !.fill = kept]
       [] prec.phase = "running" /\ accepted ->
            [fed EXCEPT !.phase = "done", !.failed = FALSE]
       [] prec.phase = "running" /\ ~accepted /\ TimedOut ->
            [fed EXCEPT !.phase = "done", !.failed = TRUE]
       [] OTHER -> fed

CountAfter(batch) == IF Contiguous(batch) THEN Least(disp.count + 1, Window) ELSE 1

(* process_one_batch                                                       *)
GoodBatch(batch) ==
  \E accepted \in BOOLEAN :
    /\ accepted => PrecFed(batch, FALSE).fill = Window /\ CountAfter(batch) = Window
    /\ disp' = [have_seq |-> TRUE, last_seq |-> batch.seq, count |-> CountAfter(batch)]
    /\ reading' = [ok |-> TRUE, from |-> batch.from]
    /\ zc' = ZcFed
    /\ prec' = PrecFed(batch, accepted)

DegenerateBatch ==
  /\ "degenerate" \in Uses
  /\ disp' = [disp EXCEPT !.have_seq = FALSE]
  /\ reading' = NoReading
  /\ prec' = [prec EXCEPT !.since = IF prec.phase = "running" THEN 0 ELSE @]
  /\ UNCHANGED zc

UpdateBatch ==
  /\ turn > 1 /\ accum.ring # <<>>
  /\ turn' = turn - 1
  /\ accum' = [accum EXCEPT !.ring = Tail(@)]
  /\ GoodBatch(Head(accum.ring)) \/ DegenerateBatch
  /\ UNCHANGED <<adcVars, faults, s_fault_reported, cap, g_disp_pstream_active, apiVars>>

Polled_never == prec
Polled == IF prec.phase = "running" /\ TimedOut THEN PrecFailed ELSE prec

UpdateEnds ==
  /\ turn > 0 /\ (turn = 1 \/ accum.ring = <<>>)
  /\ turn' = 0
  /\ IF ads_fault /\ ~s_fault_reported
       THEN Stop /\ s_fault_reported' = TRUE /\ g_disp_pstream_active' = FALSE
       ELSE /\ prec' = Polled
            /\ UNCHANGED <<adcVars, accum, reading, zc, s_fault_reported, cap,
                           g_disp_pstream_active>>
  /\ UNCHANGED <<faults, disp, apiVars>>

Clock ==
  /\ prec.phase = "running" /\ prec.elapsed < Timeout
  /\ prec' = [prec EXCEPT !.elapsed = @ + 1]
  /\ UNCHANGED <<adcVars, faults, accum, turn, reading, disp, zc, s_fault_reported, cap,
                 g_disp_pstream_active, apiVars>>

-----------------------------------------------------------------------------
(* The commands, from a host or from the screens.                          *)

Command == turn = 0 /\ UNCHANGED <<turn, faults>>
BulkIdle == s_bulk.phase = "idle"

(* TILT_DEMOD on and off. A start while running does nothing.              *)
DemodStart ==
  /\ Command /\ BulkIdle /\ ~s_running
  /\ Start
  /\ UNCHANGED <<cap, g_disp_pstream_active, apiVars>>

DemodStop ==
  /\ Command /\ BulkIdle
  /\ Stop
  /\ UNCHANGED <<disp, s_fault_reported, g_disp_pstream_active, apiVars>>

(* POWER_TEST holds the ADC in reset, whoever uses it.                     *)
PowerTest ==
  /\ Command /\ "power_test" \in Uses
  /\ Stop
  /\ UNCHANGED <<disp, s_fault_reported, g_disp_pstream_active, apiVars>>

(* ADC_MUX, EXC_FREQ: stop and start around the change if it was running.  *)
Reconfigure ==
  /\ Command /\ BulkIdle /\ "reconfigure" \in Uses
  /\ IF s_running THEN Start
     ELSE /\ accum' \in {accum, AccumReset}
          /\ UNCHANGED <<adcVars, measVars, s_fault_reported>>
  /\ UNCHANGED <<cap, g_disp_pstream_active, apiVars>>

Procedure(use) ==
  /\ Command /\ use \in Uses
  /\ UNCHANGED <<adcVars, accum, reading, disp, s_fault_reported, cap,
                 g_disp_pstream_active, apiVars>>

ZcNotUnderWay == zc.phase \in {"idle", "result_ready"}

ZeroCalStep1 ==
  /\ Procedure("zero_cal")
  /\ s_running /\ ZcNotUnderWay /\ prec.phase # "running"
  /\ zc' = [phase |-> "step1_running", count |-> 0, run |-> run]
  /\ UNCHANGED prec

ZeroCalStep2 ==
  /\ Procedure("zero_cal")
  /\ s_running /\ zc.phase = "step1_done"
  /\ zc' = [zc EXCEPT !.phase = "step2_running", !.count = 0]
  /\ UNCHANGED prec

ZeroCalCancel == Procedure("zero_cal") /\ zc' = ZcIdle /\ UNCHANGED prec

PrecisionBegin ==
  /\ Procedure("precision")
  /\ s_running /\ ZcNotUnderWay
  /\ prec' = [phase |-> "running", fill |-> 0, since |-> 0, elapsed |-> 0, failed |-> FALSE]
  /\ UNCHANGED zc

PrecisionCancel == Procedure("precision") /\ prec' = PrecIdle /\ UNCHANGED zc

-----------------------------------------------------------------------------
(* Bulk capture and phasor stream.                                         *)

MayCapture_anyTime == TRUE
MayCapture == ~s_running

StartBulk(t) ==
  /\ Command /\ "bulk" \in Uses /\ t \in connected
  /\ BulkIdle /\ MayCapture /\ ~cap.active
  /\ CaptureBegin
  /\ s_bulk' = [phase |-> "capturing", transport |-> t, send_pos |-> 0]
  /\ UNCHANGED <<accum, measVars, s_fault_reported, g_disp_pstream_active, sub, connected>>

BulkAbort == CaptureEnd /\ s_bulk' = NoBulk
NoBulkChange == UNCHANGED <<adcVars, accum, cap, s_bulk>>

CancelBulk ==
  /\ Command /\ ~BulkIdle
  /\ BulkAbort
  /\ UNCHANGED <<measVars, s_fault_reported, g_disp_pstream_active, sub, connected>>

(* phasor_start and svc_displacement_phasor_stream_begin                   *)
PhasorSubscribe(t) ==
  /\ Command /\ "phasors" \in Uses /\ t \in connected \ sub
  /\ BulkIdle /\ ~g_disp_pstream_active /\ ~cap.active
  /\ g_disp_pstream_active' = TRUE
  /\ sub' = sub \cup {t}
  /\ IF s_running THEN UNCHANGED <<adcVars, accum, measVars, s_fault_reported>> ELSE Start
  /\ UNCHANGED <<cap, s_bulk, connected>>

TapAfterLeaving(t) == IF t \in sub THEN FALSE ELSE g_disp_pstream_active

SubsCleared(t) ==
  /\ g_disp_pstream_active' = TapAfterLeaving(t)
  /\ sub' = sub \ {t}

PhasorUnsubscribe(t) ==
  /\ Command /\ t \in sub
  /\ SubsCleared(t)
  /\ NoBulkChange
  /\ UNCHANGED <<measVars, s_fault_reported, connected>>

(* svc_api_connected, svc_api_disconnected                                 *)
Connect(t) ==
  /\ Command /\ t \notin connected
  /\ connected' = connected \cup {t}
  /\ SubsCleared(t)
  /\ NoBulkChange
  /\ UNCHANGED <<measVars, s_fault_reported>>

OwnerLeaves_never(t) == FALSE
OwnerLeaves(t) == ~BulkIdle /\ s_bulk.transport = t

Disconnect(t) ==
  /\ Command /\ t \in connected
  /\ connected' = connected \ {t}
  /\ SubsCleared(t)
  /\ IF OwnerLeaves(t) THEN BulkAbort ELSE NoBulkChange
  /\ UNCHANGED <<measVars, s_fault_reported>>

-----------------------------------------------------------------------------
(* task_api: bulk_pump, then api_zero_cal_apply_if_ready.                  *)

Sent(ready, pos) == IF ready THEN pos + 1 ELSE pos
BulkAfter(pos) ==
  IF pos = CapChunks THEN NoBulk ELSE [s_bulk EXCEPT !.phase = "sending", !.send_pos = pos]

AcquisitionDied_ignored == FALSE
AcquisitionDied == ~cap.done /\ ~s_running
CaptureDied  == s_bulk.phase = "capturing" /\ AcquisitionDied
PeerVanished == ~BulkIdle /\ s_bulk.transport \notin connected

BulkPump(ready) ==
  CASE BulkIdle -> NoBulkChange
    [] PeerVanished \/ CaptureDied -> BulkAbort
    [] s_bulk.phase = "sending" /\ ~PeerVanished ->
         s_bulk' = BulkAfter(Sent(ready, s_bulk.send_pos)) /\ UNCHANGED <<adcVars, accum, cap>>
    [] s_bulk.phase = "capturing" /\ ~PeerVanished /\ ~CaptureDied ->
         IF cap.done THEN CaptureEnd /\ s_bulk' = BulkAfter(Sent(ready, 0)) ELSE NoBulkChange

(* A settings save in progress leaves the result for the next time.        *)
ZeroCalApply ==
  \/ UNCHANGED zc
  \/ zc.phase = "result_ready" /\ zc' = [zc EXCEPT !.phase = "idle"]

ApiUpdate(ready) ==
  /\ Command
  /\ BulkPump(ready)
  /\ ZeroCalApply
  /\ UNCHANGED <<reading, disp, prec, s_fault_reported, g_disp_pstream_active, sub, connected>>

-----------------------------------------------------------------------------
Next ==
  \/ Frame \/ Sample \/ AdsFault \/ Clock
  \/ UpdateBegins \/ UpdateBatch \/ UpdateEnds
  \/ DemodStart \/ DemodStop \/ PowerTest \/ Reconfigure
  \/ ZeroCalStep1 \/ ZeroCalStep2 \/ ZeroCalCancel \/ PrecisionBegin \/ PrecisionCancel
  \/ \E t \in Transports :
       \/ StartBulk(t) \/ PhasorSubscribe(t) \/ PhasorUnsubscribe(t)
       \/ Connect(t) \/ Disconnect(t)
  \/ CancelBulk
  \/ \E ready \in BOOLEAN : ApiUpdate(ready)

Spec == Init /\ [][Next]_vars

(* The scheduler runs both tasks, time passes, a running ADC without a     *)
(* fault delivers frames and SysTick drains them, and the link of a        *)
(* connected host takes a chunk again and again.                           *)
Fairness ==
  /\ WF_vars(UpdateBegins) /\ WF_vars(UpdateBatch) /\ WF_vars(UpdateEnds)
  /\ WF_vars(Frame) /\ WF_vars(Sample) /\ WF_vars(Clock)
  /\ WF_vars(\E ready \in BOOLEAN : ApiUpdate(ready)) /\ SF_vars(ApiUpdate(TRUE))

FairSpec == Spec /\ Fairness

-----------------------------------------------------------------------------
(* Properties.                                                             *)

Measuring == s_running /\ ~cap.active

(* svc_displacement_stop: a reading is offered as valid only while the     *)
(* measurement runs, and all of its samples are from this very run, none   *)
(* from before a stop, a reconfiguration or out of a capture.              *)
ReadingIsLive == reading.ok => Measuring /\ reading.from = {run}

(* Both steps of a zero calibration are averages of one run: a stop, a     *)
(* fault or a reconfiguration in between has cancelled it                  *)
(* (svc_displacement.c:603).                                               *)
ZeroCalIsOneRun == zc.phase \notin {"idle", "result_ready"} => s_running /\ zc.run = run

(* A precision result comes from a full window of batches without a gap,   *)
(* all of them processed since it was triggered.                           *)
PrecisionIsContiguous ==
  prec.phase = "done" /\ ~prec.failed => prec.since = Window

(* A precision measurement ends, even when the samples stop coming or show *)
(* no excitation, unless it is triggered again and again.                  *)
PrecisionEnds ==
  <>[][~PrecisionBegin]_vars => (prec.phase = "running" ~> prec.phase # "running")

(* A zero calibration does not hang in a running step: it is fed until the *)
(* step is over, or cancelled with what feeds it.                          *)
ZcRunning == zc.phase \in {"step1_running", "step2_running"}
ZeroCalEnds == ZcRunning ~> ~ZcRunning

(* A bulk transfer belongs to a connected host: nothing is left captured   *)
(* for one that is gone.                                                   *)
BulkHasPeer == ~BulkIdle => s_bulk.transport \in connected

(* What is sent is one whole capture of one run, and stays so while it is  *)
(* being sent.                                                             *)
SentCaptureIsWhole ==
  s_bulk.phase = "sending" =>
    /\ ~cap.active
    /\ cap.done /\ cap.idx = CapSamples /\ Cardinality(cap.from) = 1

(* The phasor tap does not stay on for nobody.                             *)
TapHasSubscriber == g_disp_pstream_active => sub # {}

(* What a host armed, a capture or the tap, is released with the host: by  *)
(* whichever of disconnect, cancel and the pump meets it first, and        *)
(* without touching what the other host armed (svc_api_res_stream.c:226).  *)
HeldForSomebody == BulkHasPeer /\ TapHasSubscriber

(* A bulk transfer ends, whatever happens to the acquisition once: a fault *)
(* in the middle of the capture is reported, stops the ADC, and the pump   *)
(* sees that the acquisition died.                                         *)
BulkEnds == ~BulkIdle ~> BulkIdle

(* docs/api-v3-spec.md section 7: the ADC has one owner.                   *)
Ownership == INSTANCE AdcOwner WITH
  owner <- IF cap.active THEN "capture" ELSE IF s_running THEN "demodulation" ELSE "nobody"
OneOwner == Ownership!Spec

(* What the comments of the code say and the runs refute.                  *)

(* svc_api_res_stream.c:119 "the acquisition died while the buffer was     *)
(* still filling (an ADC integrity fault stops it)": every fault does.     *)
BulkSurvivesFaults == BulkEnds

(* svc_api_res_stream.c:162 "only one subscriber at a time".               *)
OneSubscriber == Cardinality(sub) <= 1

(* docs/api-v3-spec.md:160: the phasor stream owns the ADC, "Starting or    *)
(* stopping the demodulation while a capture or the stream is active       *)
(* answers BUSY_EXCLUSIVE": an active stream has a measurement to tap.     *)
StreamOwnsTheAdc == g_disp_pstream_active => Measuring

(* svc_displacement.c:598 disp_ok is "have a currently-valid measurement". *)
NoReadingWhileStopped == ReadingIsLive

(* svc_displacement.c:775: a running zero calibration "must not hang in    *)
(* its RUNNING phase".                                                     *)
ZeroCalNeverHangs == ZeroCalEnds
=============================================================================
