------------------------- MODULE DisplacementProofs -------------------------
(***************************************************************************)
(* Proofs about Displacement for every size, limit, set of transports and  *)
(* set of uses: who owns the ADC, for whom, and from which run of the      *)
(* driver the samples of a reading, a calibration or a capture come.       *)
(***************************************************************************)
EXTENDS Displacement, SequenceTheorems, FiniteSetTheorems, TLAPS

-----------------------------------------------------------------------------
(* The types.                                                              *)

(* A remainder is in range.                                                *)
LEMMA ModRange ==
  ASSUME NEW N \in Nat \ {0}, NEW a \in Int PROVE a % N \in 0 .. N - 1
  OBVIOUS

(* The records of the procedures, field by field.                          *)
LEMMA ZeroCalForm ==
  ASSUME NEW z \in ZeroCals
  PROVE  z.phase \in ZcPhases /\ z.count \in 0 .. ZcSamples /\ z.run \in Runs
  BY DEF ZeroCals
LEMMA PrecisionForm ==
  ASSUME NEW p \in Precisions
  PROVE  /\ p.phase \in {"idle", "running", "done"} /\ p.fill \in 0 .. Window
         /\ p.since \in 0 .. Window /\ p.elapsed \in 0 .. Timeout /\ p.failed \in BOOLEAN
  BY DEF Precisions

(* What start, stop and the cancels reset to is well typed.                *)
LEMMA ResetTypes ==
  ASSUME TypeOK
  PROVE  /\ AccumReset \in Accums /\ Len(AccumReset.ring) < RingDepth
         /\ NoReading \in [ok : BOOLEAN, from : SUBSET Runs]
         /\ NoWindow \in [have_seq : BOOLEAN, last_seq : Seqs, count : 0 .. Window]
         /\ ZcIdle \in ZeroCals /\ PrecIdle \in Precisions /\ NoBulk \in Transfers
<1>1. AccumReset \in Accums /\ Len(AccumReset.ring) < RingDepth
  <2>1. <<>> \in Seq(Batches) /\ Len(<<>>) = 0
    OBVIOUS
  <2> QED BY <2>1, SizesAssumption DEF AccumReset, Accums, Seqs, Runs
<1>2. /\ NoReading \in [ok : BOOLEAN, from : SUBSET Runs]
      /\ NoWindow \in [have_seq : BOOLEAN, last_seq : Seqs, count : 0 .. Window]
  BY SizesAssumption DEF NoReading, NoWindow, Seqs
<1>3. ZcIdle \in ZeroCals
  <2>1. zc \in ZeroCals /\ 0 \in 0 .. ZcSamples /\ "idle" \in ZcPhases
    BY SizesAssumption DEF TypeOK, ZcPhases
  <2> QED BY <2>1 DEF ZcIdle, ZeroCals
<1>4. PrecIdle \in Precisions
  <2>1. prec \in Precisions /\ 0 \in 0 .. Window /\ 0 \in 0 .. Timeout
    BY SizesAssumption DEF TypeOK
  <2> QED BY <2>1 DEF PrecIdle, Precisions
<1>5. NoBulk \in Transfers
  BY SizesAssumption DEF NoBulk, Transfers
<1> QED BY <1>1, <1>2, <1>3, <1>4, <1>5

(* on_sample keeps the batch ring within RingDepth - 1 batches.            *)
LEMMA AccumTypes ==
  ASSUME TypeOK, NEW k \in 0 .. MaxUnread
  PROVE  AccumAfter(k) \in Accums /\ Len(AccumAfter(k).ring) < RingDepth
<1>1. /\ accum \in Accums /\ Len(accum.ring) < RingDepth /\ Len(accum.ring) \in Nat
      /\ run \in Runs
      /\ BatchSamples \in Nat \ {0} /\ MaxUnread \in 1 .. BatchSamples
      /\ SeqRange \in Nat \ {0} /\ MaxDrops \in Nat /\ RingDepth \in Nat
  BY SizesAssumption DEF TypeOK, Accums
<1> DEFINE n == accum.n + k
           from == IF k > 0 THEN accum.from \cup {run} ELSE accum.from
<1>2. /\ accum.n \in 0 .. BatchSamples - 1 /\ accum.seq \in Seqs /\ n \in Nat
      /\ accum.dropped \in 0 .. MaxDrops + 1 /\ accum.ring \in Seq(Batches)
      /\ from \in SUBSET Runs /\ n < 2 * BatchSamples
  BY <1>1 DEF Accums
<1> HIDE DEF n, from
<1>3. CASE n < BatchSamples
  <2>1. AccumAfter(k) = [accum EXCEPT !.n = n, !.from = from]
    BY <1>3 DEF AccumAfter, n, from
  <2>2. n \in 0 .. BatchSamples - 1
    BY <1>1, <1>2, <1>3
  <2> QED BY <1>1, <1>2, <2>1, <2>2 DEF Accums
<1>4. CASE ~(n < BatchSamples)
  <2> DEFINE rest == n - BatchSamples
             batch == [seq |-> accum.seq, from |-> from, gap |-> accum.dropped > 0]
  <2>1. rest \in 0 .. BatchSamples - 1
    BY <1>1, <1>2, <1>4
  <2>2. batch \in Batches
    BY <1>2 DEF Batches
  <2>3. Append(accum.ring, batch) \in Seq(Batches)
        /\ Len(Append(accum.ring, batch)) = Len(accum.ring) + 1
    BY <1>2, <2>2, AppendProperties
  <2>4. (accum.seq + 1) % SeqRange \in Seqs
    <3>1. accum.seq + 1 \in Int
      BY <1>1, <1>2 DEF Seqs
    <3> QED BY <1>1, <3>1, ModRange DEF Seqs
  <2>5. AccumAfter(k) = HandedOff(rest, from)
    BY <1>4 DEF AccumAfter, n, from
  <2> HIDE DEF rest
  <2>6. (IF rest > 0 THEN {run} ELSE {}) \in SUBSET Runs
    BY <1>1
  <2>7. CASE RingFull
    <3>1. HandedOff(rest, from)
            = [n |-> rest, from |-> IF rest > 0 THEN {run} ELSE {},
               seq |-> (accum.seq + 1) % SeqRange, ring |-> accum.ring,
               dropped |-> Least(accum.dropped + 1, MaxDrops + 1)]
      BY <2>7 DEF HandedOff
    <3>2. Least(accum.dropped + 1, MaxDrops + 1) \in 0 .. MaxDrops + 1
      BY <1>1, <1>2 DEF Least
    <3> QED BY <1>1, <1>2, <2>1, <2>4, <2>5, <2>6, <3>1, <3>2 DEF Accums
  <2>8. CASE ~RingFull
    <3>1. HandedOff(rest, from)
            = [n |-> rest, from |-> IF rest > 0 THEN {run} ELSE {},
               seq |-> (accum.seq + 1) % SeqRange, ring |-> Append(accum.ring, batch),
               dropped |-> 0]
      BY <2>8 DEF HandedOff
    <3>2. Len(accum.ring) + 1 < RingDepth
      BY <1>1, <2>8 DEF RingFull
    <3> QED BY <1>1, <2>1, <2>3, <2>4, <2>5, <2>6, <3>1, <3>2 DEF Accums
  <2> QED BY <2>7, <2>8
<1> QED BY <1>3, <1>4

(* A capture stays within its buffer.                                      *)
LEMMA CapTypes ==
  ASSUME TypeOK, NEW k \in Nat
  PROVE  CapAfter(k) \in Captures
<1>1. /\ cap \in Captures /\ cap.idx \in 0 .. CapSamples
      /\ run \in Runs /\ CapSamples \in Nat
  BY SizesAssumption DEF TypeOK, Captures
<1> DEFINE idx  == Least(cap.idx + k, CapSamples)
           done == cap.done \/ (cap.idx < CapSamples /\ idx = CapSamples)
           from == IF idx > cap.idx THEN cap.from \cup {run} ELSE cap.from
<1>2. idx \in 0 .. CapSamples /\ done \in BOOLEAN /\ from \in SUBSET Runs
  BY <1>1 DEF Least, Captures
<1>3. CapAfter(k) = [cap EXCEPT !.idx = idx, !.done = done, !.from = from]
  BY DEF CapAfter
<1> HIDE DEF idx, done, from
<1> QED BY <1>1, <1>2, <1>3 DEF Captures

(* A run of the driver begins.                                             *)
LEMMA DrvStartTypes ==
  ASSUME TypeOK, DrvStart
  PROVE  /\ s_running' \in BOOLEAN /\ ads_fault' \in BOOLEAN
         /\ unread' \in 0 .. MaxUnread /\ run' \in Runs
<1>1. run + 1 \in Int /\ RunLabels \in Nat \ {0} /\ 0 \in 0 .. MaxUnread
  BY SizesAssumption DEF TypeOK, Runs
<1>2. (run + 1) % RunLabels \in Runs
  BY <1>1, ModRange DEF Runs
<1> QED BY <1>1, <1>2 DEF DrvStart

(* The types by the part of the program that changes the variables, with   *)
(* what else bounds the counters: a running step of the calibration still  *)
(* counts, and a transfer that sends has chunks left.                      *)
AdcTypes ==
  /\ s_running \in BOOLEAN /\ ads_fault \in BOOLEAN
  /\ unread \in 0 .. MaxUnread /\ run \in Runs
  /\ accum \in Accums /\ Len(accum.ring) < RingDepth
  /\ cap \in Captures
ZcCounts == zc.phase \in {"step1_running", "step2_running"} => zc.count < ZcSamples
MeasTypes ==
  /\ reading \in [ok : BOOLEAN, from : SUBSET Runs]
  /\ disp \in [have_seq : BOOLEAN, last_seq : Seqs, count : 0 .. Window]
  /\ zc \in ZeroCals /\ ZcCounts
  /\ prec \in Precisions
PaceTypes ==
  /\ faults \in 0 .. MaxFaults /\ turn \in 0 .. MaxPerTick + 1
  /\ s_fault_reported \in BOOLEAN
ApiTypes ==
  /\ g_disp_pstream_active \in BOOLEAN
  /\ s_bulk \in Transfers /\ (s_bulk.phase = "sending" => s_bulk.send_pos < CapChunks)
  /\ sub \subseteq Transports /\ connected \subseteq Transports
TypeInv == AdcTypes /\ MeasTypes /\ PaceTypes /\ ApiTypes

LEMMA TypeInvIsTypeOK == TypeInv => TypeOK
  BY DEF TypeInv, TypeOK, AdcTypes, MeasTypes, PaceTypes, ApiTypes

(* What a step leaves alone keeps its type.                                *)
LEMMA AdcSame  == AdcTypes /\ UNCHANGED <<adcVars, accum, cap>> => AdcTypes'
  BY DEF AdcTypes, adcVars
LEMMA MeasSame == MeasTypes /\ UNCHANGED measVars => MeasTypes'
  BY DEF MeasTypes, measVars, ZcCounts
LEMMA PaceSame == PaceTypes /\ UNCHANGED <<faults, turn, s_fault_reported>> => PaceTypes'
  BY DEF PaceTypes
LEMMA ApiSame  == ApiTypes /\ UNCHANGED <<g_disp_pstream_active, apiVars>> => ApiTypes'
  BY DEF ApiTypes, apiVars

LEMMA ZcIdleCounts == TypeOK /\ zc' = ZcIdle => ZcCounts'
<1> SUFFICES ASSUME TypeOK, zc' = ZcIdle PROVE zc'.phase = "idle"
  BY DEF ZcCounts
<1> QED BY DEF TypeOK, ZcIdle, ZeroCals

(* The four service calls.                                                 *)
LEMMA StartTypes ==
  ASSUME TypeInv, Start, UNCHANGED cap
  PROVE  AdcTypes' /\ MeasTypes' /\ s_fault_reported' \in BOOLEAN
<1>1. /\ s_running' \in BOOLEAN /\ ads_fault' \in BOOLEAN
      /\ unread' \in 0 .. MaxUnread /\ run' \in Runs
  BY DrvStartTypes, TypeInvIsTypeOK DEF Start
<1>2. AdcTypes'
  BY <1>1, ResetTypes, TypeInvIsTypeOK DEF Start, AdcTypes, TypeInv
<1>3. MeasTypes'
  BY ResetTypes, ZcIdleCounts, TypeInvIsTypeOK DEF Start, MeasTypes
<1> QED BY <1>2, <1>3 DEF Start

LEMMA StopTypes ==
  ASSUME TypeInv, Stop, UNCHANGED disp PROVE AdcTypes' /\ MeasTypes'
<1>1. unread \in 0 .. MaxUnread /\ unread \in Nat /\ 0 \in 0 .. MaxUnread
  BY SizesAssumption DEF TypeInv, AdcTypes
<1>2. cap' \in Captures
  BY <1>1, CapTypes, TypeInvIsTypeOK DEF Stop, TypeOK
<1>3. AdcTypes'
  BY <1>1, <1>2, ResetTypes, TypeInvIsTypeOK
     DEF Stop, StopAccum, DrvStopped, AdcTypes, TypeInv
<1>4. MeasTypes'
  BY ResetTypes, ZcIdleCounts, TypeInvIsTypeOK DEF Stop, StopZc, MeasTypes, TypeInv
<1> QED BY <1>3, <1>4

LEMMA CaptureBeginTypes ==
  ASSUME TypeInv, CaptureBegin, UNCHANGED accum PROVE AdcTypes'
<1>1. CaptureCleared \in Captures
  BY SizesAssumption DEF CaptureCleared, Captures
<1>2. CASE s_running
  BY <1>1, <1>2 DEF CaptureBegin, AdcTypes, adcVars, TypeInv
<1>3. CASE ~s_running
  <2>1. /\ s_running' \in BOOLEAN /\ ads_fault' \in BOOLEAN
        /\ unread' \in 0 .. MaxUnread /\ run' \in Runs
    BY <1>3, DrvStartTypes, TypeInvIsTypeOK DEF CaptureBegin
  <2> QED BY <1>1, <2>1 DEF CaptureBegin, AdcTypes, TypeInv
<1> QED BY <1>2, <1>3

LEMMA CaptureEndTypes ==
  ASSUME TypeInv, CaptureEnd PROVE AdcTypes'
<1>1. unread \in 0 .. MaxUnread /\ 0 \in 0 .. MaxUnread
  BY SizesAssumption DEF TypeInv, AdcTypes
<1>2. AccumAfter(unread) \in Accums /\ Len(AccumAfter(unread).ring) < RingDepth
  BY <1>1, AccumTypes, TypeInvIsTypeOK
<1>3. [cap EXCEPT !.active = FALSE] \in Captures
  BY DEF TypeInv, AdcTypes, Captures
<1> QED BY <1>1, <1>2, <1>3 DEF CaptureEnd, DrvStopped, AdcTypes, TypeInv

(* A batch is processed.                                                   *)
LEMMA ZcFedTypes ==
  ASSUME TypeOK, ZcCounts
  PROVE  /\ ZcFed \in ZeroCals
         /\ ZcFed.phase \in {"step1_running", "step2_running"} => ZcFed.count < ZcSamples
<1>1. /\ zc \in ZeroCals /\ zc.phase \in ZcPhases /\ zc.run \in Runs
      /\ zc.count \in 0 .. ZcSamples /\ ZcSamples \in Nat \ {0}
  BY SizesAssumption, ZeroCalForm DEF TypeOK
<1>2. CASE zc.phase \notin {"step1_running", "step2_running"}
  BY <1>1, <1>2 DEF ZcFed
<1>3. ASSUME NEW next \in {"step1_done", "result_ready"},
             zc.phase \in {"step1_running", "step2_running"},
             ZcFed = [zc EXCEPT !.count = @ + 1,
                                !.phase = IF zc.count + 1 = ZcSamples THEN next ELSE @]
      PROVE  /\ ZcFed \in ZeroCals
             /\ ZcFed.phase \in {"step1_running", "step2_running"} => ZcFed.count < ZcSamples
  <2> DEFINE p == IF zc.count + 1 = ZcSamples THEN next ELSE zc.phase
             c == zc.count + 1
  <2>1. c \in 0 .. ZcSamples /\ p \in ZcPhases
    BY <1>1, <1>3 DEF ZcCounts, ZcPhases
  <2>2. ZcFed = [zc EXCEPT !.count = c, !.phase = p]
    BY <1>3
  <2>3. p \in {"step1_running", "step2_running"} => c < ZcSamples
    BY <1>1, <1>3 DEF ZcCounts
  <2> HIDE DEF p, c
  <2>4. ZcFed \in ZeroCals /\ ZcFed.phase = p /\ ZcFed.count = c
    BY <1>1, <2>1, <2>2 DEF ZeroCals
  <2> QED BY <2>3, <2>4
<1>4. CASE zc.phase = "step1_running"
  BY <1>3, <1>4 DEF ZcFed
<1>5. CASE zc.phase = "step2_running"
  BY <1>3, <1>5 DEF ZcFed
<1> QED BY <1>2, <1>4, <1>5

LEMMA PrecFedTypes ==
  ASSUME TypeOK, NEW batch \in Batches, NEW accepted \in BOOLEAN
  PROVE  PrecFed(batch, accepted) \in Precisions
<1>1. /\ prec \in Precisions /\ prec.phase \in {"idle", "running", "done"}
      /\ prec.fill \in 0 .. Window /\ prec.since \in 0 .. Window
      /\ prec.elapsed \in 0 .. Timeout /\ prec.failed \in BOOLEAN
      /\ Window \in Nat \ {0}
  BY SizesAssumption, PrecisionForm DEF TypeOK
<1> DEFINE kept == IF Contiguous(batch) THEN prec.fill ELSE 0
           f == Least(kept + 1, Window)
           s == IF batch.gap THEN 1 ELSE Least(prec.since + 1, Window)
<1>2. kept \in 0 .. Window /\ f \in 0 .. Window /\ s \in 0 .. Window
  BY <1>1 DEF Least
<1> DEFINE fed == [prec EXCEPT !.fill = f, !.since = s]
<1>3. PrecFed(batch, accepted)
        \in {[prec EXCEPT !.fill = kept], fed,
             [fed EXCEPT !.phase = "done", !.failed = FALSE],
             [fed EXCEPT !.phase = "done", !.failed = TRUE]}
  BY DEF PrecFed
<1> HIDE DEF kept, f, s
<1>4. fed \in Precisions /\ [prec EXCEPT !.fill = kept] \in Precisions
  BY <1>1, <1>2 DEF Precisions
<1> HIDE DEF fed
<1>5. ASSUME NEW b \in BOOLEAN
      PROVE  [fed EXCEPT !.phase = "done", !.failed = b] \in Precisions
  BY <1>4 DEF Precisions
<1> QED BY <1>3, <1>4, <1>5

LEMMA BatchTypes ==
  ASSUME TypeInv, NEW batch \in Batches, GoodBatch(batch) \/ DegenerateBatch
  PROVE  MeasTypes'
<1>1. MeasTypes /\ Window \in Nat \ {0} /\ TypeOK /\ ZcCounts
  BY SizesAssumption, TypeInvIsTypeOK DEF TypeInv, MeasTypes
<1>2. CASE GoodBatch(batch)
  <2>1. PICK accepted \in BOOLEAN :
          /\ disp' = [have_seq |-> TRUE, last_seq |-> batch.seq, count |-> CountAfter(batch)]
          /\ reading' = [ok |-> TRUE, from |-> batch.from]
          /\ zc' = ZcFed
          /\ prec' = PrecFed(batch, accepted)
    BY <1>2 DEF GoodBatch
  <2>2. CountAfter(batch) \in 0 .. Window
    BY <1>1 DEF CountAfter, Least, MeasTypes
  <2>3. zc' \in ZeroCals /\ ZcCounts' /\ prec' \in Precisions
    BY <1>1, <2>1, ZcFedTypes, PrecFedTypes DEF ZcCounts
  <2> QED BY <2>1, <2>2, <2>3 DEF MeasTypes, Batches
<1>3. CASE DegenerateBatch
  <2>1. [disp EXCEPT !.have_seq = FALSE]
          \in [have_seq : BOOLEAN, last_seq : Seqs, count : 0 .. Window]
    BY <1>1 DEF MeasTypes
  <2>2. [prec EXCEPT !.since = IF prec.phase = "running" THEN 0 ELSE @] \in Precisions
    BY <1>1 DEF MeasTypes, Precisions
  <2> QED BY <1>1, <1>3, <2>1, <2>2, ResetTypes DEF DegenerateBatch, MeasTypes, ZcCounts
<1> QED BY <1>2, <1>3
-----------------------------------------------------------------------------
(* Every step keeps the types.                                             *)
LEMMA InitTypes == Init => TypeInv
<1> SUFFICES ASSUME Init PROVE TypeInv
  OBVIOUS
<1>1. /\ 0 \in 0 .. MaxUnread /\ 0 \in Runs /\ 0 \in Seqs /\ 0 \in 0 .. MaxFaults
      /\ 0 \in 0 .. MaxPerTick + 1 /\ 0 \in 0 .. CapSamples /\ 0 \in 0 .. CapChunks
      /\ 0 \in 0 .. BatchSamples - 1 /\ 0 \in 0 .. MaxDrops + 1 /\ 0 < RingDepth
      /\ 0 \in 0 .. ZcSamples /\ 0 \in 0 .. Window /\ 0 \in 0 .. Timeout
  BY SizesAssumption DEF Runs, Seqs
<1>2. accum \in Accums /\ Len(accum.ring) < RingDepth
  <2>1. <<>> \in Seq(Batches) /\ Len(<<>>) = 0
    OBVIOUS
  <2> QED BY <1>1, <2>1 DEF Init, AccumReset, Accums
<1>3. cap \in Captures /\ zc \in ZeroCals /\ prec \in Precisions /\ s_bulk \in Transfers
  BY <1>1 DEF Init, Captures, ZeroCals, ZcPhases, Precisions, NoBulk, Transfers
<1>4. MeasTypes
  BY <1>1, <1>3 DEF Init, NoReading, NoWindow, MeasTypes, ZcCounts
<1>5. AdcTypes /\ PaceTypes
  BY <1>1, <1>2, <1>3 DEF Init, AdcTypes, PaceTypes
<1>6. ApiTypes
  BY <1>1, <1>3 DEF Init, NoBulk, ApiTypes
<1> QED BY <1>4, <1>5, <1>6 DEF TypeInv

(* The driver, SysTick and the clock.                                      *)
LEMMA HardwareTypes ==
  ASSUME TypeInv, Frame \/ Sample \/ AdsFault \/ Clock PROVE TypeInv'
<1>1. AdcTypes /\ MeasTypes /\ PaceTypes /\ ApiTypes /\ TypeOK
  BY TypeInvIsTypeOK DEF TypeInv
<1>2. CASE Frame
  <2>1. unread' \in 0 .. MaxUnread
    BY <1>1, <1>2, SizesAssumption DEF Frame, AdcTypes
  <2>2. AdcTypes'
    BY <1>1, <1>2, <2>1 DEF Frame, AdcTypes
  <2> QED BY <1>1, <1>2, <2>2, MeasSame, PaceSame, ApiSame DEF Frame, TypeInv
<1>3. CASE Sample
  <2>1. unread' \in 0 .. MaxUnread /\ 1 \in 0 .. MaxUnread
    BY <1>1, <1>3, SizesAssumption DEF Sample, AdcTypes
  <2>2. accum' \in Accums /\ Len(accum'.ring) < RingDepth /\ cap' \in Captures
    BY <1>1, <1>3, <2>1, AccumTypes, CapTypes DEF Sample, OnSamples, AdcTypes
  <2>3. AdcTypes'
    BY <1>1, <1>3, <2>1, <2>2 DEF Sample, AdcTypes
  <2> QED BY <1>1, <1>3, <2>3, MeasSame, PaceSame, ApiSame DEF Sample, TypeInv
<1>4. CASE AdsFault
  <2>1. faults' \in 0 .. MaxFaults
    BY <1>1, <1>4, SizesAssumption DEF AdsFault, PaceTypes
  <2>2. AdcTypes' /\ PaceTypes'
    BY <1>1, <1>4, <2>1 DEF AdsFault, AdcTypes, PaceTypes
  <2> QED BY <1>1, <1>4, <2>2, MeasSame, ApiSame DEF AdsFault, TypeInv
<1>5. CASE Clock
  <2>1. prec \in Precisions /\ prec.elapsed + 1 \in 0 .. Timeout
    BY <1>1, <1>5, SizesAssumption, PrecisionForm DEF Clock, MeasTypes
  <2>2. prec' \in Precisions
    BY <1>5, <2>1 DEF Clock, Precisions
  <2>3. MeasTypes'
    BY <1>1, <1>5, <2>2 DEF Clock, MeasTypes, ZcCounts
  <2> QED BY <1>1, <1>5, <2>3, AdcSame, PaceSame, ApiSame DEF Clock, TypeInv
<1> QED BY <1>2, <1>3, <1>4, <1>5

(* task_displacement.                                                      *)
LEMMA UpdateTypes ==
  ASSUME TypeInv, UpdateBegins \/ UpdateBatch \/ UpdateEnds PROVE TypeInv'
<1>1. AdcTypes /\ MeasTypes /\ PaceTypes /\ ApiTypes
  BY DEF TypeInv
<1>2. CASE UpdateBegins
  <2>1. turn' \in 0 .. MaxPerTick + 1
    BY <1>2, SizesAssumption DEF UpdateBegins
  <2>2. PaceTypes'
    BY <1>1, <1>2, <2>1 DEF UpdateBegins, PaceTypes
  <2> QED BY <1>1, <1>2, <2>2, AdcSame, MeasSame, ApiSame DEF UpdateBegins, TypeInv
<1>3. CASE UpdateBatch
  <2>1. turn' \in 0 .. MaxPerTick + 1
    <3>1. turn > 1 /\ turn' = turn - 1
      BY <1>3 DEF UpdateBatch
    <3>2. turn \in 0 .. MaxPerTick + 1 /\ MaxPerTick \in Nat
      BY <1>1, SizesAssumption DEF PaceTypes
    <3> QED BY <3>1, <3>2
  <2>2. /\ accum.ring \in Seq(Batches) /\ accum.ring # <<>>
        /\ Head(accum.ring) \in Batches /\ Tail(accum.ring) \in Seq(Batches)
        /\ Len(Tail(accum.ring)) = Len(accum.ring) - 1 /\ Len(accum.ring) \in Nat
    <3>1. accum.ring \in Seq(Batches) /\ accum.ring # <<>>
      BY <1>1, <1>3 DEF UpdateBatch, AdcTypes, Accums
    <3> QED BY <3>1, HeadTailProperties
  <2>3. accum' \in Accums /\ Len(accum'.ring) < RingDepth
    <3>1. accum' = [accum EXCEPT !.ring = Tail(accum.ring)]
      BY <1>3 DEF UpdateBatch
    <3>2. accum' \in Accums /\ accum'.ring = Tail(accum.ring)
      BY <1>1, <2>2, <3>1 DEF AdcTypes, Accums
    <3> QED BY <1>1, <2>2, <3>2, SizesAssumption DEF AdcTypes
  <2>4. MeasTypes'
    BY <1>3, <2>2, BatchTypes DEF UpdateBatch
  <2>5. AdcTypes' /\ PaceTypes'
    BY <1>1, <1>3, <2>1, <2>3 DEF UpdateBatch, AdcTypes, PaceTypes, adcVars
  <2> QED BY <1>1, <1>3, <2>4, <2>5, ApiSame DEF UpdateBatch, TypeInv
<1>4. CASE UpdateEnds
  <2>1. 0 \in 0 .. MaxPerTick + 1
    BY SizesAssumption
  <2>2. CASE ads_fault /\ ~s_fault_reported
    <3>1. AdcTypes' /\ MeasTypes'
      BY <1>4, <2>2, StopTypes DEF UpdateEnds
    <3>2. PaceTypes' /\ ApiTypes'
      BY <1>1, <1>4, <2>1, <2>2 DEF UpdateEnds, PaceTypes, ApiTypes, apiVars
    <3> QED BY <3>1, <3>2 DEF TypeInv
  <2>3. CASE ~(ads_fault /\ ~s_fault_reported)
    <3>1. Polled \in Precisions
      BY <1>1 DEF Polled, PrecFailed, MeasTypes, Precisions
    <3>2. MeasTypes'
      BY <1>1, <1>4, <2>3, <3>1 DEF UpdateEnds, MeasTypes, ZcCounts
    <3>3. PaceTypes'
      BY <1>1, <1>4, <2>1, <2>3 DEF UpdateEnds, PaceTypes
    <3> QED BY <1>1, <1>4, <2>3, <3>2, <3>3, AdcSame, ApiSame DEF UpdateEnds, TypeInv
  <2> QED BY <2>2, <2>3
<1> QED BY <1>2, <1>3, <1>4

(* TILT_DEMOD, POWER_TEST and the reconfigurations.                        *)
LEMMA DemodTypes ==
  ASSUME TypeInv, DemodStart \/ DemodStop \/ PowerTest \/ Reconfigure PROVE TypeInv'
<1>1. AdcTypes /\ MeasTypes /\ PaceTypes /\ ApiTypes
  BY DEF TypeInv
<1>2. CASE DemodStart
  <2>1. AdcTypes' /\ MeasTypes' /\ s_fault_reported' \in BOOLEAN
    BY <1>2, StartTypes DEF DemodStart
  <2>2. PaceTypes'
    BY <1>1, <1>2, <2>1 DEF DemodStart, Command, PaceTypes
  <2> QED BY <1>1, <1>2, <2>1, <2>2, ApiSame DEF DemodStart, TypeInv
<1>3. CASE DemodStop
  <2>1. AdcTypes' /\ MeasTypes'
    BY <1>3, StopTypes DEF DemodStop
  <2> QED BY <1>1, <1>3, <2>1, PaceSame, ApiSame DEF DemodStop, Command, TypeInv
<1>4. CASE PowerTest
  <2>1. AdcTypes' /\ MeasTypes'
    BY <1>4, StopTypes DEF PowerTest
  <2> QED BY <1>1, <1>4, <2>1, PaceSame, ApiSame DEF PowerTest, Command, TypeInv
<1>5. CASE Reconfigure
  <2>1. CASE s_running
    <3>1. AdcTypes' /\ MeasTypes' /\ s_fault_reported' \in BOOLEAN
      BY <1>5, <2>1, StartTypes DEF Reconfigure
    <3>2. PaceTypes'
      BY <1>1, <1>5, <3>1 DEF Reconfigure, Command, PaceTypes
    <3> QED BY <1>1, <1>5, <3>1, <3>2, ApiSame DEF Reconfigure, TypeInv
  <2>2. CASE ~s_running
    <3>1. AdcTypes'
      BY <1>1, <1>5, <2>2, ResetTypes, TypeInvIsTypeOK DEF Reconfigure, AdcTypes, adcVars
    <3> QED BY <1>1, <1>5, <2>2, <3>1, MeasSame, PaceSame, ApiSame
            DEF Reconfigure, Command, TypeInv
  <2> QED BY <2>1, <2>2
<1> QED BY <1>2, <1>3, <1>4, <1>5

(* The procedures.                                                         *)
ProcedureStep ==
  ZeroCalStep1 \/ ZeroCalStep2 \/ ZeroCalCancel \/ PrecisionBegin \/ PrecisionCancel

LEMMA ProcedureTypes ==
  ASSUME TypeInv, ProcedureStep PROVE TypeInv'
<1>1. AdcTypes /\ MeasTypes /\ PaceTypes /\ ApiTypes
  BY DEF TypeInv
<1>2. PICK use \in {"zero_cal", "precision"} : Procedure(use)
  BY DEF ProcedureStep, ZeroCalStep1, ZeroCalStep2, ZeroCalCancel, PrecisionBegin,
         PrecisionCancel
<1>3. AdcTypes' /\ PaceTypes' /\ ApiTypes'
  BY <1>1, <1>2, AdcSame, PaceSame, ApiSame DEF Procedure, Command
<1>4. UNCHANGED <<reading, disp>>
  BY <1>2 DEF Procedure
<1>5. 0 \in 0 .. ZcSamples /\ 0 < ZcSamples /\ 0 \in 0 .. Window /\ 0 \in 0 .. Timeout
  BY SizesAssumption
<1>6. zc' \in ZeroCals /\ ZcCounts'
  <2>1. CASE UNCHANGED zc
    BY <1>1, <2>1 DEF MeasTypes, ZcCounts
  <2>2. CASE zc' = ZcIdle
    BY <2>2, ResetTypes, ZcIdleCounts, TypeInvIsTypeOK
  <2>3. CASE ZeroCalStep1
    <3>1. zc' = [phase |-> "step1_running", count |-> 0, run |-> run] /\ run \in Runs
      BY <1>1, <2>3 DEF ZeroCalStep1, AdcTypes
    <3> QED BY <1>5, <3>1 DEF ZeroCals, ZcPhases, ZcCounts
  <2>4. CASE ZeroCalStep2
    <3>1. zc' = [zc EXCEPT !.phase = "step2_running", !.count = 0] /\ zc \in ZeroCals
      BY <1>1, <2>4 DEF ZeroCalStep2, MeasTypes
    <3> QED BY <1>5, <3>1 DEF ZeroCals, ZcPhases, ZcCounts
  <2> QED BY <2>1, <2>2, <2>3, <2>4 DEF ProcedureStep, ZeroCalCancel, PrecisionBegin,
                                        PrecisionCancel
<1>7. prec' \in Precisions
  <2>1. CASE UNCHANGED prec
    BY <1>1, <2>1 DEF MeasTypes
  <2>2. CASE prec' = PrecIdle
    BY <2>2, ResetTypes, TypeInvIsTypeOK
  <2>3. CASE PrecisionBegin
    BY <1>5, <2>3 DEF PrecisionBegin, Precisions
  <2> QED BY <2>1, <2>2, <2>3 DEF ProcedureStep, ZeroCalStep1, ZeroCalStep2, ZeroCalCancel,
                                  PrecisionCancel
<1>8. MeasTypes'
  BY <1>1, <1>4, <1>6, <1>7 DEF MeasTypes
<1> QED BY <1>3, <1>8 DEF TypeInv

(* What the transports and task_api do.                                    *)
LEMMA PhasorTypes ==
  ASSUME TypeInv, NEW t \in Transports, PhasorSubscribe(t) \/ PhasorUnsubscribe(t)
  PROVE  TypeInv'
<1>1. AdcTypes /\ MeasTypes /\ PaceTypes /\ ApiTypes
  BY DEF TypeInv
<1>2. CASE PhasorSubscribe(t)
  <2>1. ApiTypes'
    BY <1>1, <1>2 DEF PhasorSubscribe, ApiTypes
  <2>2. CASE s_running
    BY <1>1, <1>2, <2>1, <2>2, AdcSame, MeasSame, PaceSame
       DEF PhasorSubscribe, Command, TypeInv
  <2>3. CASE ~s_running
    <3>1. AdcTypes' /\ MeasTypes' /\ s_fault_reported' \in BOOLEAN
      BY <1>2, <2>3, StartTypes DEF PhasorSubscribe
    <3>2. PaceTypes'
      BY <1>1, <1>2, <3>1 DEF PhasorSubscribe, Command, PaceTypes
    <3> QED BY <2>1, <3>1, <3>2 DEF TypeInv
  <2> QED BY <2>2, <2>3
<1>3. CASE PhasorUnsubscribe(t)
  <2>1. ApiTypes'
    BY <1>1, <1>3 DEF PhasorUnsubscribe, SubsCleared, TapAfterLeaving, NoBulkChange, ApiTypes
  <2> QED BY <1>1, <1>3, <2>1, AdcSame, MeasSame, PaceSame
          DEF PhasorUnsubscribe, Command, NoBulkChange, TypeInv
<1> QED BY <1>2, <1>3

LEMMA LinkTypes ==
  ASSUME TypeInv, NEW t \in Transports, Connect(t) \/ Disconnect(t) PROVE TypeInv'
<1>1. AdcTypes /\ MeasTypes /\ PaceTypes /\ ApiTypes
  BY DEF TypeInv
<1>2. /\ UNCHANGED <<turn, faults, s_fault_reported, measVars>>
      /\ SubsCleared(t) /\ connected' \subseteq Transports
      /\ NoBulkChange \/ BulkAbort
  BY <1>1 DEF Connect, Disconnect, Command, ApiTypes
<1>3. MeasTypes' /\ PaceTypes'
  BY <1>1, <1>2, MeasSame, PaceSame
<1>4. AdcTypes'
  BY <1>1, <1>2, AdcSame, CaptureEndTypes DEF NoBulkChange, BulkAbort
<1>5. /\ s_bulk' \in Transfers
      /\ s_bulk'.phase = "sending" => s_bulk'.send_pos < CapChunks
  <2>1. CASE NoBulkChange
    BY <1>1, <2>1 DEF NoBulkChange, ApiTypes
  <2>2. CASE BulkAbort
    BY <2>2, ResetTypes, TypeInvIsTypeOK DEF BulkAbort, NoBulk
  <2> QED BY <1>2, <2>1, <2>2
<1>6. ApiTypes'
  BY <1>1, <1>2, <1>5 DEF SubsCleared, TapAfterLeaving, ApiTypes
<1> QED BY <1>3, <1>4, <1>6 DEF TypeInv

LEMMA BulkTypes ==
  ASSUME TypeInv, CancelBulk \/ \E t \in Transports : StartBulk(t) PROVE TypeInv'
<1>1. AdcTypes /\ MeasTypes /\ PaceTypes /\ ApiTypes
  BY DEF TypeInv
<1>2. CASE CancelBulk
  <2>1. AdcTypes'
    BY <1>2, CaptureEndTypes DEF CancelBulk, BulkAbort
  <2>2. /\ s_bulk' \in Transfers
        /\ s_bulk'.phase = "sending" => s_bulk'.send_pos < CapChunks
    BY <1>2, ResetTypes, TypeInvIsTypeOK DEF CancelBulk, BulkAbort, NoBulk
  <2>3. ApiTypes'
    BY <1>1, <1>2, <2>2 DEF CancelBulk, ApiTypes
  <2> QED BY <1>1, <1>2, <2>1, <2>3, MeasSame, PaceSame DEF CancelBulk, Command, TypeInv
<1>3. ASSUME NEW t \in Transports, StartBulk(t) PROVE TypeInv'
  <2>1. AdcTypes'
    BY <1>3, CaptureBeginTypes DEF StartBulk
  <2>2. [phase |-> "capturing", transport |-> t, send_pos |-> 0] \in Transfers
    BY SizesAssumption DEF Transfers
  <2>3. ApiTypes'
    BY <1>1, <1>3, <2>2 DEF StartBulk, ApiTypes
  <2> QED BY <1>1, <1>3, <2>1, <2>3, MeasSame, PaceSame DEF StartBulk, Command, TypeInv
<1> QED BY <1>2, <1>3

(* The pump's next transfer.                                               *)
LEMMA BulkAfterTypes ==
  ASSUME TypeInv, NEW pos \in 0 .. CapChunks
  PROVE  /\ BulkAfter(pos) \in Transfers
         /\ BulkAfter(pos).phase = "sending" => BulkAfter(pos).send_pos < CapChunks
<1>1. s_bulk \in Transfers /\ CapChunks \in Nat
  BY SizesAssumption DEF TypeInv, ApiTypes
<1>2. CASE pos = CapChunks
  BY <1>2, ResetTypes, TypeInvIsTypeOK DEF BulkAfter, NoBulk
<1>3. CASE pos # CapChunks
  <2>1. BulkAfter(pos) = [s_bulk EXCEPT !.phase = "sending", !.send_pos = pos]
    BY <1>3 DEF BulkAfter
  <2>2. BulkAfter(pos) \in Transfers /\ BulkAfter(pos).send_pos = pos
    BY <1>1, <2>1 DEF Transfers
  <2>3. pos < CapChunks
    BY <1>1, <1>3
  <2> QED BY <2>2, <2>3
<1> QED BY <1>2, <1>3

LEMMA PumpTypes ==
  ASSUME TypeInv, NEW ready \in BOOLEAN, ApiUpdate(ready) PROVE TypeInv'
<1>1. AdcTypes /\ MeasTypes /\ PaceTypes /\ ApiTypes /\ CapChunks \in Nat \ {0}
  BY SizesAssumption DEF TypeInv
<1>2. BulkPump(ready) /\ ZeroCalApply
  BY DEF ApiUpdate
<1>3. \/ NoBulkChange
      \/ BulkAbort
      \/ /\ s_bulk.phase = "sending"
         /\ s_bulk' = BulkAfter(Sent(ready, s_bulk.send_pos))
         /\ UNCHANGED <<adcVars, accum, cap>>
      \/ CaptureEnd /\ s_bulk' = BulkAfter(Sent(ready, 0))
  <2>1. s_bulk.phase \in {"idle", "capturing", "sending"}
    BY <1>1 DEF ApiTypes, Transfers
  <2> QED BY <1>2, <2>1 DEF BulkPump, BulkIdle
<1>4. AdcTypes'
  BY <1>1, <1>3, AdcSame, CaptureEndTypes DEF NoBulkChange, BulkAbort
<1>5. /\ s_bulk' \in Transfers
      /\ s_bulk'.phase = "sending" => s_bulk'.send_pos < CapChunks
  <2>1. CASE NoBulkChange
    BY <1>1, <2>1 DEF NoBulkChange, ApiTypes
  <2>2. CASE BulkAbort
    BY <2>2, ResetTypes, TypeInvIsTypeOK DEF BulkAbort, NoBulk
  <2>3. CASE /\ s_bulk.phase = "sending"
             /\ s_bulk' = BulkAfter(Sent(ready, s_bulk.send_pos))
    <3>1. s_bulk.send_pos \in 0 .. CapChunks - 1
      BY <1>1, <2>3 DEF ApiTypes, Transfers
    <3>2. Sent(ready, s_bulk.send_pos) \in 0 .. CapChunks
      BY <1>1, <3>1 DEF Sent
    <3> QED BY <2>3, <3>2, BulkAfterTypes
  <2>4. CASE s_bulk' = BulkAfter(Sent(ready, 0))
    <3>1. Sent(ready, 0) \in 0 .. CapChunks
      BY <1>1 DEF Sent
    <3> QED BY <2>4, <3>1, BulkAfterTypes
  <2> QED BY <1>3, <2>1, <2>2, <2>3, <2>4
<1>6. ApiTypes'
  BY <1>1, <1>5 DEF ApiUpdate, ApiTypes
<1>7. MeasTypes'
  <2>1. zc \in ZeroCals /\ [zc EXCEPT !.phase = "idle"] \in ZeroCals
    BY <1>1 DEF MeasTypes, ZeroCals, ZcPhases
  <2>2. zc' \in ZeroCals /\ ZcCounts'
    BY <1>1, <1>2, <2>1 DEF ZeroCalApply, MeasTypes, ZcCounts, ZeroCals
  <2> QED BY <1>1, <2>2 DEF ApiUpdate, MeasTypes
<1>8. PaceTypes'
  BY <1>1, PaceSame DEF ApiUpdate, Command
<1> QED BY <1>4, <1>6, <1>7, <1>8 DEF TypeInv

(* The type invariant is inductive.                                        *)
LEMMA TypeStep == TypeInv /\ [Next]_vars => TypeInv'
<1> SUFFICES ASSUME TypeInv, [Next]_vars PROVE TypeInv'
  OBVIOUS
<1>1. CASE Next
  BY <1>1, HardwareTypes, UpdateTypes, DemodTypes, ProcedureTypes, PhasorTypes, LinkTypes,
     BulkTypes, PumpTypes DEF Next, ProcedureStep
<1>2. CASE UNCHANGED vars
  BY <1>2, AdcSame, MeasSame, PaceSame, ApiSame DEF vars, TypeInv
<1> QED BY <1>1, <1>2

-----------------------------------------------------------------------------
(* Who holds the ADC, for whom, and whose samples the capture buffer has.  *)

(* The set of runs that n samples taken in this run of the driver are from.*)
OfThisRun(n) == IF n = 0 THEN {} ELSE {run}

(* The two variables that say that a capture is under way agree, a capture *)
(* and the tap have somebody they are for, what is sent is complete and    *)
(* the ADC is off then, and the buffer of a transfer was filled from the   *)
(* run the driver is in (or was last in).                                  *)
CaptureInv ==
  /\ s_bulk.phase = "capturing" <=> cap.active
  /\ HeldForSomebody
  /\ s_bulk.phase = "sending" => ~s_running /\ cap.done
  /\ cap.done => cap.idx = CapSamples
  /\ ~BulkIdle => cap.from = OfThisRun(cap.idx)
  /\ ~s_running => unread = 0

captureVars == <<s_running, unread, run, cap, g_disp_pstream_active, s_bulk, sub, connected>>

LEMMA CaptureSame == CaptureInv /\ UNCHANGED captureVars => CaptureInv'
  BY DEF CaptureInv, captureVars, HeldForSomebody, BulkHasPeer, TapHasSubscriber, BulkIdle,
         OfThisRun

(* disp_capture_store, sample by sample.                                   *)
LEMMA CapStored ==
  ASSUME TypeInv, NEW k \in Nat
  PROVE  /\ CapAfter(k).active = cap.active
         /\ (cap.done => cap.idx = CapSamples)
              => (CapAfter(k).done => CapAfter(k).idx = CapSamples)
         /\ cap.from = OfThisRun(cap.idx) => CapAfter(k).from = OfThisRun(CapAfter(k).idx)
<1>1. cap \in Captures /\ cap.idx \in 0 .. CapSamples /\ CapSamples \in Nat
  BY SizesAssumption DEF TypeInv, AdcTypes, Captures
<1> DEFINE idx  == Least(cap.idx + k, CapSamples)
           done == cap.done \/ (cap.idx < CapSamples /\ idx = CapSamples)
           from == IF idx > cap.idx THEN cap.from \cup {run} ELSE cap.from
<1>2. CapAfter(k) = [cap EXCEPT !.idx = idx, !.done = done, !.from = from]
  BY DEF CapAfter
<1>3. idx \in Nat /\ idx >= cap.idx /\ (cap.idx = CapSamples => idx = CapSamples)
  BY <1>1 DEF Least
<1>4. (cap.done => cap.idx = CapSamples) => (done => idx = CapSamples)
  BY <1>3
<1>5. cap.from = OfThisRun(cap.idx) => from = OfThisRun(idx)
  <2>1. CASE idx > cap.idx
    BY <1>1, <1>3, <2>1 DEF OfThisRun
  <2>2. CASE idx = cap.idx
    BY <1>1, <2>2 DEF OfThisRun
  <2> QED BY <1>1, <1>3, <2>1, <2>2
<1> HIDE DEF idx, done, from
<1>6. /\ CapAfter(k).active = cap.active /\ CapAfter(k).idx = idx
      /\ CapAfter(k).done = done /\ CapAfter(k).from = from
  BY <1>1, <1>2 DEF Captures
<1> QED BY <1>4, <1>5, <1>6

(* Samples stored, or flushed by a stop, while the transfers stay.         *)
LEMMA CaptureStores ==
  ASSUME TypeInv, CaptureInv, NEW k \in Nat,
         cap' = IF cap.active THEN CapAfter(k) ELSE cap,
         UNCHANGED <<run, apiVars>>,
         g_disp_pstream_active' => g_disp_pstream_active,
         s_running' => s_running, ~s_running' => unread' = 0
  PROVE  CaptureInv'
<1>1. CASE cap.active
  <2>1. cap' = CapAfter(k) /\ s_bulk.phase = "capturing"
    BY <1>1 DEF CaptureInv
  <2>2. cap'.active /\ (cap'.done => cap'.idx = CapSamples)
    BY <1>1, <2>1, CapStored DEF CaptureInv
  <2>3. cap'.from = OfThisRun(cap'.idx)
    BY <2>1, CapStored DEF CaptureInv, BulkIdle
  <2>4. cap'.from = (OfThisRun(cap.idx))'
    BY <2>3 DEF OfThisRun
  <2>5. HeldForSomebody'
    BY DEF CaptureInv, HeldForSomebody, BulkHasPeer, TapHasSubscriber, BulkIdle, apiVars
  <2> QED BY <2>1, <2>2, <2>4, <2>5 DEF CaptureInv, apiVars
<1>2. CASE ~cap.active
  BY <1>2 DEF CaptureInv, HeldForSomebody, BulkHasPeer, TapHasSubscriber, BulkIdle, apiVars,
              OfThisRun
<1> QED BY <1>1, <1>2

(* A run begins while there is no transfer.                                *)
LEMMA CaptureStarts ==
  ASSUME CaptureInv, BulkIdle, UNCHANGED <<cap, s_bulk, connected>>,
         s_running', TapHasSubscriber'
  PROVE  CaptureInv'
  BY DEF CaptureInv, HeldForSomebody, BulkHasPeer, BulkIdle

(* A transfer is over, or was aborted: it is idle and nothing captures.    *)
LEMMA CaptureEnds ==
  ASSUME TypeInv, CaptureInv, BulkAbort, TapHasSubscriber' PROVE CaptureInv'
<1>1. s_bulk'.phase = "idle"
  BY DEF BulkAbort, NoBulk
<1>2. ~cap'.active /\ cap'.done = cap.done /\ cap'.idx = cap.idx
  BY DEF BulkAbort, CaptureEnd, TypeInv, AdcTypes, Captures
<1>3. unread' = 0
  BY DEF BulkAbort, CaptureEnd, DrvStopped
<1> QED BY <1>1, <1>2, <1>3 DEF CaptureInv, HeldForSomebody, BulkHasPeer, BulkIdle

(* The driver, SysTick and task_displacement.                              *)
LEMMA CaptureAdcStep ==
  ASSUME TypeInv, CaptureInv,
         Frame \/ Sample \/ AdsFault \/ Clock \/ UpdateBegins \/ UpdateBatch \/ UpdateEnds
  PROVE  CaptureInv'
<1>1. unread \in Nat /\ unread \in 0 .. MaxUnread
  BY SizesAssumption DEF TypeInv, AdcTypes
<1>2. CASE Frame
  BY <1>2 DEF Frame, CaptureInv, HeldForSomebody, BulkHasPeer, TapHasSubscriber, BulkIdle,
              OfThisRun, apiVars
<1>3. CASE Sample
  <2>1. cap' = (IF cap.active THEN CapAfter(1) ELSE cap)
    BY <1>3 DEF Sample, OnSamples
  <2>2. s_running
    BY <1>3 DEF Sample, CaptureInv
  <2>3. /\ UNCHANGED <<run, apiVars>> /\ s_running' = s_running
        /\ g_disp_pstream_active' = g_disp_pstream_active
    BY <1>3 DEF Sample
  <2> QED BY <2>1, <2>2, <2>3, CaptureStores
<1>4. CASE UpdateEnds /\ ads_fault /\ ~s_fault_reported
  <2>1. Stop /\ g_disp_pstream_active' = FALSE /\ UNCHANGED apiVars
    BY <1>4 DEF UpdateEnds
  <2> QED BY <1>1, <2>1, CaptureStores DEF Stop, DrvStopped
<1>5. CASE \/ AdsFault \/ Clock \/ UpdateBegins \/ UpdateBatch
           \/ UpdateEnds /\ ~(ads_fault /\ ~s_fault_reported)
  <2>1. UNCHANGED captureVars
    BY <1>5 DEF AdsFault, Clock, UpdateBegins, UpdateBatch, UpdateEnds, captureVars,
                adcVars, apiVars
  <2> QED BY <2>1, CaptureSame
<1> QED BY <1>2, <1>3, <1>4, <1>5

(* The commands that start or stop the measurement.                        *)
LEMMA CaptureDemodStep ==
  ASSUME TypeInv, CaptureInv, DemodStart \/ DemodStop \/ PowerTest \/ Reconfigure
  PROVE  CaptureInv'
<1>1. unread \in Nat
  BY SizesAssumption DEF TypeInv, AdcTypes
<1>2. CASE DemodStop \/ PowerTest
  <2>1. Stop /\ UNCHANGED <<g_disp_pstream_active, apiVars>>
    BY <1>2 DEF DemodStop, PowerTest
  <2> QED BY <1>1, <2>1, CaptureStores DEF Stop, DrvStopped
<1>3. CASE DemodStart \/ (Reconfigure /\ s_running)
  <2>1. Start /\ BulkIdle /\ UNCHANGED <<cap, g_disp_pstream_active, apiVars>>
    BY <1>3 DEF DemodStart, Reconfigure
  <2>2. s_running' /\ TapHasSubscriber'
    BY <2>1 DEF Start, DrvStart, CaptureInv, HeldForSomebody, TapHasSubscriber, apiVars
  <2> QED BY <2>1, <2>2, CaptureStarts DEF apiVars
<1>4. CASE Reconfigure /\ ~s_running
  BY <1>4, CaptureSame DEF Reconfigure, captureVars, adcVars, apiVars
<1> QED BY <1>2, <1>3, <1>4

(* The tap and its subscribers.                                            *)
LEMMA SubsClearedKeepsTap ==
  ASSUME TapHasSubscriber, NEW t, SubsCleared(t) PROVE TapHasSubscriber'
  BY DEF TapHasSubscriber, SubsCleared, TapAfterLeaving

LEMMA CapturePhasorStep ==
  ASSUME TypeInv, CaptureInv, NEW t \in Transports,
         PhasorSubscribe(t) \/ PhasorUnsubscribe(t)
  PROVE  CaptureInv'
<1>1. CASE PhasorUnsubscribe(t)
  <2>1. TapHasSubscriber'
    BY <1>1, SubsClearedKeepsTap DEF PhasorUnsubscribe, CaptureInv, HeldForSomebody
  <2> QED BY <1>1, <2>1
          DEF PhasorUnsubscribe, NoBulkChange, adcVars, CaptureInv, HeldForSomebody,
              BulkHasPeer, BulkIdle, OfThisRun
<1>2. CASE PhasorSubscribe(t)
  <2>1. TapHasSubscriber' /\ BulkIdle /\ UNCHANGED <<cap, s_bulk, connected>>
    BY <1>2 DEF PhasorSubscribe, TapHasSubscriber
  <2>2. CASE s_running
    BY <1>2, <2>1, <2>2, CaptureStarts DEF PhasorSubscribe, adcVars
  <2>3. CASE ~s_running
    <3>1. s_running'
      BY <1>2, <2>3 DEF PhasorSubscribe, Start, DrvStart
    <3> QED BY <2>1, <3>1, CaptureStarts
  <2> QED BY <2>2, <2>3
<1> QED BY <1>1, <1>2

(* A host comes, and goes.                                                 *)
LEMMA CaptureLinkStep ==
  ASSUME TypeInv, CaptureInv, NEW t \in Transports, Connect(t) \/ Disconnect(t)
  PROVE  CaptureInv'
<1>1. TapHasSubscriber'
  BY SubsClearedKeepsTap DEF Connect, Disconnect, CaptureInv, HeldForSomebody
<1>2. CASE BulkAbort
  BY <1>1, <1>2, CaptureEnds
<1>3. CASE NoBulkChange /\ BulkHasPeer'
  BY <1>1, <1>3 DEF NoBulkChange, adcVars, CaptureInv, HeldForSomebody, BulkIdle, OfThisRun
<1>4. BulkAbort \/ (NoBulkChange /\ BulkHasPeer')
  <2>1. CASE Connect(t)
    BY <2>1 DEF Connect, NoBulkChange, CaptureInv, HeldForSomebody, BulkHasPeer, BulkIdle
  <2>2. CASE Disconnect(t)
    BY <2>2 DEF Disconnect, OwnerLeaves, NoBulkChange, CaptureInv, HeldForSomebody,
                BulkHasPeer, BulkIdle
  <2> QED BY <2>1, <2>2
<1> QED BY <1>2, <1>3, <1>4

LEMMA CaptureBulkStep ==
  ASSUME TypeInv, CaptureInv, CancelBulk \/ \E t \in Transports : StartBulk(t)
  PROVE  CaptureInv'
<1>1. CASE CancelBulk
  <2>1. TapHasSubscriber'
    BY <1>1 DEF CancelBulk, CaptureInv, HeldForSomebody, TapHasSubscriber
  <2> QED BY <1>1, <2>1, CaptureEnds DEF CancelBulk
<1>2. ASSUME NEW t \in Transports, StartBulk(t) PROVE CaptureInv'
  <2>1. /\ t \in connected /\ ~s_running /\ CaptureBegin
        /\ s_bulk' = [phase |-> "capturing", transport |-> t, send_pos |-> 0]
        /\ UNCHANGED <<g_disp_pstream_active, sub, connected>>
    BY <1>2 DEF StartBulk, MayCapture
  <2>2. /\ cap' = [active |-> TRUE, idx |-> 0, done |-> FALSE, from |-> {}]
        /\ s_running' = TRUE
    BY <2>1 DEF CaptureBegin, CaptureCleared, DrvStart
  <2> QED BY <2>1, <2>2 DEF CaptureInv, HeldForSomebody, BulkHasPeer, TapHasSubscriber,
                            BulkIdle, OfThisRun
<1> QED BY <1>1, <1>2

(* What bulk_pump can do: nothing, abort, send a chunk, or begin to send a *)
(* capture that is done. A peer that is gone cannot be met any more.       *)
LEMMA PumpCases ==
  ASSUME TypeInv, NEW ready \in BOOLEAN, BulkPump(ready)
  PROVE  \/ NoBulkChange
         \/ BulkAbort
         \/ /\ s_bulk.phase = "sending" /\ ~PeerVanished
            /\ s_bulk' = BulkAfter(Sent(ready, s_bulk.send_pos))
            /\ UNCHANGED <<adcVars, accum, cap>>
         \/ /\ s_bulk.phase = "capturing" /\ cap.done /\ ~PeerVanished
            /\ CaptureEnd /\ s_bulk' = BulkAfter(Sent(ready, 0))
<1>1. s_bulk.phase \in {"idle", "capturing", "sending"}
  BY DEF TypeInv, ApiTypes, Transfers
<1> QED BY <1>1 DEF BulkPump, BulkIdle

LEMMA BulkAfterFields ==
  ASSUME TypeInv, NEW pos
  PROVE  \/ BulkAfter(pos).phase = "idle"
         \/ BulkAfter(pos).phase = "sending" /\ BulkAfter(pos).transport = s_bulk.transport
  BY DEF BulkAfter, NoBulk, TypeInv, ApiTypes, Transfers

LEMMA CaptureApiStep ==
  ASSUME TypeInv, CaptureInv, NEW ready \in BOOLEAN, ApiUpdate(ready) PROVE CaptureInv'
<1>1. /\ BulkPump(ready) /\ TapHasSubscriber'
      /\ UNCHANGED <<g_disp_pstream_active, sub, connected>>
  BY DEF ApiUpdate, CaptureInv, HeldForSomebody, TapHasSubscriber
<1>2. CASE NoBulkChange
  BY <1>1, <1>2, CaptureSame DEF NoBulkChange, adcVars, captureVars
<1>3. CASE BulkAbort
  BY <1>1, <1>3, CaptureEnds
<1>4. CASE /\ s_bulk.phase = "sending" /\ ~PeerVanished
           /\ s_bulk' = BulkAfter(Sent(ready, s_bulk.send_pos))
           /\ UNCHANGED <<adcVars, accum, cap>>
  <2>1. \/ s_bulk'.phase = "idle"
        \/ s_bulk'.phase = "sending" /\ s_bulk'.transport = s_bulk.transport
    BY <1>4, BulkAfterFields
  <2> QED BY <1>1, <1>4, <2>1
          DEF CaptureInv, HeldForSomebody, BulkHasPeer, BulkIdle, OfThisRun, adcVars
<1>5. CASE /\ s_bulk.phase = "capturing" /\ cap.done /\ ~PeerVanished
           /\ CaptureEnd /\ s_bulk' = BulkAfter(Sent(ready, 0))
  <2>1. \/ s_bulk'.phase = "idle"
        \/ s_bulk'.phase = "sending" /\ s_bulk'.transport = s_bulk.transport
    BY <1>5, BulkAfterFields
  <2>2. /\ ~cap'.active /\ cap'.done = cap.done /\ cap'.idx = cap.idx
        /\ cap'.from = cap.from
    BY <1>5 DEF CaptureEnd, TypeInv, AdcTypes, Captures
  <2>3. s_running' = FALSE /\ unread' = 0 /\ run' = run
    BY <1>5 DEF CaptureEnd, DrvStopped
  <2> QED BY <1>1, <1>5, <2>1, <2>2, <2>3
          DEF CaptureInv, HeldForSomebody, BulkHasPeer, BulkIdle, OfThisRun
<1> QED BY <1>1, <1>2, <1>3, <1>4, <1>5, PumpCases

LEMMA CaptureStep == TypeInv /\ CaptureInv /\ [Next]_vars => CaptureInv'
<1> SUFFICES ASSUME TypeInv, CaptureInv, [Next]_vars PROVE CaptureInv'
  OBVIOUS
<1>1. CASE ProcedureStep
  <2>1. PICK use \in {"zero_cal", "precision"} : Procedure(use)
    BY <1>1 DEF ProcedureStep, ZeroCalStep1, ZeroCalStep2, ZeroCalCancel, PrecisionBegin,
           PrecisionCancel
  <2> QED BY <2>1, CaptureSame DEF Procedure, captureVars, adcVars, apiVars
<1>2. CASE UNCHANGED vars
  BY <1>2, CaptureSame DEF vars, captureVars, adcVars, apiVars
<1> QED BY <1>1, <1>2, CaptureAdcStep, CaptureDemodStep, CapturePhasorStep,
           CaptureLinkStep, CaptureBulkStep, CaptureApiStep DEF Next, ProcedureStep

(* Nothing is captured, and nobody connected, when the device starts.      *)
LEMMA CaptureInit == Init => CaptureInv
  BY DEF Init, CaptureInv, HeldForSomebody, BulkHasPeer, TapHasSubscriber, BulkIdle, NoBulk

(* TypeInv and CaptureInv hold in every state that the program reaches.    *)
THEOREM CaptureInvariant == Spec => [](TypeInv /\ CaptureInv)
<1>1. Init => TypeInv /\ CaptureInv
  BY InitTypes, CaptureInit
<1>2. TypeInv /\ CaptureInv /\ [Next]_vars => (TypeInv /\ CaptureInv)'
  BY TypeStep, CaptureStep
<1> QED BY <1>1, <1>2, PTL DEF Spec

(* Every variable keeps its type.                                          *)
THEOREM TypeCorrect == Spec => []TypeOK
  BY CaptureInvariant, TypeInvIsTypeOK, PTL

(* What a host armed, a capture or the tap, is never held for nobody, for  *)
(* any number of transports: disconnect, cancel, the pump and a fault      *)
(* release what is theirs, in whatever order they come.                    *)
THEOREM HeldOnlyForSomebody == Spec => []HeldForSomebody
<1>1. CaptureInv => HeldForSomebody
  BY DEF CaptureInv
<1> QED BY <1>1, CaptureInvariant, PTL

(* What is being sent is one whole capture, of one run of the driver,      *)
(* whatever starts, stops or faults while it is sent.                      *)
THEOREM WholeCaptureIsSent == Spec => []SentCaptureIsWhole
<1>1. TypeInv /\ CaptureInv => SentCaptureIsWhole
  <2> SUFFICES ASSUME TypeInv, CaptureInv, s_bulk.phase = "sending"
               PROVE  /\ ~cap.active /\ cap.done /\ cap.idx = CapSamples
                      /\ Cardinality(cap.from) = 1
    BY DEF SentCaptureIsWhole
  <2>1. ~cap.active /\ cap.done /\ cap.idx = CapSamples /\ cap.idx # 0
    BY SizesAssumption DEF CaptureInv
  <2>2. cap.from = {run}
    BY <2>1 DEF CaptureInv, BulkIdle, OfThisRun
  <2> QED BY <2>1, <2>2, FS_Singleton
<1> QED BY <1>1, CaptureInvariant, PTL

-----------------------------------------------------------------------------
(* The ADC has one owner: the refinement of AdcOwner.                      *)
owner == IF cap.active THEN "capture" ELSE IF s_running THEN "demodulation" ELSE "nobody"

OwnerStep == Ownership!Next \/ UNCHANGED owner

LEMMA OwnerStays ==
  ASSUME s_running' = s_running, cap'.active = cap.active PROVE OwnerStep
  BY DEF OwnerStep, owner
LEMMA OwnerStops ==
  ASSUME TypeInv, Stop PROVE OwnerStep
<1>1. unread \in Nat
  BY SizesAssumption DEF TypeInv, AdcTypes
<1>2. s_running' = FALSE /\ cap'.active = cap.active
  BY <1>1, CapStored DEF Stop, DrvStopped
<1>3. s_running \in BOOLEAN /\ cap.active \in BOOLEAN
  BY DEF TypeInv, AdcTypes, Captures
<1> QED BY <1>2, <1>3
        DEF OwnerStep, owner, Ownership!Next, Ownership!Release
LEMMA OwnerStarts ==
  ASSUME TypeInv, Start, ~cap.active, UNCHANGED cap PROVE OwnerStep
<1>1. s_running' = TRUE
  BY DEF Start, DrvStart
<1> QED BY <1>1 DEF OwnerStep, owner, Ownership!Next, Ownership!Take
LEMMA OwnerReleases ==
  ASSUME TypeInv, CaptureInv, ~BulkIdle, CaptureEnd PROVE OwnerStep
<1>1. s_running' = FALSE /\ ~cap'.active
  BY DEF CaptureEnd, DrvStopped, TypeInv, AdcTypes, Captures
<1>2. cap.active \/ ~s_running
  BY DEF CaptureInv, BulkIdle, TypeInv, ApiTypes, Transfers
<1> QED BY <1>1, <1>2 DEF OwnerStep, owner, Ownership!Next, Ownership!Release

LEMMA OwnerNext == TypeInv /\ CaptureInv /\ [Next]_vars => OwnerStep
<1> SUFFICES ASSUME TypeInv, CaptureInv, [Next]_vars PROVE OwnerStep
  OBVIOUS
<1>1. BulkIdle => ~cap.active
  BY DEF CaptureInv, BulkIdle
<1>2. CASE Frame \/ AdsFault \/ Clock \/ UpdateBegins \/ UpdateBatch \/ UNCHANGED vars
  BY <1>2, OwnerStays DEF Frame, AdsFault, Clock, UpdateBegins, UpdateBatch, vars, adcVars
<1>3. CASE Sample
  <2>1. cap'.active = cap.active
    BY <1>3, CapStored DEF Sample, OnSamples
  <2> QED BY <1>3, <2>1, OwnerStays DEF Sample
<1>4. CASE UpdateEnds
  BY <1>4, OwnerStops, OwnerStays DEF UpdateEnds, adcVars
<1>5. CASE DemodStop \/ PowerTest
  BY <1>5, OwnerStops DEF DemodStop, PowerTest
<1>6. CASE DemodStart \/ Reconfigure
  BY <1>1, <1>6, OwnerStarts, OwnerStays DEF DemodStart, Reconfigure, adcVars
<1>7. CASE ProcedureStep
  <2>1. PICK use \in {"zero_cal", "precision"} : Procedure(use)
    BY <1>7 DEF ProcedureStep, ZeroCalStep1, ZeroCalStep2, ZeroCalCancel, PrecisionBegin,
           PrecisionCancel
  <2> QED BY <2>1, OwnerStays DEF Procedure, adcVars
<1>8. CASE CancelBulk
  BY <1>8, OwnerReleases DEF CancelBulk, BulkAbort
<1>9. ASSUME NEW ready \in BOOLEAN, ApiUpdate(ready) PROVE OwnerStep
  <2>1. BulkPump(ready)
    BY <1>9 DEF ApiUpdate
  <2>2. \/ s_running' = s_running /\ cap' = cap
        \/ ~BulkIdle /\ CaptureEnd
    BY <2>1 DEF BulkPump, NoBulkChange, BulkAbort, BulkIdle, CaptureDied, PeerVanished,
                adcVars, TypeInv, ApiTypes, Transfers
  <2> QED BY <2>2, OwnerStays, OwnerReleases
<1>10. ASSUME NEW t \in Transports,
              StartBulk(t) \/ PhasorSubscribe(t) \/ PhasorUnsubscribe(t)
              \/ Connect(t) \/ Disconnect(t)
       PROVE  OwnerStep
  <2>1. CASE StartBulk(t)
    <3>1. ~s_running /\ ~cap.active /\ CaptureBegin
      BY <2>1 DEF StartBulk, MayCapture
    <3>2. cap'.active
      BY <3>1 DEF CaptureBegin, CaptureCleared
    <3> QED BY <3>1, <3>2 DEF OwnerStep, owner, Ownership!Next, Ownership!Take
  <2>2. CASE PhasorSubscribe(t)
    BY <2>2, OwnerStarts, OwnerStays DEF PhasorSubscribe, adcVars
  <2>3. CASE PhasorUnsubscribe(t) \/ Connect(t)
    BY <2>3, OwnerStays DEF PhasorUnsubscribe, Connect, NoBulkChange, adcVars
  <2>4. CASE Disconnect(t)
    BY <2>4, OwnerStays, OwnerReleases
       DEF Disconnect, OwnerLeaves, BulkAbort, NoBulkChange, adcVars
  <2> QED BY <1>10, <2>1, <2>2, <2>3, <2>4
<1> QED BY <1>2, <1>3, <1>4, <1>5, <1>6, <1>7, <1>8, <1>9, <1>10 DEF Next, ProcedureStep

(* The ADC goes from the demodulation to a capture, and back, only through *)
(* nobody: every step of the program takes a free ADC, releases it, or     *)
(* leaves it with its owner.                                               *)
THEOREM TheAdcHasOneOwner == Spec => OneOwner
<1>1. Init => Ownership!Init
  BY DEF Init, Ownership!Init
<1>2. TypeInv /\ CaptureInv /\ [Next]_vars => [Ownership!Next]_owner
  BY OwnerNext DEF OwnerStep
<1> QED BY <1>1, <1>2, CaptureInvariant, PTL DEF Spec, OneOwner, Ownership!Spec, owner

-----------------------------------------------------------------------------
(* From which run of the driver the measurement's samples come.            *)
ZcActive == zc.phase \notin {"idle", "result_ready"}

(* While the driver runs for the measurement, the batch in progress, the   *)
(* batches that wait, the reading and an active zero calibration are all   *)
(* from this run: captures, faults, stops and reconfigurations in between  *)
(* leave nothing behind that the next run could use.                       *)
MeasuresThisRun ==
  /\ accum.from = OfThisRun(accum.n)
  /\ \A k \in DOMAIN accum.ring : accum.ring[k].from = {run}
  /\ reading.ok => reading.from = {run}
  /\ ZcActive => zc.run = run
MeasuringIsOneRun == Measuring => MeasuresThisRun

runVars == <<s_running, run, accum, reading, zc>>

LEMMA RunSame ==
  MeasuringIsOneRun /\ UNCHANGED runVars /\ cap'.active = cap.active => MeasuringIsOneRun'
  BY DEF MeasuringIsOneRun, Measuring, MeasuresThisRun, ZcActive, OfThisRun, runVars
LEMMA RunStarts ==
  ASSUME TypeInv, Start PROVE MeasuringIsOneRun'
<1>1. /\ accum' = AccumReset /\ reading' = NoReading
      /\ zc' = [zc EXCEPT !.phase = "idle", !.count = 0] /\ zc \in ZeroCals
  BY DEF Start, ZcIdle, TypeInv, MeasTypes
<1>2. accum'.from = {} /\ accum'.n = 0 /\ accum'.ring = <<>>
  BY <1>1 DEF AccumReset
<1>3. ~reading'.ok
  BY <1>1 DEF NoReading
<1>4. zc'.phase = "idle"
  BY <1>1 DEF ZeroCals
<1>5. DOMAIN accum'.ring = {}
  BY <1>2
<1> QED BY <1>2, <1>3, <1>4, <1>5
        DEF MeasuringIsOneRun, Measuring, MeasuresThisRun, ZcActive, OfThisRun

(* on_sample mixes no runs.                                                *)
LEMMA AccumOfThisRun ==
  ASSUME TypeInv, NEW k \in 1 .. MaxUnread, accum.from = OfThisRun(accum.n),
         \A i \in DOMAIN accum.ring : accum.ring[i].from = {run}
  PROVE  /\ AccumAfter(k).from = OfThisRun(AccumAfter(k).n)
         /\ \A i \in DOMAIN AccumAfter(k).ring : AccumAfter(k).ring[i].from = {run}
<1>1. /\ accum \in Accums /\ accum.n \in 0 .. BatchSamples - 1
      /\ accum.ring \in Seq(Batches) /\ accum.seq \in Seqs
      /\ BatchSamples \in Nat \ {0} /\ MaxUnread \in 1 .. BatchSamples
  BY SizesAssumption DEF TypeInv, AdcTypes, Accums
<1> DEFINE n == accum.n + k
<1>2. n \in Nat /\ n # 0 /\ k > 0
  BY <1>1
<1>3. (IF k > 0 THEN accum.from \cup {run} ELSE accum.from) = {run}
  BY <1>2 DEF OfThisRun
<1> HIDE DEF n
<1>4. CASE n < BatchSamples
  <2>1. AccumAfter(k) = [accum EXCEPT !.n = n, !.from = {run}]
    BY <1>3, <1>4 DEF AccumAfter, n
  <2>2. /\ AccumAfter(k).n = n /\ AccumAfter(k).from = {run}
        /\ AccumAfter(k).ring = accum.ring
    BY <1>1, <2>1 DEF Accums
  <2> QED BY <1>2, <2>2 DEF OfThisRun
<1>5. CASE ~(n < BatchSamples)
  <2> DEFINE rest == n - BatchSamples
             batch == [seq |-> accum.seq, from |-> {run}, gap |-> accum.dropped > 0]
  <2>1. AccumAfter(k) = HandedOff(rest, {run}) /\ rest \in Nat
    <3>1. AccumAfter(k)
            = HandedOff(rest, IF k > 0 THEN accum.from \cup {run} ELSE accum.from)
      BY <1>5 DEF AccumAfter, n
    <3>2. rest \in Nat
      BY <1>1, <1>2, <1>5
    <3> QED BY <1>3, <3>1, <3>2
  <2> HIDE DEF rest
  <2>2. HandedOff(rest, {run}).from = OfThisRun(HandedOff(rest, {run}).n)
    BY <2>1 DEF HandedOff, OfThisRun
  <2>3. \/ HandedOff(rest, {run}).ring = accum.ring
        \/ HandedOff(rest, {run}).ring = Append(accum.ring, batch)
    BY DEF HandedOff
  <2>4. batch.from = {run} /\ batch \in Batches
    <3>1. run \in Runs /\ accum.dropped \in 0 .. MaxDrops + 1 /\ MaxDrops \in Nat
      BY SizesAssumption DEF TypeInv, AdcTypes, Accums
    <3>2. (accum.dropped > 0) \in BOOLEAN
      BY <3>1
    <3> QED BY <1>1, <3>1, <3>2 DEF Batches
  <2> HIDE DEF batch
  <2>5. \A i \in DOMAIN Append(accum.ring, batch) :
          Append(accum.ring, batch)[i].from = {run}
    BY <1>1, <2>4, AppendProperties
  <2> QED BY <2>1, <2>2, <2>3, <2>5
<1> QED BY <1>4, <1>5

(* A batch of this run feeds the zero calibration of this run.             *)
LEMMA ZcFedKeepsRun ==
  ASSUME TypeInv
  PROVE  /\ ZcFed.run = zc.run
         /\ ZcFed.phase \notin {"idle", "result_ready"} => ZcActive
         /\ zc.phase \in {"idle", "result_ready"} => ZcFed = zc
<1>1. zc \in ZeroCals
  BY DEF TypeInv, MeasTypes
<1> QED BY <1>1 DEF ZcFed, ZcActive, ZeroCals

LEMMA RunBatchStep ==
  ASSUME TypeInv, MeasuringIsOneRun, UpdateBatch PROVE MeasuringIsOneRun'
<1> SUFFICES ASSUME Measuring PROVE MeasuresThisRun'
  BY DEF MeasuringIsOneRun, Measuring, UpdateBatch, adcVars
<1>1. MeasuresThisRun /\ run' = run
  BY DEF MeasuringIsOneRun, UpdateBatch, adcVars
<1>2. accum.ring \in Seq(Batches) /\ accum.ring # <<>> /\ accum \in Accums
  BY DEF UpdateBatch, TypeInv, AdcTypes, Accums
<1>3. /\ accum' = [accum EXCEPT !.ring = Tail(accum.ring)]
      /\ GoodBatch(Head(accum.ring)) \/ DegenerateBatch
  BY DEF UpdateBatch
<1>4. /\ accum'.n = accum.n /\ accum'.from = accum.from
      /\ accum'.ring = Tail(accum.ring)
  BY <1>2, <1>3 DEF Accums
<1>5. /\ Head(accum.ring) = accum.ring[1] /\ 1 \in DOMAIN accum.ring
      /\ \A k \in DOMAIN Tail(accum.ring) :
           /\ k + 1 \in DOMAIN accum.ring /\ Tail(accum.ring)[k] = accum.ring[k + 1]
  BY <1>2, HeadTailProperties
<1>6. \A k \in DOMAIN accum'.ring : accum'.ring[k].from = {run}
  BY <1>1, <1>4, <1>5 DEF MeasuresThisRun
<1>7. reading'.ok => reading'.from = {run}
  <2>1. Head(accum.ring).from = {run}
    BY <1>1, <1>5 DEF MeasuresThisRun
  <2>2. CASE GoodBatch(Head(accum.ring))
    <3>1. reading' = [ok |-> TRUE, from |-> Head(accum.ring).from]
      BY <2>2 DEF GoodBatch
    <3> QED BY <2>1, <3>1
  <2>3. CASE DegenerateBatch
    BY <2>3 DEF DegenerateBatch, NoReading
  <2> QED BY <1>3, <2>2, <2>3
<1>8. ZcActive' => zc'.run = run
  BY <1>1, <1>3, ZcFedKeepsRun DEF GoodBatch, DegenerateBatch, ZcActive, MeasuresThisRun
<1> QED BY <1>1, <1>4, <1>6, <1>7, <1>8 DEF MeasuresThisRun, OfThisRun

(* No step mixes the runs. Only a start makes the driver measure.          *)
LEMMA RunStep == TypeInv /\ CaptureInv /\ MeasuringIsOneRun /\ [Next]_vars => MeasuringIsOneRun'
<1> SUFFICES ASSUME TypeInv, CaptureInv, MeasuringIsOneRun, [Next]_vars
             PROVE  MeasuringIsOneRun'
  OBVIOUS
<1>1. Stop \/ CaptureEnd => ~s_running'
  BY DEF Stop, CaptureEnd, DrvStopped
<1>2. ~s_running' \/ cap'.active => MeasuringIsOneRun'
  BY DEF MeasuringIsOneRun, Measuring
<1>3. CASE \/ Frame \/ AdsFault \/ Clock \/ UpdateBegins \/ UNCHANGED vars
           \/ UpdateEnds /\ ~(ads_fault /\ ~s_fault_reported)
  BY <1>3, RunSame DEF Frame, AdsFault, Clock, UpdateBegins, UpdateEnds, vars, runVars,
                       adcVars, measVars
<1>4. CASE Sample
  <2>1. CASE cap.active
    <3>1. cap'.active
      BY <1>4, <2>1, CapStored DEF Sample, OnSamples
    <3> QED BY <1>2, <3>1
  <2>2. CASE ~cap.active
    <3>1. /\ MeasuresThisRun /\ accum' = AccumAfter(1)
          /\ UNCHANGED <<run, reading, zc>>
      BY <1>4, <2>2 DEF Sample, OnSamples, CaptureInv, MeasuringIsOneRun, Measuring, measVars
    <3>2. 1 \in 1 .. MaxUnread
      BY SizesAssumption
    <3>3. /\ AccumAfter(1).from = OfThisRun(AccumAfter(1).n)
          /\ \A i \in DOMAIN AccumAfter(1).ring : AccumAfter(1).ring[i].from = {run}
      BY <3>1, <3>2, AccumOfThisRun DEF MeasuresThisRun
    <3> QED BY <3>1, <3>3 DEF MeasuringIsOneRun, MeasuresThisRun, ZcActive, OfThisRun
  <2> QED BY <2>1, <2>2
<1>5. CASE UpdateBatch
  BY <1>5, RunBatchStep
<1>6. CASE UpdateEnds /\ ads_fault /\ ~s_fault_reported
  BY <1>1, <1>2, <1>6 DEF UpdateEnds
<1>7. CASE DemodStart \/ DemodStop \/ PowerTest
  BY <1>1, <1>2, <1>7, RunStarts DEF DemodStart, DemodStop, PowerTest
<1>8. CASE Reconfigure
  <2>1. CASE s_running
    BY <1>8, <2>1, RunStarts DEF Reconfigure
  <2>2. CASE ~s_running
    BY <1>2, <1>8, <2>2 DEF Reconfigure, adcVars
  <2> QED BY <2>1, <2>2
<1>9. CASE ProcedureStep
  <2>1. PICK use \in {"zero_cal", "precision"} : Procedure(use)
    BY <1>9 DEF ProcedureStep, ZeroCalStep1, ZeroCalStep2, ZeroCalCancel, PrecisionBegin,
           PrecisionCancel
  <2>2. UNCHANGED <<s_running, run, accum, reading, cap>>
    BY <2>1 DEF Procedure, adcVars
  <2>3. zc \in ZeroCals
    BY DEF TypeInv, MeasTypes
  <2>4. (ZcActive => zc.run = run) => (ZcActive' => zc'.run = run)
    <3>1. CASE ZeroCalStep1
      BY <3>1 DEF ZeroCalStep1
    <3>2. CASE ZeroCalStep2
      <4>1. zc'.run = zc.run /\ zc.phase = "step1_done"
        BY <2>3, <3>2 DEF ZeroCalStep2, ZeroCals
      <4> QED BY <4>1 DEF ZcActive
    <3>3. CASE ZeroCalCancel
      <4>1. zc'.phase = "idle"
        BY <2>3, <3>3 DEF ZeroCalCancel, ZcIdle, ZeroCals
      <4> QED BY <4>1 DEF ZcActive
    <3>4. CASE UNCHANGED zc
      BY <2>2, <3>4 DEF ZcActive
    <3> QED BY <1>9, <3>1, <3>2, <3>3, <3>4 DEF ProcedureStep, PrecisionBegin, PrecisionCancel
  <2> QED BY <2>2, <2>4 DEF MeasuringIsOneRun, Measuring, MeasuresThisRun, OfThisRun
<1>10. CASE CancelBulk
  BY <1>1, <1>2, <1>10 DEF CancelBulk, BulkAbort
<1>11. ASSUME NEW ready \in BOOLEAN, ApiUpdate(ready) PROVE MeasuringIsOneRun'
  <2>1. \/ CaptureEnd \/ UNCHANGED <<adcVars, accum, cap>>
    BY <1>11, PumpCases DEF ApiUpdate, NoBulkChange, BulkAbort
  <2>2. UNCHANGED reading /\ ZeroCalApply
    BY <1>11 DEF ApiUpdate
  <2>3. zc \in ZeroCals
    BY DEF TypeInv, MeasTypes
  <2>4. (ZcActive => zc.run = run) => (ZcActive' => zc'.run = run)
    BY <2>2, <2>3 DEF ZeroCalApply, ZcActive, ZeroCals
  <2>5. CASE UNCHANGED <<adcVars, accum, cap>>
    BY <2>2, <2>4, <2>5
       DEF MeasuringIsOneRun, Measuring, MeasuresThisRun, OfThisRun, adcVars
  <2> QED BY <1>1, <1>2, <2>1, <2>5
<1>12. ASSUME NEW t \in Transports,
              StartBulk(t) \/ PhasorSubscribe(t) \/ PhasorUnsubscribe(t)
              \/ Connect(t) \/ Disconnect(t)
       PROVE  MeasuringIsOneRun'
  <2>1. CASE StartBulk(t)
    <3>1. cap'.active
      BY <2>1 DEF StartBulk, CaptureBegin, CaptureCleared
    <3> QED BY <1>2, <3>1
  <2>2. CASE PhasorSubscribe(t)
    BY <2>2, RunStarts, RunSame DEF PhasorSubscribe, adcVars, measVars, runVars
  <2>3. CASE PhasorUnsubscribe(t) \/ Connect(t) \/ Disconnect(t)
    <3>1. CaptureEnd \/ (NoBulkChange /\ UNCHANGED measVars)
      BY <2>3 DEF PhasorUnsubscribe, Connect, Disconnect, BulkAbort
    <3> QED BY <1>1, <1>2, <3>1, RunSame DEF NoBulkChange, adcVars, measVars, runVars
  <2> QED BY <1>12, <2>1, <2>2, <2>3
<1> QED BY <1>3, <1>4, <1>5, <1>6, <1>7, <1>8, <1>9, <1>10, <1>11, <1>12
        DEF Next, ProcedureStep

(* A measurement is of one run of the driver, whatever else the hosts do:  *)
(* captures included, for which ReadingIsLive itself does not hold.        *)
THEOREM MeasurementIsOneRun == Spec => []MeasuringIsOneRun
<1>1. Init => MeasuringIsOneRun
  BY DEF Init, MeasuringIsOneRun, Measuring
<1> QED BY <1>1, RunStep, CaptureInvariant, PTL DEF Spec

-----------------------------------------------------------------------------
(* Without bulk transfers: what a stop leaves.                             *)

(* A driver that is off has left no batch, no reading, no active zero      *)
(* calibration and no precision measurement behind. A bulk transfer breaks *)
(* this: its end turns off a driver that the service did not stop.         *)
OffMeansReset ==
  /\ BulkIdle
  /\ ~s_running =>
       /\ accum.ring = <<>> /\ ~reading.ok
       /\ ~ZcActive /\ prec.phase # "running"

LEMMA OffSame ==
  OffMeansReset /\ UNCHANGED <<s_bulk, s_running, accum, reading, zc, prec>> => OffMeansReset'
  BY DEF OffMeansReset, BulkIdle, ZcActive
LEMMA OffWhileRunning ==
  ASSUME OffMeansReset, s_running', UNCHANGED s_bulk PROVE OffMeansReset'
  BY DEF OffMeansReset, BulkIdle
LEMMA StopResets ==
  ASSUME TypeInv, OffMeansReset, Stop, UNCHANGED s_bulk PROVE OffMeansReset'
<1>1. accum'.ring = <<>> /\ ~reading'.ok
  BY DEF Stop, StopAccum, AccumReset, NoReading
<1>2. zc'.phase = "idle"
  BY DEF Stop, StopZc, ZcIdle, TypeInv, MeasTypes, ZeroCals
<1>3. prec'.phase = "idle"
  BY DEF Stop, PrecIdle, TypeInv, MeasTypes, Precisions
<1> QED BY <1>1, <1>2, <1>3 DEF OffMeansReset, BulkIdle, ZcActive

LEMMA OffStep ==
  ASSUME "bulk" \notin Uses, TypeInv, CaptureInv, OffMeansReset, [Next]_vars
  PROVE  OffMeansReset'
<1>1. BulkIdle
  BY DEF OffMeansReset
<1>2. CASE AdsFault \/ UpdateBegins \/ UNCHANGED vars
  BY <1>2, OffSame DEF AdsFault, UpdateBegins, vars, adcVars, apiVars, measVars
<1>3. CASE Frame \/ Sample \/ UpdateBatch
  BY <1>3, OffWhileRunning
     DEF Frame, Sample, UpdateBatch, CaptureInv, OffMeansReset, adcVars, apiVars,
         TypeInv, AdcTypes
<1>4. CASE Clock
  <2>1. s_running' /\ UNCHANGED s_bulk
    BY <1>4 DEF Clock, OffMeansReset, adcVars, apiVars
  <2> QED BY <2>1, OffWhileRunning
<1>5. CASE UpdateEnds
  <2>1. CASE ads_fault /\ ~s_fault_reported
    BY <1>5, <2>1, StopResets DEF UpdateEnds, apiVars
  <2>2. CASE ~(ads_fault /\ ~s_fault_reported)
    <3>1. /\ UNCHANGED <<s_bulk, s_running, accum, reading, zc>>
          /\ prec' = Polled
      BY <1>5, <2>2 DEF UpdateEnds, adcVars, apiVars
    <3>2. prec.phase # "running" => Polled = prec
      BY DEF Polled
    <3> QED BY <3>1, <3>2 DEF OffMeansReset, BulkIdle, ZcActive
  <2> QED BY <2>1, <2>2
<1>6. CASE DemodStop \/ PowerTest
  BY <1>6, StopResets DEF DemodStop, PowerTest, apiVars
<1>7. CASE DemodStart \/ (Reconfigure /\ s_running)
  <2>1. s_running' /\ UNCHANGED s_bulk
    BY <1>7 DEF DemodStart, Reconfigure, Start, DrvStart, apiVars
  <2> QED BY <2>1, OffWhileRunning
<1>8. CASE Reconfigure /\ ~s_running
  BY <1>8 DEF Reconfigure, OffMeansReset, BulkIdle, ZcActive, AccumReset, adcVars, apiVars,
              measVars
<1>9. CASE ZeroCalStep1 \/ ZeroCalStep2 \/ PrecisionBegin
  BY <1>9, OffWhileRunning DEF ZeroCalStep1, ZeroCalStep2, PrecisionBegin, Procedure, adcVars,
                               apiVars
<1>10. CASE ZeroCalCancel
  <2>1. zc'.phase = "idle"
    BY <1>10 DEF ZeroCalCancel, ZcIdle, TypeInv, MeasTypes, ZeroCals
  <2> QED BY <1>10, <2>1
          DEF ZeroCalCancel, Procedure, OffMeansReset, BulkIdle, ZcActive, adcVars, apiVars
<1>11. CASE PrecisionCancel
  <2>1. prec'.phase = "idle"
    BY <1>11 DEF PrecisionCancel, PrecIdle, TypeInv, MeasTypes, Precisions
  <2> QED BY <1>11, <2>1
          DEF PrecisionCancel, Procedure, OffMeansReset, BulkIdle, ZcActive, adcVars, apiVars
<1>12. CASE CancelBulk
  BY <1>1, <1>12 DEF CancelBulk
<1>13. ASSUME NEW ready \in BOOLEAN, ApiUpdate(ready) PROVE OffMeansReset'
  <2>1. NoBulkChange /\ ZeroCalApply /\ UNCHANGED <<reading, prec>>
    BY <1>1, <1>13 DEF ApiUpdate, BulkPump, BulkIdle, CaptureDied, PeerVanished
  <2>2. zc \in ZeroCals
    BY DEF TypeInv, MeasTypes
  <2>3. ~ZcActive => ~ZcActive'
    BY <2>1, <2>2 DEF ZeroCalApply, ZcActive, ZeroCals
  <2> QED BY <2>1, <2>3 DEF OffMeansReset, BulkIdle, NoBulkChange, adcVars
<1>14. ASSUME NEW t \in Transports,
              PhasorSubscribe(t) \/ PhasorUnsubscribe(t) \/ Connect(t) \/ Disconnect(t)
       PROVE  OffMeansReset'
  <2>1. CASE PhasorSubscribe(t)
    <3>1. CASE s_running
      BY <2>1, <3>1, OffSame DEF PhasorSubscribe, adcVars, measVars
    <3>2. CASE ~s_running
      <4>1. s_running' /\ UNCHANGED s_bulk
        BY <2>1, <3>2 DEF PhasorSubscribe, Start, DrvStart
      <4> QED BY <4>1, OffWhileRunning
    <3> QED BY <3>1, <3>2
  <2>2. CASE PhasorUnsubscribe(t) \/ Connect(t) \/ Disconnect(t)
    <3>1. NoBulkChange /\ UNCHANGED measVars
      BY <1>1, <2>2 DEF PhasorUnsubscribe, Connect, Disconnect, OwnerLeaves
    <3> QED BY <3>1, OffSame DEF NoBulkChange, adcVars, measVars
  <2> QED BY <1>14, <2>1, <2>2
<1>15. \A t \in Transports : ~StartBulk(t)
  BY DEF StartBulk
<1> QED BY <1>2, <1>3, <1>4, <1>5, <1>6, <1>7, <1>8, <1>9, <1>10, <1>11, <1>12, <1>13,
           <1>14, <1>15 DEF Next

(* Without bulk transfers, what the runs check with them left out:         *)
(* everything above, and a driver that is off has been reset.              *)
MeasureInv == TypeInv /\ CaptureInv /\ MeasuringIsOneRun /\ OffMeansReset

THEOREM MeasureInvariant ==
  ASSUME "bulk" \notin Uses PROVE Spec => []MeasureInv
<1>1. Init => OffMeansReset
  BY DEF Init, OffMeansReset, BulkIdle, ZcActive, NoReading, NoBulk, AccumReset
<1>2. TypeInv /\ CaptureInv /\ OffMeansReset /\ [Next]_vars => OffMeansReset'
  BY OffStep
<1> QED BY <1>1, <1>2, CaptureInvariant, MeasurementIsOneRun, PTL DEF Spec, MeasureInv

(* Without bulk transfers, a reading is offered as valid only while the    *)
(* measurement runs, and all of its samples are from this very run.        *)
THEOREM ReadingsAreLive ==
  ASSUME "bulk" \notin Uses PROVE Spec => []ReadingIsLive
<1>1. MeasureInv => ReadingIsLive
  BY DEF MeasureInv, CaptureInv, MeasuringIsOneRun, Measuring, MeasuresThisRun,
         OffMeansReset, BulkIdle, ReadingIsLive, TypeInv, AdcTypes
<1> QED BY <1>1, MeasureInvariant, PTL

(* Without bulk transfers, both steps of a zero calibration average        *)
(* samples of one run, however often the measurement is stopped, started   *)
(* and reconfigured between them.                                          *)
THEOREM ZeroCalibrationIsOneRun ==
  ASSUME "bulk" \notin Uses PROVE Spec => []ZeroCalIsOneRun
<1>1. MeasureInv => ZeroCalIsOneRun
  BY DEF MeasureInv, CaptureInv, MeasuringIsOneRun, Measuring, MeasuresThisRun,
         OffMeansReset, BulkIdle, ZeroCalIsOneRun, ZcActive, TypeInv, AdcTypes
<1> QED BY <1>1, MeasureInvariant, PTL

-----------------------------------------------------------------------------
(* The batch numbers, modulo SeqRange.                                     *)
LEMMA ModInside == ASSUME NEW N \in Nat \ {0}, NEW a \in 0 .. N - 1 PROVE a % N = a
  OBVIOUS
LEMMA ModBefore == ASSUME NEW N \in Nat \ {0}, NEW a \in (1 - N) .. -1 PROVE a % N = a + N
  OBVIOUS
LEMMA ModTurn == ASSUME NEW N \in Nat \ {0} PROVE N % N = 0
  OBVIOUS

(* How far one number is ahead of another.                                 *)
LEMMA SeqAhead ==
  ASSUME NEW a \in Seqs, NEW b \in Seqs
  PROVE  (a - b) % SeqRange = IF a >= b THEN a - b ELSE a - b + SeqRange
<1>1. SeqRange \in Nat \ {0} /\ a \in 0 .. SeqRange - 1 /\ b \in 0 .. SeqRange - 1
  BY SizesAssumption DEF Seqs
<1>2. CASE a >= b
  <2>1. a - b \in 0 .. SeqRange - 1
    BY <1>1, <1>2
  <2>2. (a - b) % SeqRange = a - b
    BY <1>1, <2>1, ModInside
  <2> QED BY <1>2, <2>2
<1>3. CASE ~(a >= b)
  <2>1. a - b \in (1 - SeqRange) .. -1
    BY <1>1, <1>3
  <2>2. (a - b) % SeqRange = (a - b) + SeqRange
    BY <1>1, <2>1, ModBefore
  <2> QED BY <1>3, <2>2
<1> QED BY <1>2, <1>3

(* The next number is one further ahead, short of a full turn.             *)
LEMMA SeqNext ==
  ASSUME NEW a \in Seqs, NEW b \in Seqs, ((a - b) % SeqRange) + 1 < SeqRange
  PROVE  /\ (a + 1) % SeqRange \in Seqs
         /\ (((a + 1) % SeqRange) - b) % SeqRange = ((a - b) % SeqRange) + 1
<1> DEFINE c == (a + 1) % SeqRange
<1>1. SeqRange \in Nat \ {0} /\ a \in 0 .. SeqRange - 1 /\ b \in 0 .. SeqRange - 1
  BY SizesAssumption DEF Seqs
<1>2. c = IF a + 1 < SeqRange THEN a + 1 ELSE 0
  <2>1. CASE a + 1 < SeqRange
    <3>1. a + 1 \in 0 .. SeqRange - 1
      BY <1>1, <2>1
    <3> QED BY <1>1, <2>1, <3>1, ModInside
  <2>2. CASE ~(a + 1 < SeqRange)
    <3>1. a + 1 = SeqRange
      BY <1>1, <2>2
    <3> QED BY <1>1, <2>2, <3>1, ModTurn
  <2> QED BY <2>1, <2>2
<1> HIDE DEF c
<1>3. c \in 0 .. SeqRange - 1 /\ c \in Seqs
  BY <1>1, <1>2 DEF Seqs
<1>4. /\ (a - b) % SeqRange = IF a >= b THEN a - b ELSE a - b + SeqRange
      /\ (c - b) % SeqRange = IF c >= b THEN c - b ELSE c - b + SeqRange
  BY <1>3, SeqAhead
<1>5. (c - b) % SeqRange = ((a - b) % SeqRange) + 1
  <2> DEFINE d == (a - b) % SeqRange
             e == (c - b) % SeqRange
  <2>1. d = (IF a >= b THEN a - b ELSE a - b + SeqRange)
        /\ e = (IF c >= b THEN c - b ELSE c - b + SeqRange) /\ d + 1 < SeqRange
    BY <1>4
  <2> HIDE DEF d, e
  <2>2. e = d + 1
    BY <1>1, <1>2, <1>3, <2>1
  <2> QED BY <2>2 DEF d, e
<1> QED BY <1>3, <1>5 DEF c

-----------------------------------------------------------------------------
(* Why a window that looks contiguous is: the numbers show every drop.     *)

(* s is the number of the batch handed off last: the one in progress is    *)
(* ahead of it by the batches dropped since, and one.                      *)
Follows(s) == (accum.seq - s) % SeqRange = accum.dropped + 1
(* A gap before batch b shows when it comes after the batch numbered s.    *)
GapShows(b, s) == b.gap => (b.seq - s) % SeqRange # 1

(* Fewer batches are dropped in a row than a turn of the numbers has, and  *)
(* while the measurement runs every gap shows: between two batches that    *)
(* wait, and between the one processed last and the first that waits. The  *)
(* batch in progress will show it too.                                     *)
SeqInv ==
  /\ accum.dropped <= MaxDrops
  /\ RingFull /\ accum.dropped = MaxDrops => accum.n + unread < BatchSamples
  /\ s_running =>
       /\ \A k \in 2 .. Len(accum.ring) : GapShows(accum.ring[k], accum.ring[k-1].seq)
       /\ disp.have_seq /\ accum.ring # <<>> => GapShows(accum.ring[1], disp.last_seq)
       /\ accum.ring # <<>> => Follows(accum.ring[Len(accum.ring)].seq)
       /\ disp.have_seq /\ accum.ring = <<>> => Follows(disp.last_seq)

LEMMA SeqFacts ==
  ASSUME TypeInv
  PROVE  /\ accum \in Accums /\ accum.ring \in Seq(Batches) /\ Len(accum.ring) \in Nat
         /\ accum.n \in 0 .. BatchSamples - 1 /\ accum.seq \in Seqs
         /\ accum.dropped \in 0 .. MaxDrops + 1 /\ unread \in 0 .. MaxUnread
         /\ \A k \in 1 .. Len(accum.ring) : accum.ring[k] \in Batches /\ accum.ring[k].seq \in Seqs
         /\ disp.last_seq \in Seqs
<1>1. /\ accum \in Accums /\ accum.ring \in Seq(Batches)
      /\ accum.n \in 0 .. BatchSamples - 1 /\ accum.seq \in Seqs
      /\ accum.dropped \in 0 .. MaxDrops + 1 /\ unread \in 0 .. MaxUnread
  BY DEF TypeInv, AdcTypes, Accums
<1>2. disp.last_seq \in Seqs
  BY DEF TypeInv, MeasTypes
<1>3. \A k \in 1 .. Len(accum.ring) : accum.ring[k] \in Batches
  BY <1>1
<1>4. \A b \in Batches : b.seq \in Seqs
  BY DEF Batches
<1> QED BY <1>1, <1>2, <1>3, <1>4

LEMMA HandOffForm ==
  ASSUME NEW k \in Nat, ~(accum.n + k < BatchSamples)
  PROVE  AccumAfter(k) = HandedOff((accum.n + k) - BatchSamples,
                                   IF k > 0 THEN accum.from \cup {run} ELSE accum.from)
  BY DEF AccumAfter

(* A sample ends no batch, or the batch is dropped, or it is handed over.  *)
LEMMA SampleCases ==
  ASSUME TypeInv, accum' = AccumAfter(1)
  PROVE  \/ /\ accum.n + 1 < BatchSamples /\ accum'.n = accum.n + 1
            /\ accum'.seq = accum.seq /\ accum'.ring = accum.ring
            /\ accum'.dropped = accum.dropped
         \/ /\ accum.n + 1 = BatchSamples /\ accum'.n = 0
            /\ accum'.seq = (accum.seq + 1) % SeqRange
            /\ \/ /\ RingFull /\ accum'.ring = accum.ring
                  /\ accum'.dropped = Least(accum.dropped + 1, MaxDrops + 1)
               \/ /\ ~RingFull /\ accum'.dropped = 0
                  /\ \E from \in SUBSET Runs :
                       accum'.ring = Append(accum.ring, [seq |-> accum.seq, from |-> from,
                                                         gap |-> accum.dropped > 0])
<1>1. /\ accum \in Accums /\ accum.n \in 0 .. BatchSamples - 1
      /\ BatchSamples \in Nat \ {0} /\ run \in Runs
  BY SizesAssumption, SeqFacts DEF TypeInv, AdcTypes
<1> DEFINE from == accum.from \cup {run}
<1>2. from \in SUBSET Runs
  BY <1>1 DEF Accums
<1> HIDE DEF from
<1>3. CASE accum.n + 1 < BatchSamples
  <2>1. accum' = [accum EXCEPT !.n = accum.n + 1, !.from = from]
    BY <1>3 DEF AccumAfter, from
  <2> QED BY <1>1, <1>3, <2>1 DEF Accums
<1>4. CASE ~(accum.n + 1 < BatchSamples)
  <2>1. accum.n + 1 = BatchSamples /\ (accum.n + 1) - BatchSamples = 0
    BY <1>1, <1>4
  <2>2. accum' = HandedOff(0, from)
    <3>1. (IF 1 > 0 THEN accum.from \cup {run} ELSE accum.from) = from
      BY DEF from
    <3> QED BY <1>4, <2>1, <3>1, HandOffForm
  <2>3. accum'.n = 0 /\ accum'.seq = (accum.seq + 1) % SeqRange
    BY <2>2 DEF HandedOff
  <2>4. CASE RingFull
    BY <2>1, <2>2, <2>3, <2>4 DEF HandedOff
  <2>5. CASE ~RingFull
    <3>1. /\ accum'.dropped = 0
          /\ accum'.ring = Append(accum.ring, [seq |-> accum.seq, from |-> from,
                                               gap |-> accum.dropped > 0])
      BY <2>2, <2>5 DEF HandedOff
    <3> QED BY <1>2, <2>1, <2>3, <2>5, <3>1
  <2> QED BY <2>4, <2>5
<1> QED BY <1>3, <1>4

LEMMA SeqSample ==
  ASSUME TypeInv, SeqInv, s_running, unread > 0, unread' = unread - 1,
         accum' = AccumAfter(1), UNCHANGED <<s_running, disp>>
  PROVE  SeqInv'
<1>1. /\ accum.ring \in Seq(Batches) /\ Len(accum.ring) \in Nat
      /\ accum.n \in 0 .. BatchSamples - 1 /\ accum.seq \in Seqs
      /\ accum.dropped \in 0 .. MaxDrops + 1 /\ unread \in 0 .. MaxUnread
      /\ \A k \in 1 .. Len(accum.ring) : accum.ring[k].seq \in Seqs
      /\ disp.last_seq \in Seqs
  BY SeqFacts
<1>2. /\ BatchSamples \in Nat \ {0} /\ MaxUnread \in 1 .. BatchSamples
      /\ MaxDrops \in Nat /\ SeqRange \in Nat /\ SeqRange > MaxDrops + 2
      /\ RingDepth \in Nat /\ RingDepth > 1
  BY SizesAssumption
<1>3. CASE /\ accum.n + 1 < BatchSamples /\ accum'.n = accum.n + 1
           /\ accum'.seq = accum.seq /\ accum'.ring = accum.ring
           /\ accum'.dropped = accum.dropped
  <2>1. accum'.n + unread' = accum.n + unread
    BY <1>1, <1>3
  <2> QED BY <1>3, <2>1 DEF SeqInv, RingFull, Follows, GapShows
<1>4. CASE /\ accum.n + 1 = BatchSamples /\ accum'.n = 0
           /\ accum'.seq = (accum.seq + 1) % SeqRange
           /\ RingFull /\ accum'.ring = accum.ring
           /\ accum'.dropped = Least(accum.dropped + 1, MaxDrops + 1)
  <2>1. accum.dropped < MaxDrops
    <3>1. ~(accum.n + unread < BatchSamples)
      BY <1>1, <1>2, <1>4
    <3>2. accum.dropped <= MaxDrops /\ accum.dropped # MaxDrops
      BY <1>4, <3>1 DEF SeqInv
    <3> QED BY ONLY <1>1, <1>2, <3>2
  <2>2. accum'.dropped = accum.dropped + 1
    BY <1>1, <1>2, <1>4, <2>1 DEF Least
  <2>3. accum'.n + unread' < BatchSamples
    BY <1>1, <1>2, <1>4
  <2>4. accum.ring # <<>> /\ Len(accum.ring) \in 1 .. Len(accum.ring)
    BY <1>1, <1>2, <1>4 DEF RingFull
  <2> DEFINE s == accum.ring[Len(accum.ring)].seq
  <2>5. s \in Seqs /\ Follows(s)
    BY <1>1, <2>4 DEF SeqInv
  <2>6. ((accum.seq - s) % SeqRange) + 1 < SeqRange
    BY <1>1, <1>2, <2>1, <2>5 DEF Follows
  <2>7. (((accum.seq + 1) % SeqRange) - s) % SeqRange = ((accum.seq - s) % SeqRange) + 1
    BY <1>1, <2>5, <2>6, SeqNext
  <2>8. (accum'.seq - s) % SeqRange = accum'.dropped + 1
    BY <1>4, <2>2, <2>5, <2>7 DEF Follows
  <2>9. accum'.dropped <= MaxDrops
    BY <1>1, <1>2, <2>1, <2>2
  <2> QED BY <1>4, <2>3, <2>4, <2>8, <2>9 DEF SeqInv, GapShows, Follows
<1>5. ASSUME accum.n + 1 = BatchSamples, accum'.n = 0,
             accum'.seq = (accum.seq + 1) % SeqRange, ~RingFull, accum'.dropped = 0,
             NEW from \in SUBSET Runs,
             accum'.ring = Append(accum.ring, [seq |-> accum.seq, from |-> from,
                                               gap |-> accum.dropped > 0])
      PROVE  SeqInv'
  <2> DEFINE batch == [seq |-> accum.seq, from |-> from, gap |-> accum.dropped > 0]
             L == Len(accum.ring)
  <2>1. batch.seq = accum.seq /\ (batch.gap <=> accum.dropped > 0) /\ batch \in Batches
    <3>1. (accum.dropped > 0) \in BOOLEAN
      BY <1>1
    <3> QED BY <1>1, <3>1 DEF Batches
  <2>2. accum'.ring = Append(accum.ring, batch)
    BY <1>5
  <2> HIDE DEF batch
  <2>3. /\ Len(accum'.ring) = L + 1 /\ accum'.ring[L + 1] = batch
        /\ \A k \in 1 .. L : accum'.ring[k] = accum.ring[k]
        /\ accum'.ring # <<>>
    BY <1>1, <2>1, <2>2, AppendProperties
  <2>4. accum'.n + unread' < BatchSamples /\ accum'.dropped <= MaxDrops
    BY <1>1, <1>2, <1>5
  <2>5. ASSUME NEW s \in Seqs, Follows(s) PROVE GapShows(batch, s)
    BY <1>1, <2>1, <2>5 DEF Follows, GapShows
  <2>6. \A k \in 2 .. L + 1 : GapShows(accum'.ring[k], accum'.ring[k-1].seq)
    <3>1. ASSUME NEW k \in 2 .. L PROVE GapShows(accum'.ring[k], accum'.ring[k-1].seq)
      <4>1. k \in 1 .. L /\ k - 1 \in 1 .. L
        BY <1>1
      <4> QED BY <2>3, <4>1 DEF SeqInv
    <3>2. CASE L >= 1
      <4>1. L \in 1 .. L /\ (L + 1) - 1 = L /\ accum.ring # <<>>
        BY <1>1, <3>2
      <4>2. accum.ring[L].seq \in Seqs /\ Follows(accum.ring[L].seq)
        BY <1>1, <4>1 DEF SeqInv
      <4>3. GapShows(accum'.ring[L + 1], accum'.ring[(L + 1) - 1].seq)
        BY <2>3, <2>5, <4>1, <4>2
      <4>4. \A k \in 2 .. L + 1 : k \in 2 .. L \/ k = L + 1
        BY <1>1
      <4> QED BY <3>1, <4>3, <4>4
    <3>3. CASE ~(L >= 1)
      <4>1. 2 .. L + 1 = {}
        BY <1>1, <3>3
      <4> QED BY <4>1
    <3> QED BY <3>2, <3>3
  <2>7. disp.have_seq => GapShows(accum'.ring[1], disp.last_seq)
    <3>1. CASE L >= 1
      <4>1. accum.ring # <<>> /\ 1 \in 1 .. L
        BY <1>1, <3>1
      <4> QED BY <2>3, <4>1 DEF SeqInv
    <3>2. CASE ~(L >= 1)
      <4>1. L = 0 /\ accum.ring = <<>>
        BY <1>1, <3>2
      <4>2. accum'.ring[1] = batch
        BY <2>3, <4>1
      <4> QED BY <1>1, <2>5, <4>1, <4>2 DEF SeqInv
    <3> QED BY <3>1, <3>2
  <2>8. (accum'.seq - accum'.ring[Len(accum'.ring)].seq) % SeqRange = accum'.dropped + 1
    <3>1. (accum.seq - accum.seq) % SeqRange = 0
      BY <1>1, SeqAhead DEF Seqs
    <3>2. (((accum.seq + 1) % SeqRange) - accum.seq) % SeqRange = 1
      BY <1>1, <1>2, <3>1, SeqNext
    <3> QED BY <1>5, <2>1, <2>3, <3>2
  <2> QED BY <2>3, <2>4, <2>6, <2>7, <2>8 DEF SeqInv, GapShows, Follows
<1> QED BY <1>3, <1>4, <1>5, SampleCases

(* A batch is processed, or skipped as degenerate: the next one moves up.  *)
LEMMA SeqBatch ==
  ASSUME TypeInv, SeqInv, UpdateBatch PROVE SeqInv'
<1>1. /\ accum \in Accums /\ accum.ring \in Seq(Batches) /\ Len(accum.ring) \in Nat
      /\ accum.n \in 0 .. BatchSamples - 1 /\ unread \in 0 .. MaxUnread
      /\ Len(accum.ring) < RingDepth /\ RingDepth \in Nat
  BY SizesAssumption, SeqFacts DEF TypeInv, AdcTypes
<1>2. /\ accum.ring # <<>> /\ accum' = [accum EXCEPT !.ring = Tail(accum.ring)]
      /\ UNCHANGED <<unread, s_running>>
      /\ GoodBatch(Head(accum.ring)) \/ DegenerateBatch
  BY DEF UpdateBatch, adcVars
<1> DEFINE L == Len(accum.ring)
<1>3. /\ Head(accum.ring) = accum.ring[1] /\ L >= 1
      /\ Len(Tail(accum.ring)) = L - 1
      /\ \A k \in 1 .. L - 1 : Tail(accum.ring)[k] = accum.ring[k + 1]
      /\ Tail(accum.ring) = <<>> <=> L = 1
  <2>1. /\ Head(accum.ring) = accum.ring[1] /\ L >= 1
        /\ Tail(accum.ring) \in Seq(Batches) /\ Len(Tail(accum.ring)) = L - 1
        /\ \A k \in 1 .. L - 1 : Tail(accum.ring)[k] = accum.ring[k + 1]
    BY <1>1, <1>2, HeadTailProperties
  <2>2. Tail(accum.ring) = <<>> <=> Len(Tail(accum.ring)) = 0
    BY <2>1, EmptySeq
  <2> QED BY <1>1, <2>1, <2>2
<1>4. /\ accum'.n = accum.n /\ accum'.seq = accum.seq /\ accum'.dropped = accum.dropped
      /\ accum'.ring = Tail(accum.ring)
  BY <1>1, <1>2 DEF Accums
<1>5. disp'.have_seq => disp'.last_seq = accum.ring[1].seq
  <2>1. CASE GoodBatch(Head(accum.ring))
    <3>1. PICK c : disp' = [have_seq |-> TRUE, last_seq |-> Head(accum.ring).seq, count |-> c]
      BY <2>1 DEF GoodBatch
    <3> QED BY <1>3, <3>1
  <2>2. CASE DegenerateBatch
    <3>1. disp' = [disp EXCEPT !.have_seq = FALSE]
      BY <2>2 DEF DegenerateBatch
    <3> QED BY <3>1 DEF TypeInv, MeasTypes
  <2> QED BY <1>2, <2>1, <2>2
<1>6. accum'.dropped <= MaxDrops /\ ~RingFull'
  <2>1. Len(accum'.ring) # RingDepth - 1
    BY <1>1, <1>3, <1>4
  <2> QED BY <1>4, <2>1 DEF SeqInv, RingFull
<1>7. CASE s_running
  <2>1. \A k \in 2 .. L : GapShows(accum.ring[k], accum.ring[k-1].seq)
    BY <1>7 DEF SeqInv
  <2>2. Follows(accum.ring[L].seq)
    BY <1>2, <1>7 DEF SeqInv
  <2>3. ASSUME NEW k \in 2 .. L - 1
        PROVE  GapShows(accum'.ring[k], accum'.ring[k-1].seq)
    <3>1. /\ k \in 1 .. L - 1 /\ k - 1 \in 1 .. L - 1 /\ k + 1 \in 2 .. L
          /\ (k + 1) - 1 = k /\ (k - 1) + 1 = k
      BY <1>1
    <3>2. accum'.ring[k] = accum.ring[k + 1] /\ accum'.ring[k - 1] = accum.ring[k]
      BY <1>3, <1>4, <3>1
    <3>3. GapShows(accum.ring[k + 1], accum.ring[(k + 1) - 1].seq)
      BY <2>1, <3>1
    <3> QED BY <3>1, <3>2, <3>3
  <2>4. CASE L = 1
    <3>1. accum'.ring = <<>> /\ Len(accum'.ring) = 0
      BY <1>3, <1>4, <2>4
    <3>2. disp'.have_seq => (accum'.seq - disp'.last_seq) % SeqRange = accum'.dropped + 1
      BY <1>4, <1>5, <2>2, <2>4 DEF Follows
    <3>3. 2 .. Len(accum'.ring) = {}
      BY <3>1
    <3> QED BY <1>6, <3>1, <3>2, <3>3 DEF SeqInv, Follows
  <2>5. CASE L # 1
    <3>1. /\ L >= 2 /\ accum'.ring # <<>> /\ Len(accum'.ring) = L - 1
          /\ 1 \in 1 .. L - 1 /\ L - 1 \in 1 .. L - 1 /\ 2 \in 2 .. L
      BY <1>1, <1>3, <1>4, <2>5
    <3>2. accum'.ring[1] = accum.ring[2] /\ accum'.ring[Len(accum'.ring)] = accum.ring[L]
      BY <1>1, <1>3, <1>4, <3>1
    <3>3. GapShows(accum.ring[2], accum.ring[1].seq)
      BY <2>1, <3>1
    <3>4. disp'.have_seq => GapShows(accum'.ring[1], disp'.last_seq)
      BY <1>5, <3>2, <3>3
    <3>5. (accum'.seq - accum'.ring[Len(accum'.ring)].seq) % SeqRange = accum'.dropped + 1
      BY <1>4, <2>2, <3>2 DEF Follows
    <3> QED BY <1>6, <2>3, <3>1, <3>4, <3>5 DEF SeqInv, Follows, GapShows
  <2> QED BY <2>4, <2>5
<1>8. CASE ~s_running
  BY <1>2, <1>6, <1>8 DEF SeqInv
<1> QED BY <1>7, <1>8

(* A start and a stop begin a new series.                                  *)
LEMMA SeqReset ==
  ASSUME TypeInv, SeqInv, accum' = AccumReset, unread' = 0,
         ~s_running' \/ disp' = NoWindow
  PROVE  SeqInv'
<1>1. /\ accum'.dropped = 0 /\ accum'.n = 0 /\ accum'.ring = <<>>
      /\ Len(accum'.ring) = 0
  BY DEF AccumReset
<1>2. 0 <= MaxDrops /\ accum'.n + unread' < BatchSamples
  BY <1>1, SizesAssumption
<1>3. s_running' => ~disp'.have_seq
  BY DEF NoWindow
<1>4. 2 .. Len(accum'.ring) = {}
  BY <1>1
<1> QED BY <1>1, <1>2, <1>3, <1>4 DEF SeqInv

LEMMA SeqSame ==
  SeqInv /\ UNCHANGED <<accum, unread, s_running, disp>> => SeqInv'
  BY DEF SeqInv, RingFull, Follows, GapShows

LEMMA SeqStep ==
  ASSUME "bulk" \notin Uses, MeasureInv, SeqInv, [Next]_vars PROVE SeqInv'
<1>1. TypeInv /\ CaptureInv /\ OffMeansReset /\ BulkIdle /\ ~cap.active
  BY DEF MeasureInv, OffMeansReset, CaptureInv, BulkIdle
<1>2. CASE \/ AdsFault \/ Clock \/ UpdateBegins \/ UNCHANGED vars \/ ProcedureStep
           \/ UpdateEnds /\ ~(ads_fault /\ ~s_fault_reported)
  <2>1. UNCHANGED <<accum, unread, s_running, disp>>
    BY <1>2 DEF AdsFault, Clock, UpdateBegins, UpdateEnds, vars, ProcedureStep, ZeroCalStep1,
       ZeroCalStep2, ZeroCalCancel, PrecisionBegin, PrecisionCancel, Procedure, adcVars,
       measVars
  <2> QED BY <2>1, SeqSame
<1>3. CASE Frame
  <2>1. ~RingFull \/ accum.dropped < MaxDrops
    BY <1>1, <1>3 DEF Frame
  <2>2. UNCHANGED <<accum, s_running, disp>>
    BY <1>3 DEF Frame, measVars
  <2>3. accum.dropped \in 0 .. MaxDrops + 1 /\ MaxDrops \in Nat
    BY <1>1, SeqFacts, SizesAssumption
  <2>4. ~(RingFull /\ accum.dropped = MaxDrops)
    BY <2>1, <2>3
  <2> QED BY <2>2, <2>4 DEF SeqInv, RingFull, Follows, GapShows
<1>4. CASE Sample
  <2>1. /\ unread > 0 /\ unread' = unread - 1 /\ accum' = AccumAfter(1)
        /\ UNCHANGED <<s_running, disp>>
    BY <1>1, <1>4 DEF Sample, OnSamples, measVars
  <2>2. s_running
    BY <1>1, <2>1 DEF CaptureInv, TypeInv, AdcTypes
  <2> QED BY <1>1, <2>1, <2>2, SeqSample
<1>5. CASE UpdateBatch
  BY <1>1, <1>5, SeqBatch
<1>6. ASSUME Stop PROVE SeqInv'
  BY <1>1, <1>6, SeqReset DEF Stop, StopAccum, DrvStopped
<1>7. ASSUME Start PROVE SeqInv'
  BY <1>1, <1>7, SeqReset DEF Start, DrvStart
<1>8. CASE \/ UpdateEnds /\ ads_fault /\ ~s_fault_reported
           \/ DemodStart \/ DemodStop \/ PowerTest \/ (Reconfigure /\ s_running)
  BY <1>6, <1>7, <1>8 DEF UpdateEnds, DemodStart, DemodStop, PowerTest, Reconfigure
<1>9. CASE Reconfigure /\ ~s_running
  <2>1. accum' \in {accum, AccumReset} /\ UNCHANGED <<unread, s_running, disp>>
    BY <1>9 DEF Reconfigure, adcVars, measVars
  <2>2. unread = 0
    BY <1>1, <1>9 DEF CaptureInv
  <2> QED BY <1>1, <1>9, <2>1, <2>2, SeqSame, SeqReset
<1>10. CASE CancelBulk
  BY <1>1, <1>10 DEF CancelBulk
<1>11. ASSUME NEW ready \in BOOLEAN, ApiUpdate(ready) PROVE SeqInv'
  BY <1>1, <1>11, SeqSame
     DEF ApiUpdate, BulkPump, BulkIdle, CaptureDied, PeerVanished, NoBulkChange, adcVars
<1>12. ASSUME NEW t \in Transports,
              PhasorSubscribe(t) \/ PhasorUnsubscribe(t) \/ Connect(t) \/ Disconnect(t)
       PROVE  SeqInv'
  <2>1. CASE PhasorSubscribe(t)
    BY <1>7, <2>1, SeqSame DEF PhasorSubscribe, adcVars, measVars
  <2>2. CASE PhasorUnsubscribe(t) \/ Connect(t) \/ Disconnect(t)
    <3>1. NoBulkChange /\ UNCHANGED measVars
      BY <1>1, <2>2 DEF PhasorUnsubscribe, Connect, Disconnect, OwnerLeaves
    <3> QED BY <3>1, SeqSame DEF NoBulkChange, adcVars, measVars
  <2> QED BY <1>12, <2>1, <2>2
<1>13. \A t \in Transports : ~StartBulk(t)
  BY DEF StartBulk
<1> QED BY <1>2, <1>3, <1>4, <1>5, <1>8, <1>9, <1>10, <1>11, <1>12, <1>13
        DEF Next, ProcedureStep

-----------------------------------------------------------------------------
(* A full window has been filled since the trigger.                        *)

(* While a measurement is triggered, the window has no more batches than   *)
(* were processed, without a gap, since the trigger.                       *)
FillInv ==
  /\ PrecisionIsContiguous
  /\ prec.phase = "running" /\ disp.have_seq => prec.fill <= prec.since

LEMMA FillSame ==
  FillInv /\ UNCHANGED <<prec, disp>> => FillInv'
  BY DEF FillInv, PrecisionIsContiguous
LEMMA FillIdle ==
  ASSUME prec'.phase = "idle" PROVE FillInv'
  BY DEF FillInv, PrecisionIsContiguous

(* disp_procs_break and precision_batch, for a batch whose gap shows.      *)
LEMMA PrecFedOutside ==
  ASSUME prec.phase # "running", NEW batch, NEW accepted
  PROVE  PrecFed(batch, accepted)
           = [prec EXCEPT !.fill = IF Contiguous(batch) THEN prec.fill ELSE 0]
  BY DEF PrecFed

LEMMA FillFed ==
  ASSUME TypeInv, FillInv, NEW batch \in Batches, NEW accepted \in BOOLEAN,
         disp.have_seq => GapShows(batch, disp.last_seq),
         accepted => PrecFed(batch, FALSE).fill = Window
  PROVE  LET q == PrecFed(batch, accepted) IN
         /\ q.phase = "done" /\ ~q.failed => q.since = Window
         /\ q.phase = "running" => q.fill <= q.since
<1>1. /\ prec \in Precisions /\ prec.phase \in {"idle", "running", "done"}
      /\ prec.fill \in 0 .. Window /\ prec.since \in 0 .. Window
      /\ Window \in Nat \ {0} /\ batch.gap \in BOOLEAN
  BY SizesAssumption, PrecisionForm DEF TypeInv, MeasTypes, Batches
<1> DEFINE kept == IF Contiguous(batch) THEN prec.fill ELSE 0
           f == Least(kept + 1, Window)
           s == IF batch.gap THEN 1 ELSE Least(prec.since + 1, Window)
           fed == [prec EXCEPT !.fill = f, !.since = s]
<1>2. kept \in 0 .. Window /\ f \in 0 .. Window /\ s \in 0 .. Window
  BY <1>1 DEF Least
<1>3. CASE prec.phase # "running"
  <2>1. PrecFed(batch, accepted) = [prec EXCEPT !.fill = kept]
    BY <1>3, PrecFedOutside
  <2> HIDE DEF kept
  <2>2. /\ PrecFed(batch, accepted).phase = prec.phase
        /\ PrecFed(batch, accepted).failed = prec.failed
        /\ PrecFed(batch, accepted).since = prec.since
    BY <1>1, <2>1 DEF Precisions
  <2> QED BY <1>3, <2>2 DEF FillInv, PrecisionIsContiguous
<1>4. CASE prec.phase = "running"
  <2>1. f <= s
    <3>1. Contiguous(batch) => ~batch.gap /\ prec.fill <= prec.since
      BY <1>4 DEF Contiguous, GapShows, FillInv
    <3>2. CASE Contiguous(batch)
      <4>1. kept = prec.fill /\ s = Least(prec.since + 1, Window) /\ prec.fill <= prec.since
        BY <3>1, <3>2
      <4> HIDE DEF kept, s
      <4> QED BY <1>1, <4>1 DEF Least
    <3>3. CASE ~Contiguous(batch)
      <4>1. kept = 0
        BY <3>3
      <4> HIDE DEF kept
      <4>2. f = 1
        BY <1>1, <4>1 DEF Least
      <4>3. s >= 1
        BY <1>1 DEF Least
      <4> HIDE DEF f, s
      <4> QED BY <1>2, <4>2, <4>3
    <3> QED BY <3>2, <3>3
  <2>2. \A a \in BOOLEAN :
          PrecFed(batch, a) = IF a THEN [fed EXCEPT !.phase = "done", !.failed = FALSE]
                              ELSE IF TimedOut THEN [fed EXCEPT !.phase = "done", !.failed = TRUE]
                              ELSE fed
    BY <1>4 DEF PrecFed
  <2> HIDE DEF kept, f, s
  <2>3. fed \in Precisions /\ fed.fill = f /\ fed.since = s
    BY <1>1, <1>2 DEF Precisions
  <2> HIDE DEF fed
  <2>4. PrecFed(batch, FALSE).fill = f
    BY <2>2, <2>3 DEF Precisions
  <2>5. CASE accepted
    <3>1. /\ PrecFed(batch, accepted).phase = "done"
          /\ PrecFed(batch, accepted).since = s
      BY <2>2, <2>3, <2>5 DEF Precisions
    <3>2. f = Window
      BY <2>4, <2>5
    <3>3. s = Window
      BY <1>1, <1>2, <2>1, <3>2
    <3> QED BY <3>1, <3>3
  <2>6. CASE ~accepted /\ TimedOut
    <3>1. /\ PrecFed(batch, accepted).phase = "done"
          /\ PrecFed(batch, accepted).failed = TRUE
      BY <2>2, <2>3, <2>6 DEF Precisions
    <3> QED BY <3>1
  <2>7. CASE ~accepted /\ ~TimedOut
    <3>1. PrecFed(batch, accepted) = fed
      BY <2>2, <2>7
    <3>2. fed.phase = prec.phase
      BY <1>1 DEF fed, Precisions
    <3> QED BY <1>4, <2>1, <2>3, <3>1, <3>2
  <2> QED BY <2>5, <2>6, <2>7
<1> QED BY <1>3, <1>4

LEMMA FillBatch ==
  ASSUME MeasureInv, SeqInv, FillInv, UpdateBatch PROVE FillInv'
<1>1. TypeInv /\ accum.ring \in Seq(Batches) /\ accum.ring # <<>>
  BY SeqFacts DEF MeasureInv, UpdateBatch
<1>2. Head(accum.ring) = accum.ring[1] /\ Head(accum.ring) \in Batches
  BY <1>1, HeadTailProperties
<1>3. disp.have_seq => GapShows(Head(accum.ring), disp.last_seq)
  <2>1. s_running
    BY <1>1 DEF MeasureInv, OffMeansReset
  <2> QED BY <1>1, <1>2, <2>1 DEF SeqInv
<1>4. CASE GoodBatch(Head(accum.ring))
  <2>1. PICK accepted \in BOOLEAN :
          /\ accepted => PrecFed(Head(accum.ring), FALSE).fill = Window
          /\ prec' = PrecFed(Head(accum.ring), accepted)
    BY <1>4 DEF GoodBatch
  <2>2. LET q == PrecFed(Head(accum.ring), accepted) IN
        /\ q.phase = "done" /\ ~q.failed => q.since = Window
        /\ q.phase = "running" => q.fill <= q.since
    BY <1>1, <1>2, <1>3, <2>1, FillFed
  <2> QED BY <2>1, <2>2 DEF FillInv, PrecisionIsContiguous
<1>5. CASE DegenerateBatch
  <2>1. ~disp'.have_seq
    BY <1>1, <1>5 DEF DegenerateBatch, TypeInv, MeasTypes
  <2>2. /\ prec'.phase = prec.phase /\ prec'.failed = prec.failed
        /\ prec.phase # "running" => prec'.since = prec.since
    BY <1>1, <1>5 DEF DegenerateBatch, TypeInv, MeasTypes, Precisions
  <2> QED BY <2>1, <2>2 DEF FillInv, PrecisionIsContiguous
<1> QED BY <1>4, <1>5 DEF UpdateBatch

LEMMA FillStep ==
  ASSUME MeasureInv, SeqInv, FillInv, [Next]_vars PROVE FillInv'
<1>1. TypeInv /\ prec \in Precisions /\ BulkIdle
  BY DEF MeasureInv, OffMeansReset, TypeInv, MeasTypes
<1>2. ASSUME Stop \/ Start PROVE FillInv'
  <2>1. prec'.phase = "idle"
    BY <1>1, <1>2 DEF Stop, Start, PrecIdle, Precisions
  <2> QED BY <2>1, FillIdle
<1>3. CASE \/ Frame \/ Sample \/ AdsFault \/ UpdateBegins \/ UNCHANGED vars
           \/ ZeroCalStep1 \/ ZeroCalStep2 \/ ZeroCalCancel
           \/ CancelBulk \/ \E ready \in BOOLEAN : ApiUpdate(ready)
  BY <1>3, FillSame
     DEF Frame, Sample, AdsFault, UpdateBegins, vars, ZeroCalStep1, ZeroCalStep2,
         ZeroCalCancel, Procedure, CancelBulk, ApiUpdate, measVars
<1>4. CASE Clock
  <2>1. /\ prec'.phase = prec.phase /\ prec'.failed = prec.failed
        /\ prec'.fill = prec.fill /\ prec'.since = prec.since /\ UNCHANGED disp
    BY <1>1, <1>4 DEF Clock, Precisions
  <2> QED BY <2>1 DEF FillInv, PrecisionIsContiguous
<1>5. CASE UpdateBatch
  BY <1>5, FillBatch
<1>6. CASE UpdateEnds
  <2>1. CASE ads_fault /\ ~s_fault_reported
    BY <1>2, <1>6, <2>1 DEF UpdateEnds
  <2>2. CASE ~(ads_fault /\ ~s_fault_reported)
    <3>1. prec' = Polled /\ UNCHANGED disp
      BY <1>6, <2>2 DEF UpdateEnds
    <3>2. CASE Polled = prec
      BY <3>1, <3>2, FillSame
    <3>3. CASE Polled = PrecFailed
      <4>1. prec'.phase = "done" /\ prec'.failed = TRUE
        BY <1>1, <3>1, <3>3 DEF PrecFailed, Precisions
      <4> QED BY <4>1 DEF FillInv, PrecisionIsContiguous
    <3> QED BY <3>2, <3>3 DEF Polled
  <2> QED BY <2>1, <2>2
<1>7. CASE DemodStart \/ DemodStop \/ PowerTest \/ Reconfigure
  BY <1>2, <1>7, FillSame DEF DemodStart, DemodStop, PowerTest, Reconfigure, measVars
<1>8. CASE PrecisionBegin
  <2>1. prec'.phase = "running" /\ prec'.fill = 0 /\ prec'.since = 0
    BY <1>8 DEF PrecisionBegin
  <2> QED BY <2>1 DEF FillInv, PrecisionIsContiguous
<1>9. CASE PrecisionCancel
  <2>1. prec'.phase = "idle"
    BY <1>1, <1>9 DEF PrecisionCancel, PrecIdle, Precisions
  <2> QED BY <2>1, FillIdle
<1>10. ASSUME NEW t \in Transports,
              StartBulk(t) \/ PhasorSubscribe(t) \/ PhasorUnsubscribe(t)
              \/ Connect(t) \/ Disconnect(t)
       PROVE  FillInv'
  BY <1>2, <1>10, FillSame
     DEF StartBulk, PhasorSubscribe, PhasorUnsubscribe, Connect, Disconnect, measVars
<1> QED BY <1>3, <1>4, <1>5, <1>6, <1>7, <1>8, <1>9, <1>10 DEF Next

(* Without bulk transfers, a precision result comes from a full window of  *)
(* batches without a gap, all processed since it was triggered: whatever   *)
(* was dropped, the number of the next batch shows it, for every ring and  *)
(* every turn of the numbers that is longer than the drops in a row.       *)
THEOREM PrecisionWindowIsContiguous ==
  ASSUME "bulk" \notin Uses PROVE Spec => []PrecisionIsContiguous
<1>1. Init => SeqInv /\ FillInv
  <2> SUFFICES ASSUME Init PROVE SeqInv /\ FillInv
    OBVIOUS
  <2>1. /\ accum.dropped = 0 /\ accum.n = 0 /\ accum.ring = <<>>
        /\ unread = 0 /\ ~s_running
    BY DEF Init, AccumReset
  <2>2. 0 <= MaxDrops /\ accum.n + unread < BatchSamples
    BY <2>1, SizesAssumption
  <2>3. prec.phase = "idle"
    BY DEF Init
  <2> QED BY <2>1, <2>2, <2>3 DEF SeqInv, FillInv, PrecisionIsContiguous
<1>2. MeasureInv /\ SeqInv /\ FillInv /\ [Next]_vars => SeqInv' /\ FillInv'
  BY SeqStep, FillStep
<1>3. FillInv => PrecisionIsContiguous
  BY DEF FillInv
<1> QED BY <1>1, <1>2, <1>3, MeasureInvariant, PTL DEF Spec
=============================================================================
