--------------------------- MODULE StorageProofs ---------------------------
(***************************************************************************)
(* Proofs about Storage for every number of sections and chunks, every set *)
(* of values and every limit.                                              *)
(***************************************************************************)
EXTENDS Storage, TLAPS

(* The inductive invariant: the types, and what each of the parties (boot, *)
(* driver, save) can rely on of the others.                                *)
Inv ==
  /\ TypeOK
  /\ BootIsQuiet
  /\ DriverServesSave
  /\ SaveProgress
  /\ NoZeroDivisor

(* The reset state satisfies the invariant.                                *)
LEMMA InitInv == Init => Inv
  <1>. USE SectionsAssumption, BadAssumption, CycleAssumption, DefaultAssumption,
           CallersAssumption, LimitsAssumption
      DEF SectionsAssumption, BadAssumption, CycleAssumption, DefaultAssumption,
          CallersAssumption, LimitsAssumption
  <1>. SUFFICES ASSUME Init PROVE Inv
    OBVIOUS
  <1>1. TypeOK
    <2>1. <<1, 1>> \in Cells
      BY DEF Cells, Sections
    <2>2. DriverTypeOK
      BY <2>1 DEF Init, DriverReset, DriverTypeOK, Ops, NoFlags
    <2>3. s_pending \in PendingWrite
      BY DEF Init, RamInit, NoPending, PendingWrite, Sections
    <2>4. g_device_settings \in [Sections -> Values]
      BY DEF Init, RamInit, Defaults
    <2>5. loading \in 1 .. NumSections + 1 /\ reseeded \in 0 .. Chunks - 1
          /\ busyAge \in 0 .. AsyncTimeout + 1
      BY DEF Init, RamInit
    <2>6. QED
      BY <2>2, <2>3, <2>4, <2>5 DEF Init, RamInit, TypeOK
  <1>2. BootIsQuiet
    BY DEF Init, DriverReset, RamInit, BootIsQuiet
  <1>3. DriverServesSave
    BY DEF Init, DriverReset, RamInit, DriverServesSave, TransferLanded, NoPending
  <1>4. SaveProgress
    BY DEF Init, RamInit, NoPending, SaveProgress
  <1>5. NoZeroDivisor
    BY DEF Init, RamInit, NoZeroDivisor
  <1>6. QED
    BY <1>1, <1>2, <1>3, <1>4, <1>5 DEF Inv

(* The blocking load and reseed of svc_storage_init preserve it.           *)
LEMMA BootStepInv == Inv /\ BootStep => Inv'
  <1>. USE SectionsAssumption, BadAssumption, CycleAssumption, DefaultAssumption,
           CallersAssumption, LimitsAssumption
      DEF SectionsAssumption, BadAssumption, CycleAssumption, DefaultAssumption,
          CallersAssumption, LimitsAssumption
  <1>. SUFFICES ASSUME Inv, BootStep PROVE Inv'
    OBVIOUS
  <1>. USE DEF Inv
  <1>1. phase # "run"
    BY DEF BootStep, LoadSection, SectionUnreadable, SectionBad, ReseedChunk,
           ReseedFails, BootDone
  <1>2. /\ UNCHANGED <<cycling, cycleAge, drvVars, rbuf, saveVars, settings_editing>>
        /\ loading' \in 1 .. NumSections + 1
        /\ phase' \in {"boot", "reseed", "run"}
        /\ phase' = "reseed" => loading' \in Sections
        /\ g_device_settings' \in [Sections -> Values]
        /\ phase' = "run" => \A s \in Sections : g_device_settings'[s] \notin ZeroDivisors
    <2>1. CASE \E v \in Values : LoadSection(v)
      BY <2>1 DEF LoadSection, TypeOK, BootIsQuiet, Sections, eepromVars, drvVars, saveVars
    <2>2. CASE SectionUnreadable
      BY <2>2 DEF SectionUnreadable, TypeOK, BootIsQuiet, Sections, eepromVars, drvVars, saveVars
    <2>3. CASE SectionBad
      BY <2>3 DEF SectionBad, TypeOK, BootIsQuiet, Sections, eepromVars, drvVars, saveVars
    <2>4. CASE ReseedChunk
      BY <2>4 DEF ReseedChunk, TypeOK, BootIsQuiet, Sections, drvVars, saveVars
    <2>5. CASE ReseedFails
      BY <2>5 DEF ReseedFails, TypeOK, BootIsQuiet, Sections, drvVars, saveVars
    <2>6. CASE BootDone
      BY <2>6 DEF BootDone, TypeOK, BootIsQuiet, Sections, eepromVars, drvVars, saveVars,
                  Validated, ValidValue
    <2>7. QED
      BY <2>1, <2>2, <2>3, <2>4, <2>5, <2>6 DEF BootStep
  <1>3. /\ chip' \in [Cells -> Values \cup {Bad}]
        /\ reseeded' \in 0 .. Chunks - 1
        /\ settings_save_failed' \in BOOLEAN /\ s_eeprom_unreachable' \in BOOLEAN
    <2>1. CASE \E v \in Values : LoadSection(v)
      BY <2>1 DEF LoadSection, TypeOK, DriverTypeOK, eepromVars, flagVars
    <2>2. CASE SectionUnreadable
      BY <2>2 DEF SectionUnreadable, TypeOK, DriverTypeOK, eepromVars
    <2>3. CASE SectionBad
      BY <2>3 DEF SectionBad, TypeOK, DriverTypeOK, eepromVars, flagVars
    <2>4. CASE ReseedChunk
      <3>1. g_device_settings[loading] \in Values
        BY <2>4 DEF ReseedChunk, BootIsQuiet, TypeOK
      <3>2. chip' \in [Cells -> Values \cup {Bad}]
        BY <2>4, <3>1 DEF ReseedChunk, TypeOK, DriverTypeOK
      <3>3. QED
        BY <2>4, <3>2 DEF ReseedChunk, TypeOK, flagVars
    <2>5. CASE ReseedFails
      <3>1. \E v \in Values \cup {Bad} : chip' = [chip EXCEPT ![ReseedCell] = v]
        <4>1. ReseedCell \in Cells
          BY <2>5 DEF ReseedFails, ReseedCell, Cells, Sections, BootIsQuiet, TypeOK
        <4>2. g_device_settings[loading] \in Values /\ chip[ReseedCell] \in Values \cup {Bad}
          <5>1. loading \in Sections
            BY <2>5 DEF ReseedFails, BootIsQuiet
          <5>2. g_device_settings \in [Sections -> Values]
            BY DEF TypeOK
          <5>3. chip \in [Cells -> Values \cup {Bad}]
            BY DEF TypeOK, DriverTypeOK
          <5> QED BY ONLY <4>1, <5>1, <5>2, <5>3
        <4>3. QED
          BY <2>5, <4>2 DEF ReseedFails
      <3>2. chip' \in [Cells -> Values \cup {Bad}]
        BY <3>1 DEF TypeOK, DriverTypeOK
      <3>3. QED
        BY <2>5, <3>2 DEF ReseedFails, TypeOK
    <2>6. CASE BootDone
      BY <2>6 DEF BootDone, TypeOK, DriverTypeOK, eepromVars, flagVars
    <2>7. QED
      BY <2>1, <2>2, <2>3, <2>4, <2>5, <2>6 DEF BootStep
  <1>4. TypeOK'
    <2>1. DriverTypeOK'
      BY <1>2, <1>3 DEF TypeOK, DriverTypeOK, drvVars
    <2>2. QED
      BY <1>2, <1>3, <2>1 DEF TypeOK, saveVars
  <1>5. s_pending' = NoPending /\ s_op' = "IDLE" /\ bus' = "none"
    BY <1>1, <1>2 DEF BootIsQuiet, drvVars, saveVars
  <1>6. BootIsQuiet'
    BY <1>2, <1>5 DEF BootIsQuiet
  <1>7. DriverServesSave' /\ SaveProgress'
    BY <1>5 DEF DriverServesSave, SaveProgress, TransferLanded, NoPending
  <1>8. NoZeroDivisor'
    BY <1>2 DEF NoZeroDivisor
  <1>9. QED
    BY <1>4, <1>6, <1>7, <1>8

-----------------------------------------------------------------------------
(* The counters can be reset: their ranges start at zero.                  *)
LEMMA ZeroInRange == 0 \in 0 .. AsyncTimeout + 1 /\ 0 \in 0 .. WriteCycle
  BY LimitsAssumption, CycleAssumption DEF LimitsAssumption, CycleAssumption

(* A save record is of its type when each of its fields is, and conversely. *)
LEMMA PendingIntro ==
  ASSUME NEW active \in BOOLEAN, NEW sec \in Sections, NEW buf \in Values,
         NEW written \in 0 .. Chunks, NEW inflight \in BOOLEAN,
         NEW retry \in 0 .. MaxRetries
  PROVE  [active |-> active, sec |-> sec, buf |-> buf, written |-> written,
          inflight |-> inflight, retry |-> retry] \in PendingWrite
  BY DEF PendingWrite

(* Conversely, a save record of its type has fields of theirs.             *)
LEMMA PendingElim ==
  ASSUME NEW p \in PendingWrite
  PROVE  /\ p.active \in BOOLEAN /\ p.sec \in Sections /\ p.buf \in Values
         /\ p.written \in 0 .. Chunks /\ p.inflight \in BOOLEAN
         /\ p.retry \in 0 .. MaxRetries
         /\ p = [active |-> p.active, sec |-> p.sec, buf |-> p.buf,
                 written |-> p.written, inflight |-> p.inflight, retry |-> p.retry]
  BY DEF PendingWrite

(* A save that starts establishes the invariant for its first page.        *)
LEMMA SaveStartsInv ==
  ASSUME Inv, ~s_pending.active, phase = "run", phase' = "run",
         UNCHANGED eepromVars,
         s_pending' = SectionStart(1, g_device_settings'),
         g_device_settings' \in [Sections -> Values]
  PROVE  s_pending' \in PendingWrite /\ DriverServesSave' /\ SaveProgress'
  <1>0. NumSections \in Nat \ {0} /\ Chunks \in Nat \ {0} /\ MaxRetries \in Nat
    BY SectionsAssumption, LimitsAssumption DEF SectionsAssumption, LimitsAssumption
  <1>. USE DEF Inv
  <1>1. ~s_pending.inflight
    BY DEF DriverServesSave, TypeOK, PendingWrite
  <1>2. s_pending' = [active |-> TRUE, sec |-> 1, buf |-> g_device_settings'[1],
                      written |-> 0, inflight |-> FALSE, retry |-> 0]
    BY DEF SectionStart
  <1>3. s_pending' \in PendingWrite
    <2>1. 1 \in Sections /\ 0 \in 0 .. Chunks /\ 0 \in 0 .. MaxRetries
      BY <1>0 DEF Sections
    <2>2. g_device_settings'[1] \in Values
      BY <2>1
    <2>3. QED
      BY <1>2, <2>1, <2>2, PendingIntro
  <1>4. DriverServesSave'
    BY <1>1, <1>2 DEF DriverServesSave, TransferLanded, eepromVars
  <1>5. SaveProgress'
    BY <1>2 DEF SaveProgress, Sections
  <1>6. QED
    BY <1>3, <1>4, <1>5

(* The callers of svc_storage preserve the invariant: the ones that change *)
(* anything but the page of the SETTINGS screen do so with no save active. *)
LEMMA CallersInv == Inv /\ Callers => Inv'
  <1>. SUFFICES ASSUME Inv, Callers PROVE Inv'
    OBVIOUS
  <1>. USE DEF Inv
  <1>1. /\ phase = "run"
        /\ UNCHANGED <<eepromVars, bootVars, s_busy_seen, busyAge, s_eeprom_unreachable>>
    BY DEF Callers, SaveCall, FieldSet, ZeroCalApply, RestoreDefaults, EnterEdit,
           CancelEdit, CommitEdit, ClearCounters
  <1>2. /\ g_device_settings' \in [Sections -> Values]
        /\ \A s \in Sections : g_device_settings'[s] \notin ZeroDivisors
        /\ settings_save_failed' \in BOOLEAN
        /\ settings_editing' \in BOOLEAN
        /\ \/ ~s_pending.active /\ s_pending' = SectionStart(1, g_device_settings')
           \/ /\ s_pending' = s_pending
              /\ s_pending.active =>
                   \A s \in Sections \ {UiSection} :
                     g_device_settings'[s] = g_device_settings[s]
    <2>1. CASE \E s \in Sections, v \in GoodValues : FieldSet(s, v)
      BY <2>1, <1>1, DefaultAssumption DEF DefaultAssumption, svc_storage_is_busy,
                        FieldSet, SaveOrFlag, SaveAccepted, Validated, ValidValue,
                        GoodValues, TypeOK
    <2>2. CASE \E v \in GoodValues : ZeroCalApply(v)
      BY <2>2, <1>1, DefaultAssumption DEF DefaultAssumption, svc_storage_is_busy,
                        ZeroCalApply, SaveOrFlag, SaveAccepted, Validated, ValidValue,
                        GoodValues, TypeOK
    <2>3. CASE \E v \in GoodValues : CommitEdit(v)
      BY <2>3, <1>1 DEF CommitEdit, SaveOrFlag, SaveAccepted, GoodValues, TypeOK,
                        NoZeroDivisor
    <2>4. CASE RestoreDefaults
      BY <2>4, <1>1, DefaultAssumption DEF DefaultAssumption, svc_storage_is_busy,
                        RestoreDefaults, SaveAccepted, Validated, ValidValue, Defaults,
                        TypeOK
    <2>5. CASE EnterEdit \/ CancelEdit \/ ClearCounters
      BY <2>5, <1>1 DEF EnterEdit, CancelEdit, ClearCounters, TypeOK, NoZeroDivisor
    <2>6. QED
      BY <2>1, <2>2, <2>3, <2>4, <2>5 DEF Callers
  <1>3. s_pending' \in PendingWrite /\ DriverServesSave' /\ SaveProgress'
    <2>1. CASE ~s_pending.active /\ s_pending' = SectionStart(1, g_device_settings')
      BY <2>1, <1>1, <1>2, SaveStartsInv DEF bootVars
    <2>2. CASE /\ s_pending' = s_pending
               /\ s_pending.active =>
                    \A s \in Sections \ {UiSection} :
                      g_device_settings'[s] = g_device_settings[s]
      <3>1. s_pending' \in PendingWrite
        BY <2>2 DEF TypeOK
      <3>2. DriverServesSave'
        BY <2>2, <1>1 DEF DriverServesSave, TransferLanded, eepromVars
      <3>3. SaveProgress'
        BY <2>2, <1>1 DEF SaveProgress, Whole, Holds, eepromVars, TypeOK, PendingWrite
      <3>4. QED
        BY <3>1, <3>2, <3>3
    <2>3. QED
      BY <1>2, <2>1, <2>2
  <1>4. TypeOK'
    <2>1. DriverTypeOK'
      BY <1>1 DEF TypeOK, DriverTypeOK, eepromVars
    <2>2. QED
      BY <1>1, <1>2, <1>3, <2>1 DEF TypeOK, bootVars
  <1>5. BootIsQuiet' /\ NoZeroDivisor'
    BY <1>1, <1>2 DEF BootIsQuiet, NoZeroDivisor, bootVars
  <1>6. QED
    BY <1>3, <1>4, <1>5

-----------------------------------------------------------------------------
DmaFlags == [done : BOOLEAN, ok : BOOLEAN, wr : BOOLEAN, rd : BOOLEAN]

(* What svc_storage_update finds when the driver has become idle: the flags *)
(* report success only for a chunk that is on the chip, and nothing but    *)
(* the chunk in flight has changed.                                        *)
DriverIdleWith(flags) ==
  /\ chip' \in [Cells -> Values \cup {Bad}]
  /\ cycling' \in SUBSET Cells /\ cycleAge' \in 0 .. 1
  /\ \A cell \in Cells :
       chip'[cell] # chip[cell] => s_pending.inflight /\ cell = tx.cell
  /\ s_pending.inflight /\ flags.wr => chip'[tx.cell] = s_pending.buf

(* An abort may have cut the chunk in flight short; a chunk reported as     *)
(* written was left to the chip for the whole of the driver's wait.        *)
ChunkLeft(flags) ==
  /\ \/ UNCHANGED <<chip, cycling>>
     \/ /\ s_pending.inflight
        /\ \E v \in {tx.val, Bad} : chip' = [chip EXCEPT ![tx.cell] = v]
        /\ cycling' = {tx.cell}
  /\ s_pending.inflight /\ flags.wr => CycleOver /\ UNCHANGED <<chip, cycling>>

(* What is on the chip by then: the chunks counted as written, and the     *)
(* pages behind the one in progress.                                       *)
LEMMA ConfirmedIsOnChip ==
  ASSUME Inv, s_pending.active, NEW flags \in DmaFlags, DriverIdleWith(flags),
         UNCHANGED g_device_settings
  PROVE  /\ s_pending.active \in BOOLEAN /\ s_pending.sec \in Sections
         /\ s_pending.buf \in Values
         /\ s_pending.written \in 0 .. Chunks /\ s_pending.inflight \in BOOLEAN
         /\ s_pending.retry \in 0 .. MaxRetries
         /\ s_pending = [active |-> TRUE, sec |-> s_pending.sec, buf |-> s_pending.buf,
                         written |-> s_pending.written, inflight |-> s_pending.inflight,
                         retry |-> s_pending.retry]
         /\ s_pending.inflight => s_pending.written < Chunks
         /\ Confirmed(flags) \in 0 .. Chunks
         /\ \/ Confirmed(flags) = s_pending.written
            \/ Confirmed(flags) = s_pending.written + 1 /\ s_pending.inflight /\ flags.wr
         /\ \A c \in 1 .. Confirmed(flags) :
              chip'[<<s_pending.sec, c>>] = s_pending.buf
         /\ \A s \in Sections : s < s_pending.sec =>
              Whole(s)' /\ (s # UiSection => Holds(s, g_device_settings[s])')
         /\ s_pending.sec # UiSection => s_pending.buf = g_device_settings[s_pending.sec]
  <1>0. NumSections \in Nat \ {0} /\ Chunks \in Nat \ {0} /\ MaxRetries \in Nat
    BY SectionsAssumption, LimitsAssumption DEF SectionsAssumption, LimitsAssumption
  <1>. USE DEF Inv
  <1>1. /\ s_pending.active \in BOOLEAN /\ s_pending.sec \in Sections
        /\ s_pending.buf \in Values
        /\ s_pending.written \in 0 .. Chunks /\ s_pending.inflight \in BOOLEAN
        /\ s_pending.retry \in 0 .. MaxRetries
        /\ s_pending = [active |-> TRUE, sec |-> s_pending.sec, buf |-> s_pending.buf,
                        written |-> s_pending.written, inflight |-> s_pending.inflight,
                        retry |-> s_pending.retry]
    <2>1. s_pending \in PendingWrite
      BY DEF TypeOK
    <2>2. QED
      BY <2>1, PendingElim
  <1>2. /\ s_pending.inflight => s_pending.written < Chunks
        /\ Confirmed(flags) \in 0 .. Chunks
        /\ \/ Confirmed(flags) = s_pending.written
           \/ Confirmed(flags) = s_pending.written + 1 /\ s_pending.inflight /\ flags.wr
    BY <1>0, <1>1 DEF DriverServesSave, Confirmed
  <1>3. \A c \in 1 .. Confirmed(flags) : chip'[<<s_pending.sec, c>>] = s_pending.buf
    <2>. SUFFICES ASSUME NEW c \in 1 .. Confirmed(flags)
                  PROVE  chip'[<<s_pending.sec, c>>] = s_pending.buf
      OBVIOUS
    <2>1. <<s_pending.sec, c>> \in Cells
      BY <1>0, <1>1, <1>2 DEF Cells
    <2>2. CASE c = s_pending.written + 1
      <3>1. s_pending.inflight /\ flags.wr
        BY <1>0, <1>1, <1>2, <2>2
      <3>2. tx.cell = <<s_pending.sec, c>>
        BY <3>1, <2>2 DEF DriverServesSave
      <3>3. QED
        BY <3>1, <3>2 DEF DriverIdleWith
    <2>3. CASE c \in 1 .. s_pending.written
      <3>1. chip[<<s_pending.sec, c>>] = s_pending.buf
        BY <2>3 DEF SaveProgress
      <3>2. s_pending.inflight => tx.cell # <<s_pending.sec, c>>
        BY <1>1, <2>3 DEF DriverServesSave
      <3>3. QED
        BY <2>1, <3>1, <3>2 DEF DriverIdleWith
    <2>4. QED
      BY <1>1, <1>2, <2>2, <2>3
  <1>4. \A s \in Sections : s < s_pending.sec =>
          Whole(s)' /\ (s # UiSection => Holds(s, g_device_settings[s])')
    <2>. SUFFICES ASSUME NEW s \in Sections, s < s_pending.sec
                  PROVE  Whole(s)' /\ (s # UiSection => Holds(s, g_device_settings[s])')
      OBVIOUS
    <2>1. \A c \in 1 .. Chunks : chip'[<<s, c>>] = chip[<<s, c>>]
      <3>1. s # s_pending.sec
        BY <1>0, <1>1 DEF Sections
      <3>2. QED
        BY <3>1 DEF DriverIdleWith, DriverServesSave, Cells
    <2>2. QED
      BY <2>1 DEF SaveProgress, Whole, Holds
  <1>5. s_pending.sec # UiSection => s_pending.buf = g_device_settings[s_pending.sec]
    BY DEF SaveProgress
  <1>6. QED
    BY <1>1, <1>2, <1>3, <1>4, <1>5

(* Whatever svc_storage_update then does with the chunk's outcome (retry,  *)
(* abandon, next chunk, next page, done) preserves the invariant.          *)
LEMMA OperationOverInv ==
  ASSUME Inv, phase = "run", s_pending.active,
         NEW flags \in DmaFlags, DriverIdleWith(flags), OperationOver(flags),
         UNCHANGED <<bootVars, g_device_settings, s_eeprom_unreachable, settings_editing>>
  PROVE  Inv'
  <1>0. NumSections \in Nat \ {0} /\ Chunks \in Nat \ {0} /\ MaxRetries \in Nat
    BY SectionsAssumption, LimitsAssumption DEF SectionsAssumption, LimitsAssumption
  <1>. USE DEF Inv
  <1>. DEFINE done == Confirmed(flags)
  <1>1. /\ s_pending.active \in BOOLEAN /\ s_pending.sec \in Sections
        /\ s_pending.buf \in Values
        /\ s_pending.written \in 0 .. Chunks /\ s_pending.inflight \in BOOLEAN
        /\ s_pending.retry \in 0 .. MaxRetries
        /\ s_pending = [active |-> TRUE, sec |-> s_pending.sec, buf |-> s_pending.buf,
                        written |-> s_pending.written, inflight |-> s_pending.inflight,
                        retry |-> s_pending.retry]
    BY ConfirmedIsOnChip
  <1>2. /\ s_pending.inflight => s_pending.written < Chunks
        /\ done \in 0 .. Chunks
        /\ \/ done = s_pending.written
           \/ done = s_pending.written + 1 /\ s_pending.inflight /\ flags.wr
    BY ConfirmedIsOnChip
  <1>3. \A c \in 1 .. done : chip'[<<s_pending.sec, c>>] = s_pending.buf
    BY ConfirmedIsOnChip
  <1>4. \A s \in Sections : s < s_pending.sec =>
          Whole(s)' /\ (s # UiSection => Holds(s, g_device_settings[s])')
    BY ConfirmedIsOnChip
  <1>5. s_pending.sec # UiSection => s_pending.buf = g_device_settings[s_pending.sec]
    BY ConfirmedIsOnChip
  <1>6. ASSUME NEW n \in 1 .. Chunks, NEW r \in 0 .. MaxRetries,
               s_pending' = [active |-> TRUE, sec |-> s_pending.sec,
                             buf |-> s_pending.buf, written |-> n - 1,
                             inflight |-> TRUE, retry |-> r],
               \A c \in 1 .. n - 1 : chip'[<<s_pending.sec, c>>] = s_pending.buf,
               WritePage(<<s_pending.sec, n>>, s_pending.buf, flags)
        PROVE  /\ s_pending' \in PendingWrite
               /\ DriverServesSave' /\ SaveProgress'
               /\ s_op' \in Ops /\ s_dma' \in DmaFlags
               /\ tx' \in [cell : Cells, val : Values]
               /\ bus' \in {"none", "write", "addr", "read"}
    <2>1. /\ s_pending'.written = n - 1 /\ s_pending'.inflight /\ s_pending'.active
          /\ s_pending'.sec = s_pending.sec /\ s_pending'.buf = s_pending.buf
      BY <1>6
    <2>2. s_pending' \in PendingWrite
      <3>1. n - 1 \in 0 .. Chunks
        BY <1>0
      <3>2. QED
        BY <1>1, <1>6, <3>1, PendingIntro
    <2>3. /\ tx' = [cell |-> <<s_pending.sec, n>>, val |-> s_pending.buf]
          /\ s_op' = "DMA_WRITE"
          /\ s_dma' \in DmaFlags /\ ~s_dma'.wr /\ ~s_dma'.ok
          /\ \/ bus' = "none" /\ s_dma'.done
             \/ bus' = "write" /\ ~s_dma'.done
      BY <1>6 DEF WritePage, HalStart, DmaFlags
    <2>4. n = s_pending'.written + 1 /\ s_pending'.written < Chunks
      BY <1>0, <2>1
    <2>5. DriverServesSave'
      BY <2>1, <2>3, <2>4 DEF DriverServesSave, TransferLanded
    <2>6. SaveProgress'
      BY <1>4, <1>5, <1>6, <2>1 DEF SaveProgress
    <2>7. tx' \in [cell : Cells, val : Values]
      <3>1. <<s_pending.sec, n>> \in Cells
        BY <1>1 DEF Cells
      <3>2. QED
        BY <1>1, <2>3, <3>1
    <2>8. QED
      BY <2>2, <2>3, <2>5, <2>6, <2>7 DEF Ops
  <1>7. ASSUME DriverStaysIdle(flags), ~s_pending'.inflight
        PROVE  /\ DriverServesSave'
               /\ s_op' \in Ops /\ s_dma' \in DmaFlags
               /\ tx' \in [cell : Cells, val : Values]
               /\ bus' \in {"none", "write", "addr", "read"}
    <2>1. s_op' = "IDLE" /\ bus' = "none" /\ s_dma' = flags /\ tx' = tx
      BY <1>7 DEF DriverStaysIdle
    <2>2. DriverServesSave'
      BY <1>7, <2>1 DEF DriverServesSave, TransferLanded
    <2>3. QED
      BY <2>1, <2>2 DEF Ops, TypeOK, DriverTypeOK
  <1>. DEFINE Fine == /\ s_pending' \in PendingWrite
                      /\ DriverServesSave' /\ SaveProgress'
                      /\ s_op' \in Ops /\ s_dma' \in DmaFlags
                      /\ tx' \in [cell : Cells, val : Values]
                      /\ bus' \in {"none", "write", "addr", "read"}
                      /\ settings_save_failed' \in BOOLEAN
  <1>8. ASSUME RetryChunk(flags) PROVE Fine
    <2>1. s_pending.inflight /\ ~flags.wr /\ s_pending.retry < MaxRetries
      BY <1>8 DEF RetryChunk, ChunkFailed, RetriesLeft
    <2>. DEFINE n == s_pending.written + 1
                r == s_pending.retry + 1
    <2>2. n \in 1 .. Chunks /\ r \in 0 .. MaxRetries /\ n - 1 = s_pending.written
      BY <1>0, <1>1, <1>2, <2>1
    <2>3. s_pending' = [active |-> TRUE, sec |-> s_pending.sec,
                        buf |-> s_pending.buf, written |-> n - 1,
                        inflight |-> TRUE, retry |-> r]
      BY <1>8, <1>1, <2>1, <2>2 DEF RetryChunk
    <2>4. \A c \in 1 .. n - 1 : chip'[<<s_pending.sec, c>>] = s_pending.buf
      BY <1>2, <1>3, <2>1, <2>2
    <2>5. WritePage(<<s_pending.sec, n>>, s_pending.buf, flags)
          /\ settings_save_failed' \in BOOLEAN
      BY <1>8 DEF RetryChunk, TypeOK
    <2>. HIDE DEF n, r
    <2>6. QED
      BY <1>6, <2>2, <2>3, <2>4, <2>5
  <1>9. ASSUME AbandonSave(flags) PROVE Fine
    <2>1. s_pending' = [active |-> FALSE, sec |-> s_pending.sec,
                        buf |-> s_pending.buf, written |-> s_pending.written,
                        inflight |-> FALSE, retry |-> 0]
      BY <1>1, <1>9 DEF AbandonSave
    <2>2. s_pending' \in PendingWrite
      <3>1. 0 \in 0 .. MaxRetries
        BY <1>0
      <3>2. QED
        BY <1>1, <2>1, <3>1, PendingIntro
    <2>3. SaveProgress' /\ ~s_pending'.inflight
      BY <2>1 DEF SaveProgress
    <2>4. DriverStaysIdle(flags) /\ settings_save_failed' \in BOOLEAN
      BY <1>9 DEF AbandonSave
    <2>5. QED
      BY <1>7, <2>2, <2>3, <2>4
  <1>10. ASSUME NextChunk(flags) PROVE Fine
    <2>. DEFINE n == done + 1
    <2>1. done < Chunks
      BY <1>10 DEF NextChunk
    <2>2. n \in 1 .. Chunks /\ n - 1 = done /\ 0 \in 0 .. MaxRetries
      BY <1>0, <1>2, <2>1
    <2>3. s_pending' = [active |-> TRUE, sec |-> s_pending.sec,
                        buf |-> s_pending.buf, written |-> n - 1,
                        inflight |-> TRUE, retry |-> 0]
      BY <1>10, <1>1, <2>2 DEF NextChunk
    <2>4. \A c \in 1 .. n - 1 : chip'[<<s_pending.sec, c>>] = s_pending.buf
      BY <1>3, <2>2
    <2>5. WritePage(<<s_pending.sec, n>>, s_pending.buf, flags)
          /\ settings_save_failed' \in BOOLEAN
      BY <1>10 DEF NextChunk, TypeOK
    <2>. HIDE DEF n
    <2>6. QED
      BY <1>6, <2>2, <2>3, <2>4, <2>5
  <1>11. ASSUME NextSection(flags) PROVE Fine
    <2>1. done = Chunks /\ s_pending.sec < NumSections
      BY <1>11 DEF NextSection
    <2>2. s_pending.sec + 1 \in Sections
      BY <1>0, <1>1, <2>1 DEF Sections
    <2>3. s_pending' = [active |-> TRUE, sec |-> s_pending.sec + 1,
                        buf |-> g_device_settings[s_pending.sec + 1], written |-> 0,
                        inflight |-> FALSE, retry |-> 0]
      BY <1>11 DEF NextSection, SectionStart
    <2>4. s_pending' \in PendingWrite
      <3>1. g_device_settings[s_pending.sec + 1] \in Values
        BY <2>2 DEF TypeOK
      <3>2. 0 \in 0 .. Chunks /\ 0 \in 0 .. MaxRetries
        BY <1>0
      <3>3. QED
        BY <2>2, <2>3, <3>1, <3>2, PendingIntro
    <2>5. SaveProgress'
      <3>1. s_pending'.written = 0 /\ s_pending'.sec = s_pending.sec + 1
            /\ s_pending'.buf = g_device_settings'[s_pending.sec + 1]
        BY <2>3
      <3>2. ASSUME NEW s \in Sections, s < s_pending.sec + 1
            PROVE  Whole(s)' /\ (s # UiSection => Holds(s, g_device_settings[s])')
        <4>1. CASE s < s_pending.sec
          BY <4>1, <1>4
        <4>2. CASE s = s_pending.sec
          BY <4>2, <1>1, <1>3, <1>5, <2>1 DEF Whole, Holds
        <4>3. QED
          BY <4>1, <4>2, <3>2, <1>1, <1>0 DEF Sections
      <3>3. QED
        BY <3>1, <3>2 DEF SaveProgress
    <2>6. DriverStaysIdle(flags) /\ settings_save_failed' \in BOOLEAN
          /\ ~s_pending'.inflight
      BY <1>11, <2>3 DEF NextSection, TypeOK
    <2>7. QED
      BY <1>7, <2>4, <2>5, <2>6
  <1>12. ASSUME SaveDone(flags) PROVE Fine
    <2>1. s_pending' = [active |-> FALSE, sec |-> s_pending.sec,
                        buf |-> s_pending.buf, written |-> Chunks,
                        inflight |-> FALSE, retry |-> 0]
      BY <1>1, <1>12 DEF SaveDone
    <2>2. s_pending' \in PendingWrite
      <3>1. 0 \in 0 .. MaxRetries /\ Chunks \in 0 .. Chunks
        BY <1>0
      <3>2. QED
        BY <1>1, <2>1, <3>1, PendingIntro
    <2>3. SaveProgress' /\ ~s_pending'.inflight
      BY <2>1 DEF SaveProgress
    <2>4. DriverStaysIdle(flags) /\ settings_save_failed' \in BOOLEAN
      BY <1>12 DEF SaveDone
    <2>5. QED
      BY <1>7, <2>2, <2>3, <2>4
  <1>13. Fine
    BY <1>8, <1>9, <1>10, <1>11, <1>12 DEF OperationOver
  <1>14. TypeOK'
    <2>0. s_busy_seen' = FALSE /\ busyAge' = 0 /\ waited' = 0 /\ rbuf' = rbuf
      BY DEF OperationOver
    <2>1. /\ s_busy_seen' \in BOOLEAN /\ busyAge' \in 0 .. AsyncTimeout + 1
          /\ waited' \in 0 .. WriteCycle
      BY <2>0, ZeroInRange
    <2>2. DriverTypeOK'
      BY <1>13, <2>0, <2>1 DEF DriverIdleWith, DriverTypeOK, TypeOK, DmaFlags
    <2>3. QED
      BY <1>13, <2>1, <2>2 DEF TypeOK, bootVars
  <1>15. BootIsQuiet' /\ NoZeroDivisor'
    BY DEF BootIsQuiet, NoZeroDivisor, bootVars
  <1>16. QED
    BY <1>13, <1>14, <1>15

-----------------------------------------------------------------------------
(* When svc_storage_update finds the driver idle, or makes it idle by an   *)
(* abort, it acts on flags that tell the truth about the chip.             *)
LEMMA FlagsAreTrue ==
  ASSUME Inv, UpdateTimedOut \/ UpdateFinished
  PROVE  \E flags \in DmaFlags :
           DriverIdleWith(flags) /\ ChunkLeft(flags) /\ OperationOver(flags)
  <1>. USE DEF Inv
  <1>1. DriverTypeOK /\ s_dma \in DmaFlags
    BY DEF TypeOK, DriverTypeOK, DmaFlags
  <1>2. PolledFlags \in DmaFlags /\ AbortedFlags \in DmaFlags
    <2>1. s_dma.done \in BOOLEAN /\ s_dma.ok \in BOOLEAN /\ s_dma.wr \in BOOLEAN
          /\ s_dma.rd \in BOOLEAN
      BY <1>1 DEF DmaFlags
    <2>2. QED
      BY <1>1, <2>1 DEF PolledFlags, AbortedFlags, DmaFlags
  <1>3. CASE UpdateTimedOut
    <2>1. s_pending.active /\ AbortChip /\ OperationOver(AbortedFlags)
      BY <1>3 DEF UpdateTimedOut
    <2>2. \/ UNCHANGED chipVars
          \/ /\ bus = "write"
             /\ cycling' = {tx.cell} /\ cycleAge' = 0
             /\ \E v \in {tx.val, Bad} : chip' = [chip EXCEPT ![tx.cell] = v]
      BY <2>1 DEF AbortChip
    <2>3. tx.cell \in Cells /\ tx.val \in Values
      BY <1>1 DEF DriverTypeOK
    <2>4. bus = "write" => s_pending.inflight
      BY DEF DriverServesSave
    <2>5. ~AbortedFlags.wr
      BY <1>1 DEF AbortedFlags, DmaFlags
    <2>6. chip' \in [Cells -> Values \cup {Bad}]
      BY <1>1, <2>2, <2>3 DEF DriverTypeOK, chipVars
    <2>7. cycling' \in SUBSET Cells /\ cycleAge' \in 0 .. 1
      BY <1>1, <2>2, <2>3 DEF DriverTypeOK, chipVars
    <2>8. \A cell \in Cells :
            chip'[cell] # chip[cell] => s_pending.inflight /\ cell = tx.cell
      BY <1>1, <2>2, <2>4 DEF DriverTypeOK, chipVars
    <2>9. DriverIdleWith(AbortedFlags)
      BY <2>5, <2>6, <2>7, <2>8 DEF DriverIdleWith
    <2>10. ChunkLeft(AbortedFlags)
      BY <2>2, <2>4, <2>5 DEF ChunkLeft, chipVars
    <2>11. QED
      BY <1>2, <2>1, <2>9, <2>10
  <1>4. CASE UpdateFinished
    <2>1. s_pending.active /\ ~is_busy(PolledOp) /\ UNCHANGED chipVars
          /\ OperationOver(PolledFlags)
      BY <1>4 DEF UpdateFinished, BusyNow
    <2>2. s_pending.inflight /\ PolledFlags.wr => CycleOver /\ chip[tx.cell] = s_pending.buf
      <3>. SUFFICES ASSUME s_pending.inflight, PolledFlags.wr
                    PROVE  CycleOver /\ chip[tx.cell] = s_pending.buf
        OBVIOUS
      <3>1. ~s_dma.wr /\ tx.val = s_pending.buf
            /\ s_op \in {"DMA_WRITE", "WRITE_CYCLE_WAIT"}
            /\ (TransferLanded => chip[tx.cell] = tx.val)
        BY DEF DriverServesSave
      <3>2. CycleOver
        BY <3>1 DEF PolledFlags
      <3>3. QED
        BY <3>1, <3>2 DEF CycleOver, TransferLanded
    <2>3. DriverIdleWith(PolledFlags)
      BY <1>1, <2>1, <2>2 DEF DriverIdleWith, DriverTypeOK, chipVars
    <2>4. ChunkLeft(PolledFlags)
      BY <2>1, <2>2 DEF ChunkLeft, chipVars
    <2>5. QED
      BY <1>2, <2>1, <2>3, <2>4
  <1>5. QED
    BY <1>3, <1>4

(* task_storage preserves the invariant.                                   *)
LEMMA UpdateInv == Inv /\ StorageUpdate => Inv'
  <1>. SUFFICES ASSUME Inv, StorageUpdate PROVE Inv'
    OBVIOUS
  <1>. USE DEF Inv
  <1>1. /\ phase = "run"
        /\ UNCHANGED <<bootVars, g_device_settings, s_eeprom_unreachable, settings_editing>>
    BY DEF StorageUpdate
  <1>2. DriverTypeOK /\ s_dma \in DmaFlags /\ s_pending \in PendingWrite
    BY DEF TypeOK, DriverTypeOK, DmaFlags
  <1>3. s_dma.done \in BOOLEAN /\ s_dma.ok \in BOOLEAN /\ s_dma.wr \in BOOLEAN
        /\ s_dma.rd \in BOOLEAN
    BY <1>2 DEF DmaFlags
  <1>5. ASSUME NEW flags \in DmaFlags, s_pending.active, DriverIdleWith(flags),
               OperationOver(flags)
        PROVE  Inv'
    BY <1>1, <1>5, OperationOverInv
  <1>6. ASSUME Polled, UNCHANGED s_pending, s_busy_seen' \in BOOLEAN,
               UNCHANGED <<busyAge, settings_save_failed>>,
               s_pending.active => is_busy(PolledOp)
        PROVE  Inv'
    <2>1. /\ UNCHANGED <<chip, cycling, cycleAge, bus, tx, rbuf>>
          /\ ~AddrPhaseOver /\ s_op' = PolledOp /\ s_dma' = PolledFlags
          /\ waited' = PolledWait
      BY <1>6 DEF Polled, chipVars
    <2>2. s_op \in {"IDLE", "DMA_WRITE", "WRITE_CYCLE_WAIT"}
          /\ (s_op # "IDLE" <=> s_pending.inflight)
          /\ (s_pending.inflight => s_pending.active)
      BY DEF DriverServesSave
    <2>3. CASE s_op = "IDLE"
      <3>1. s_op' = s_op /\ s_dma' = s_dma
        BY <2>1, <2>3 DEF PolledOp, PolledFlags, CycleOver, WriteAccepted
      <3>2. DriverServesSave' /\ SaveProgress'
        BY <1>1, <1>6, <2>1, <3>1 DEF DriverServesSave, SaveProgress, TransferLanded,
                                      Whole, Holds
      <3>3. waited' \in 0 .. WriteCycle
        BY <2>1, <2>3, ZeroInRange DEF PolledWait, PolledOp, CycleOver, WriteAccepted
      <3>4. DriverTypeOK'
        BY <1>2, <2>1, <3>1, <3>3 DEF DriverTypeOK
      <3>5. QED
        BY <1>1, <1>6, <3>2, <3>4 DEF TypeOK, BootIsQuiet, NoZeroDivisor, bootVars
    <2>4. CASE s_op # "IDLE"
      <3>1. s_pending.inflight /\ is_busy(PolledOp)
        BY <1>6, <2>2, <2>4
      <3>2. s_dma' = s_dma /\ s_op' \in {"DMA_WRITE", "WRITE_CYCLE_WAIT"}
            /\ (s_op' # s_op => s_op = "DMA_WRITE" /\ s_dma.done /\ s_dma.ok)
        BY <2>1, <2>2, <3>1 DEF PolledOp, PolledFlags, CycleOver, WriteAccepted,
                             OpAfterFailedWrite, is_busy
      <3>3. DriverServesSave' /\ SaveProgress'
        BY <1>1, <1>6, <2>1, <2>2, <2>4, <3>2
           DEF DriverServesSave, SaveProgress, TransferLanded, Whole, Holds
      <3>4. waited' \in 0 .. WriteCycle
        BY <1>2, <2>1, ZeroInRange DEF PolledWait, DriverTypeOK
      <3>5. DriverTypeOK'
        BY <1>2, <2>1, <3>2, <3>4 DEF DriverTypeOK, Ops
      <3>6. QED
        BY <1>1, <1>6, <3>3, <3>5 DEF TypeOK, BootIsQuiet, NoZeroDivisor, bootVars
    <2>5. QED
      BY <2>3, <2>4
  <1>7. CASE UpdateIdle
    BY <1>6, <1>7 DEF UpdateIdle, saveVars, TypeOK
  <1>8. CASE UpdateStillBusy
    BY <1>6, <1>8 DEF UpdateStillBusy, BusyNow
  <1>9. CASE UpdateTimedOut \/ UpdateFinished
    BY <1>5, <1>9, FlagsAreTrue DEF UpdateTimedOut, UpdateFinished
  <1>10. QED
    BY <1>7, <1>8, <1>9 DEF StorageUpdate

-----------------------------------------------------------------------------
(* The DMA interrupt, the chip's internal write cycle and the clock        *)
(* preserve the invariant.                                                 *)
LEMMA EnvironmentInv == Inv /\ (Interrupt \/ ChipCycleEnds \/ Clock) => Inv'
  <1>. SUFFICES ASSUME Inv, Interrupt \/ ChipCycleEnds \/ Clock PROVE Inv'
    OBVIOUS
  <1>. USE DEF Inv
  <1>1. /\ phase = "run"
        /\ UNCHANGED <<bootVars, g_device_settings, s_pending, s_busy_seen, flagVars,
                       settings_editing>>
    BY DEF Interrupt, ChipCycleEnds, Clock, Environment
  <1>2. DriverTypeOK /\ s_pending \in PendingWrite /\ busyAge \in 0 .. AsyncTimeout + 1
    BY DEF TypeOK
  <1>3. ASSUME DriverTypeOK', DriverServesSave', SaveProgress',
               busyAge' \in 0 .. AsyncTimeout + 1
        PROVE  Inv'
    BY <1>1, <1>3 DEF TypeOK, BootIsQuiet, NoZeroDivisor, bootVars, flagVars
  <1>4. CASE Interrupt
    <2>1. busyAge' = busyAge /\ I2cInterrupt
      BY <1>4 DEF Interrupt, Environment
    <2>2. /\ bus # "none" => bus = "write" /\ s_op = "DMA_WRITE" /\ ~s_dma.done
          /\ bus = "write" => s_pending.inflight
          /\ s_pending.inflight =>
               tx = [cell |-> <<s_pending.sec, s_pending.written + 1>>,
                     val |-> s_pending.buf]
      BY DEF DriverServesSave
    <2>3. tx.cell \in Cells /\ tx.val \in Values
      BY <1>2 DEF DriverTypeOK
    <2>4. PICK success \in BOOLEAN :
            /\ bus = "write" /\ Complete(success) /\ UNCHANGED rbuf
            /\ \/ UNCHANGED chipVars /\ ~success
               \/ \E v \in Values \cup {Bad} : WriteLands(v) /\ (success => v = tx.val)
      BY <2>1, <2>2, <2>3 DEF I2cInterrupt, WriteDone, WriteFails, AddrDone, ReadDone
    <2>5. /\ bus' = "none" /\ s_dma' = [s_dma EXCEPT !.done = TRUE, !.ok = success]
          /\ UNCHANGED <<tx, s_op, waited, rbuf>>
      BY <2>4 DEF Complete
    <2>6. s_dma'.ok = success /\ s_dma'.wr = s_dma.wr
          /\ s_dma' \in [done : BOOLEAN, ok : BOOLEAN, wr : BOOLEAN, rd : BOOLEAN]
      BY <1>2, <2>5 DEF DriverTypeOK
    <2>7. /\ chip' \in [Cells -> Values \cup {Bad}]
          /\ cycling' \in SUBSET Cells /\ cycleAge' \in 0 .. 1
          /\ \A cell \in Cells : cell # tx.cell => chip'[cell] = chip[cell]
          /\ success => chip'[tx.cell] = tx.val
      BY <1>2, <2>3, <2>4 DEF WriteLands, chipVars, DriverTypeOK
    <2>8. DriverTypeOK'
      BY <1>2, <2>5, <2>6, <2>7 DEF DriverTypeOK
    <2>9. DriverServesSave'
      BY <1>1, <2>2, <2>4, <2>5, <2>6, <2>7 DEF DriverServesSave, TransferLanded
    <2>10. SaveProgress'
      <3>1. /\ s_pending.sec \in Sections /\ s_pending.written \in 0 .. Chunks
        BY <1>2, PendingElim
      <3>2. tx.cell = <<s_pending.sec, s_pending.written + 1>>
        BY <2>2, <2>4
      <3>3. \A c \in 1 .. s_pending.written :
              chip'[<<s_pending.sec, c>>] = chip[<<s_pending.sec, c>>]
        BY <2>7, <3>1, <3>2, SectionsAssumption DEF SectionsAssumption, Cells
      <3>4. \A s \in Sections : s < s_pending.sec =>
              \A c \in 1 .. Chunks : chip'[<<s, c>>] = chip[<<s, c>>]
        BY <2>7, <3>1, <3>2, SectionsAssumption DEF SectionsAssumption, Cells, Sections
      <3>5. QED
        BY <1>1, <3>3, <3>4 DEF SaveProgress, Whole, Holds
    <2>11. QED
      BY <1>2, <1>3, <2>1, <2>8, <2>9, <2>10
  <1>5. CASE ChipCycleEnds
    <2>1. busyAge' = busyAge /\ cycling' = {} /\ cycleAge' = 0
          /\ UNCHANGED <<chip, bus, tx, s_op, s_dma, waited, rbuf>>
      BY <1>5 DEF ChipCycleEnds, Environment, ChipReady, drvVars
    <2>2. DriverTypeOK'
      BY <1>2, <2>1 DEF DriverTypeOK
    <2>3. DriverServesSave' /\ SaveProgress'
      BY <1>1, <2>1 DEF DriverServesSave, TransferLanded, SaveProgress, Whole, Holds
    <2>4. QED
      BY <1>2, <1>3, <2>1, <2>2, <2>3
  <1>6. CASE Clock
    <2>1. UNCHANGED <<chip, cycling, bus, tx, rbuf, s_op, s_dma>>
          /\ CycleClock
      BY <1>6 DEF Clock, Environment, TimePasses
    <2>2. cycleAge' \in 0 .. 1 /\ waited' \in 0 .. WriteCycle
      BY <1>2, <2>1, CycleAssumption DEF CycleAssumption, CycleClock, DriverTypeOK
    <2>3. busyAge' \in 0 .. AsyncTimeout + 1
      BY <1>2, <1>6, LimitsAssumption DEF LimitsAssumption, Clock
    <2>4. DriverTypeOK'
      BY <1>2, <2>1, <2>2 DEF DriverTypeOK
    <2>5. DriverServesSave' /\ SaveProgress'
      BY <1>1, <2>1 DEF DriverServesSave, TransferLanded, SaveProgress, Whole, Holds
    <2>6. QED
      BY <1>3, <2>3, <2>4, <2>5
  <1>7. QED
    BY <1>4, <1>5, <1>6

(* A reset or a power cut at any point preserves the invariant.            *)
LEMMA PowerCutInv == Inv /\ PowerCut => Inv'
  <1>. SUFFICES ASSUME Inv, PowerCut PROVE Inv'
    OBVIOUS
  <1>. USE DEF Inv
  <1>1. /\ bus' = "none" /\ s_op' = "IDLE" /\ s_dma' = NoFlags /\ waited' = 0
        /\ phase' = "boot" /\ loading' = 1 /\ reseeded' = 0
        /\ g_device_settings' = Defaults
        /\ s_pending' = NoPending /\ s_busy_seen' = FALSE /\ busyAge' = 0
        /\ settings_save_failed' = FALSE /\ s_eeprom_unreachable' = FALSE
        /\ settings_editing' = FALSE
        /\ UNCHANGED <<tx, rbuf>>
        /\ cycling' = {} /\ cycleAge' = 0
    BY DEF PowerCut
  <1>2. chip' \in [Cells -> Values \cup {Bad}]
    BY DEF PowerCut, TypeOK, DriverTypeOK
  <1>3. DriverTypeOK'
    BY <1>1, <1>2, ZeroInRange DEF TypeOK, DriverTypeOK, Ops, NoFlags
  <1>4. s_pending' \in PendingWrite
    <2>1. 1 \in Sections /\ Default \in Values /\ 0 \in 0 .. Chunks /\ 0 \in 0 .. MaxRetries
      BY SectionsAssumption, DefaultAssumption, LimitsAssumption
         DEF SectionsAssumption, DefaultAssumption, LimitsAssumption, Sections
    <2>2. QED
      BY <1>1, <2>1, PendingIntro DEF NoPending
  <1>5. /\ g_device_settings' \in [Sections -> Values]
        /\ loading' \in 1 .. NumSections + 1 /\ reseeded' \in 0 .. Chunks - 1
    BY <1>1, SectionsAssumption, DefaultAssumption
       DEF SectionsAssumption, DefaultAssumption, Defaults
  <1>6. TypeOK'
    BY <1>1, <1>3, <1>4, <1>5, ZeroInRange DEF TypeOK
  <1>7. BootIsQuiet' /\ DriverServesSave' /\ SaveProgress' /\ NoZeroDivisor'
    BY <1>1 DEF BootIsQuiet, DriverServesSave, TransferLanded, SaveProgress,
                NoZeroDivisor, NoPending
  <1>8. QED
    BY <1>6, <1>7

(* A step that changes nothing keeps the invariant.                        *)
LEMMA StutterInv == Inv /\ UNCHANGED vars => Inv'
  BY DEF Inv, vars, eepromVars, bootVars, saveVars, flagVars, TypeOK, DriverTypeOK,
         BootIsQuiet, DriverServesSave, TransferLanded, SaveProgress, Whole, Holds,
         NoZeroDivisor

(* Every step, of any task, interrupt or power cut, keeps the invariant.   *)
LEMMA StepInv == Inv /\ [Next]_vars => Inv'
  BY BootStepInv, CallersInv, UpdateInv, EnvironmentInv, PowerCutInv, StutterInv DEF Next

-----------------------------------------------------------------------------
(* Every state the settings storage reaches satisfies the invariant.       *)
THEOREM StorageInvariant == Spec => []Inv
  <1>1. Init => Inv
    BY InitInv
  <1>2. Inv /\ [Next]_vars => Inv'
    BY StepInv
  <1>3. QED
    BY <1>1, <1>2, PTL DEF Spec

(* The types of every variable of the storage and its driver.              *)
THEOREM TypeCorrect == Spec => []TypeOK
  BY StorageInvariant, PTL DEF Inv

(* What a save counts as written is on the chip, and the driver works on   *)
(* the chunk the save believes it does.                                    *)
THEOREM SavesAreTracked == Spec => [](SaveProgress /\ DriverServesSave)
  BY StorageInvariant, PTL DEF Inv

(* No task ever divides by a zero that came off the chip.                  *)
THEOREM DivisorsAreRepaired == Spec => []NoZeroDivisor
  BY StorageInvariant, PTL DEF Inv

(* A step that ends a save with settings_save_failed clear is the one that *)
(* confirmed its last chunk, so that all of the settings are on the chip.  *)
LEMMA CompletedSaveStep ==
  ASSUME Inv, [Next]_vars, s_pending.active, ~s_pending'.active, phase' = "run",
         ~settings_save_failed'
  PROVE  \A s \in Sections :
           Whole(s)' /\ (s # UiSection => Holds(s, g_device_settings[s])')
  <1>1. s_pending \in PendingWrite
    BY DEF Inv, TypeOK
  <1>2. StorageUpdate
    <2>1. s_pending' # s_pending
      OBVIOUS
    <2>2. phase = "run"
      BY DEF Inv, BootIsQuiet, NoPending
    <2>3. ~BootStep
      BY <2>2 DEF BootStep, LoadSection, SectionUnreadable, SectionBad, ReseedChunk,
                  ReseedFails, BootDone
    <2>4. ~Callers
      BY <2>1 DEF Callers, FieldSet, ZeroCalApply, RestoreDefaults, EnterEdit, CancelEdit,
                  CommitEdit, ClearCounters, SaveOrFlag, SaveAccepted
    <2>5. ~(Interrupt \/ ChipCycleEnds \/ Clock)
      BY <2>1 DEF Interrupt, ChipCycleEnds, Clock, Environment
    <2>6. ~PowerCut
      BY DEF PowerCut
    <2>7. QED
      BY <2>1, <2>3, <2>4, <2>5, <2>6 DEF Next, vars, saveVars
  <1>3. UNCHANGED g_device_settings
    BY <1>2 DEF StorageUpdate
  <1>4. UpdateTimedOut \/ UpdateFinished
    BY <1>2 DEF StorageUpdate, UpdateIdle, UpdateStillBusy
  <1>5. PICK flags \in DmaFlags : DriverIdleWith(flags) /\ OperationOver(flags)
    BY <1>4, FlagsAreTrue
  <1>6. SaveDone(flags)
    <2>1. ~RetryChunk(flags) /\ ~NextChunk(flags)
      BY <1>1, PendingElim DEF RetryChunk, NextChunk
    <2>2. ~AbandonSave(flags) /\ ~NextSection(flags)
      BY DEF AbandonSave, NextSection, SectionStart
    <2>3. QED
      BY <1>5, <2>1, <2>2 DEF OperationOver
  <1>7. s_pending.sec = NumSections /\ Confirmed(flags) = Chunks
    BY <1>6 DEF SaveDone
  <1>8. /\ \A c \in 1 .. Chunks : chip'[<<NumSections, c>>] = s_pending.buf
        /\ s_pending.buf \in Values
        /\ NumSections # UiSection => s_pending.buf = g_device_settings[NumSections]
        /\ \A s \in Sections : s < NumSections =>
             Whole(s)' /\ (s # UiSection => Holds(s, g_device_settings[s])')
    BY <1>3, <1>5, <1>7, ConfirmedIsOnChip
  <1>9. QED
    BY <1>3, <1>8, SectionsAssumption DEF SectionsAssumption, Sections, Whole, Holds

(* A save that reports success has put every page on the chip, whatever    *)
(* failed, timed out and was retried on the way.                           *)
THEOREM SuccessIsDurable == Spec => CompletedSaveIsOnChip
  <1>1. Inv /\ [Next]_vars =>
          [(s_pending.active /\ ~s_pending'.active /\ phase' = "run"
              /\ ~settings_save_failed')
             => \A s \in Sections :
                  Whole(s)' /\ (s # UiSection => Holds(s, g_device_settings[s])')]_vars
    BY CompletedSaveStep
  <1>2. QED
    BY <1>1, StorageInvariant, PTL DEF Spec, CompletedSaveIsOnChip
-----------------------------------------------------------------------------
(* The driver under an arbitrary caller.                                   *)

(* Time spent in the write cycle is time the chip has had: past the first  *)
(* unit of it, a cycle that still runs began before that unit.             *)
CycleTimed ==
  /\ s_op # "WRITE_CYCLE_WAIT" => waited = 0
  /\ s_op = "WRITE_CYCLE_WAIT" /\ waited > 0 =>
       cycling = {} \/ (waited = 1 /\ cycleAge = 1)

(* A transfer on the bus belongs to the operation, and is not over.        *)
BusServesOp ==
  /\ bus = "write" => s_op = "DMA_WRITE"
  /\ bus = "addr" => s_op = "DMA_WRITE_ADDR"
  /\ bus = "read" => s_op = "DMA_READ"
  /\ bus # "none" => ~s_dma.done

(* A transfer that succeeded has done what it was started for.             *)
TransferIsTrue ==
  /\ TransferLanded => chip[tx.cell] = tx.val
  /\ s_op = "DMA_READ" /\ s_dma.done /\ s_dma.ok => rbuf = chip[tx.cell]

DriverInv == DriverTypeOK /\ CycleTimed /\ BusServesOp /\ TransferIsTrue /\ NoLostCompletion

LEMMA DriverInitInv == DriverInit => DriverInv
<1> SUFFICES ASSUME DriverInit PROVE DriverInv
  OBVIOUS
<1>1. DriverTypeOK
  BY CycleAssumption DEF DriverInit, DriverReset, DriverTypeOK, NoFlags, Ops
<1>2. CycleTimed /\ BusServesOp /\ TransferIsTrue /\ NoLostCompletion
  BY DEF DriverInit, DriverReset, NoFlags, CycleTimed, BusServesOp, TransferIsTrue,
         TransferLanded, NoLostCompletion, is_busy
<1> QED BY <1>1, <1>2 DEF DriverInv

(* Starting a transfer, whether the HAL takes it or refuses it, takes back *)
(* the result of the last one.                                             *)
LEMMA HalStartIs ==
  ASSUME NEW kind \in {"write", "addr", "read"}, NEW flags \in DmaFlags, HalStart(kind, flags)
  PROVE  /\ bus' \in {kind, "none"} /\ s_dma' \in DmaFlags /\ ~s_dma'.ok
         /\ s_dma'.done <=> bus' = "none"
         /\ s_dma'.wr = flags.wr /\ s_dma'.rd = flags.rd
  BY DEF HalStart, DmaFlags

LEMMA DriverStartsInv ==
  ASSUME DriverInv,
         \/ \E cell \in Cells, v \in Values : StartWritePage(cell, v)
         \/ \E cell \in Cells : StartRead(cell)
  PROVE  DriverInv'
<1>1. /\ s_dma \in DmaFlags /\ UNCHANGED <<chipVars, rbuf, waited>> /\ waited = 0
      /\ [s_dma EXCEPT !.wr = FALSE] \in DmaFlags /\ [s_dma EXCEPT !.rd = FALSE] \in DmaFlags
  <2>1. s_dma \in DmaFlags
    BY DEF DriverInv, DriverTypeOK, DmaFlags
  <2>2. waited = 0
    BY DEF DriverInv, CycleTimed, StartWritePage, StartRead, is_busy
  <2> QED BY <2>1, <2>2 DEF StartWritePage, StartRead, DmaFlags
<1>2. CASE \E cell \in Cells, v \in Values : StartWritePage(cell, v)
  <2>1. PICK cell \in Cells, v \in Values : StartWritePage(cell, v)
    BY <1>2
  <2>2. /\ s_op' = "DMA_WRITE" /\ tx' = [cell |-> cell, val |-> v]
        /\ HalStart("write", [s_dma EXCEPT !.wr = FALSE])
    BY <2>1 DEF StartWritePage, WritePage
  <2>3. /\ bus' \in {"write", "none"} /\ s_dma' \in DmaFlags /\ ~s_dma'.ok
        /\ s_dma'.done <=> bus' = "none"
    BY <1>1, <2>2, HalStartIs
  <2>4. DriverTypeOK'
    BY <1>1, <2>2, <2>3 DEF DriverInv, DriverTypeOK, DmaFlags, Ops, chipVars
  <2> QED
    BY <1>1, <2>2, <2>3, <2>4
       DEF DriverInv, CycleTimed, BusServesOp, TransferIsTrue, TransferLanded, NoLostCompletion
<1>3. CASE \E cell \in Cells : StartRead(cell)
  <2>1. PICK cell \in Cells : StartRead(cell)
    BY <1>3
  <2>2. /\ s_op' = "DMA_WRITE_ADDR" /\ tx' = [tx EXCEPT !.cell = cell]
        /\ HalStart("addr", [s_dma EXCEPT !.rd = FALSE])
    BY <2>1 DEF StartRead
  <2>3. /\ bus' \in {"addr", "none"} /\ s_dma' \in DmaFlags /\ ~s_dma'.ok
        /\ s_dma'.done <=> bus' = "none"
    BY <1>1, <2>2, HalStartIs
  <2>4. DriverTypeOK'
    BY <1>1, <2>2, <2>3 DEF DriverInv, DriverTypeOK, DmaFlags, Ops, chipVars
  <2> QED
    BY <1>1, <2>2, <2>3, <2>4
       DEF DriverInv, CycleTimed, BusServesOp, TransferIsTrue, TransferLanded, NoLostCompletion
<1> QED BY <1>2, <1>3

(* drv_24lc256_update leaves no operation behind without its interrupt.    *)
LEMMA DriverUpdateInv ==
  ASSUME DriverInv, Update PROVE DriverInv'
<1>1. s_dma \in DmaFlags /\ s_op \in Ops
  BY DEF DriverInv, DriverTypeOK, DmaFlags
<1>2. CASE AddrPhaseEnds
  <2>1. /\ s_op = "DMA_WRITE_ADDR" /\ s_dma.done /\ bus = "none"
        /\ UNCHANGED <<chipVars, tx, rbuf, waited>>
    BY <1>2 DEF AddrPhaseEnds, AddrPhaseOver, DriverInv, BusServesOp, DriverTypeOK
  <2>2. CASE s_dma.ok
    <3>1. s_op' = "DMA_READ" /\ HalStart("read", s_dma)
      BY <1>2, <2>2 DEF AddrPhaseEnds
    <3>2. /\ bus' \in {"read", "none"} /\ s_dma' \in DmaFlags /\ ~s_dma'.ok
          /\ s_dma'.done <=> bus' = "none"
      BY <1>1, <3>1, HalStartIs
    <3>3. DriverTypeOK'
      BY <2>1, <3>1, <3>2 DEF DriverInv, DriverTypeOK, DmaFlags, Ops, chipVars
    <3> QED
      BY <2>1, <3>1, <3>2, <3>3
         DEF DriverInv, CycleTimed, BusServesOp, TransferIsTrue, TransferLanded,
             NoLostCompletion
  <2>3. CASE ~s_dma.ok
    <3>1. s_op' = "IDLE" /\ UNCHANGED <<bus, s_dma>>
      BY <1>2, <2>3 DEF AddrPhaseEnds
    <3>2. DriverTypeOK'
      BY <2>1, <3>1 DEF DriverInv, DriverTypeOK, Ops, chipVars
    <3> QED
      BY <2>1, <3>1, <3>2
         DEF DriverInv, CycleTimed, BusServesOp, TransferIsTrue, TransferLanded,
             NoLostCompletion, is_busy
  <2> QED BY <2>2, <2>3
<1>3. CASE Polled
  <2>1. /\ s_op' = PolledOp /\ s_dma' = PolledFlags /\ waited' = PolledWait
        /\ UNCHANGED <<chipVars, bus, tx, rbuf>> /\ ~AddrPhaseOver
    BY <1>3 DEF Polled
  <2>2. PolledFlags \in DmaFlags /\ PolledFlags.done = s_dma.done /\ PolledFlags.ok = s_dma.ok
    BY <1>1 DEF PolledFlags, DmaFlags
  <2>3. /\ PolledOp = "IDLE" \/ PolledOp = s_op
           \/ (PolledOp = "WRITE_CYCLE_WAIT" /\ WriteAccepted)
        /\ PolledOp = s_op /\ s_op \in {"DMA_WRITE", "DMA_READ"} => ~s_dma.done
    BY <1>1 DEF PolledOp, OpAfterFailedWrite, WriteAccepted, Ops
  <2>4. PolledOp \in Ops /\ PolledWait \in 0 .. WriteCycle
    BY <1>1, <2>3, CycleAssumption DEF Ops, PolledWait, DriverInv, DriverTypeOK
  <2>5. DriverTypeOK'
    BY <2>1, <2>2, <2>4 DEF DriverInv, DriverTypeOK, DmaFlags, chipVars
  <2>6. CycleTimed'
    <3>1. CASE PolledOp = "WRITE_CYCLE_WAIT"
      <4>1. waited' = waited
        BY <2>1, <3>1 DEF PolledWait
      <4>2. s_op # "WRITE_CYCLE_WAIT" => waited' = 0
        BY <4>1 DEF DriverInv, CycleTimed
      <4> QED BY <2>1, <3>1, <4>1, <4>2 DEF DriverInv, CycleTimed, chipVars
    <3>2. CASE PolledOp # "WRITE_CYCLE_WAIT"
      BY <2>1, <3>2 DEF PolledWait, CycleTimed
    <3> QED BY <3>1, <3>2
  <2>7. BusServesOp'
    <3>1. bus # "none" => ~s_dma.done /\ s_op # "WRITE_CYCLE_WAIT" /\ s_op # "IDLE"
      BY DEF DriverInv, BusServesOp, DriverTypeOK
    <3>2. bus # "none" => PolledOp = s_op
      BY <3>1 DEF PolledOp, WriteAccepted, CycleOver
    <3> QED BY <2>1, <2>2, <3>1, <3>2 DEF DriverInv, BusServesOp
  <2>8. TransferIsTrue'
    <3>1. TransferLanded' => TransferLanded
      BY <2>1, <2>2, <2>3 DEF TransferLanded, WriteAccepted
    <3>2. s_op' = "DMA_READ" => s_op = "DMA_READ"
      BY <2>1, <2>3
    <3> QED BY <2>1, <2>2, <3>1, <3>2 DEF DriverInv, TransferIsTrue, chipVars
  <2>9. NoLostCompletion'
    BY <2>1, <2>2, <2>3 DEF DriverInv, NoLostCompletion, is_busy
  <2> QED BY <2>5, <2>6, <2>7, <2>8, <2>9 DEF DriverInv
<1> QED BY <1>2, <1>3 DEF Update

(* An abort leaves the driver idle; what the chip got of the page is not   *)
(* reported.                                                               *)
LEMMA DriverAbortInv ==
  ASSUME DriverInv, Abort PROVE DriverInv'
<1>1. AbortedFlags \in DmaFlags /\ ~AbortedFlags.done
  BY DEF AbortedFlags, DriverInv, DriverTypeOK, DmaFlags
<1>2. /\ bus' = "none" /\ s_op' = "IDLE" /\ s_dma' = AbortedFlags /\ waited' = 0
      /\ UNCHANGED <<tx, rbuf>> /\ AbortChip
  BY DEF Abort
<1>3. /\ chip' \in [Cells -> Values \cup {Bad}] /\ cycling' \in SUBSET Cells
      /\ cycleAge' \in 0 .. 1
  BY <1>2 DEF AbortChip, DriverInv, DriverTypeOK, chipVars
<1>4. DriverTypeOK'
  BY <1>1, <1>2, <1>3, CycleAssumption DEF DriverInv, DriverTypeOK, DmaFlags, Ops
<1> QED
  BY <1>1, <1>2, <1>4
     DEF DriverInv, CycleTimed, BusServesOp, TransferIsTrue, TransferLanded,
         NoLostCompletion, is_busy

(* The interrupt raises the completion flag of the operation it ends.      *)
LEMMA DriverInterruptInv ==
  ASSUME DriverInv, I2cInterrupt PROVE DriverInv'
<1>1. bus # "none" /\ s_dma \in DmaFlags /\ s_op # "WRITE_CYCLE_WAIT"
  BY DEF I2cInterrupt, WriteDone, WriteFails, AddrDone, ReadDone, DriverInv, BusServesOp,
         DriverTypeOK, DmaFlags
<1>2. PICK success \in BOOLEAN : Complete(success)
  BY DEF I2cInterrupt, WriteDone, WriteFails, AddrDone, ReadDone
<1>3. /\ bus' = "none" /\ s_dma' \in DmaFlags /\ s_dma'.done /\ s_dma'.ok = success
      /\ UNCHANGED <<tx, s_op, waited>>
  BY <1>1, <1>2 DEF Complete, DmaFlags
<1>4. /\ chip' \in [Cells -> Values \cup {Bad}] /\ cycling' \in SUBSET Cells
      /\ cycleAge' \in 0 .. 1 /\ rbuf' \in Values \cup {Bad}
  <2>1. tx.cell \in Cells /\ tx.val \in Values
    BY DEF DriverInv, DriverTypeOK
  <2>2. /\ chip \in [Cells -> Values \cup {Bad}] /\ cycling \in SUBSET Cells
        /\ cycleAge \in 0 .. 1 /\ rbuf \in Values \cup {Bad}
    BY DEF DriverInv, DriverTypeOK
  <2>3. CASE WriteDone
    BY <2>1, <2>2, <2>3 DEF WriteDone, WriteLands
  <2>4. CASE WriteFails
    BY <2>1, <2>2, <2>4 DEF WriteFails, WriteLands, chipVars
  <2>5. CASE AddrDone
    BY <2>2, <2>5 DEF AddrDone, chipVars
  <2>6. CASE ReadDone
    BY <2>1, <2>2, <2>6 DEF ReadDone, chipVars
  <2> QED BY <2>3, <2>4, <2>5, <2>6 DEF I2cInterrupt
<1>5. DriverTypeOK'
  BY <1>3, <1>4 DEF DriverInv, DriverTypeOK, DmaFlags
<1>6. CycleTimed' /\ BusServesOp' /\ NoLostCompletion'
  BY <1>1, <1>3 DEF DriverInv, CycleTimed, BusServesOp, NoLostCompletion
<1>7. TransferIsTrue'
  <2>1. CASE WriteDone
    BY <1>3, <2>1 DEF WriteDone, WriteLands, DriverInv, BusServesOp, TransferIsTrue,
                      DriverTypeOK
  <2>2. CASE WriteFails
    <3>1. ~s_dma'.ok
      BY <1>1, <2>2 DEF WriteFails, Complete, DmaFlags
    <3> QED BY <1>1, <1>3, <3>1 DEF TransferIsTrue, TransferLanded
  <2>3. CASE AddrDone
    BY <1>1, <1>3, <2>3 DEF AddrDone, DriverInv, BusServesOp, TransferIsTrue, TransferLanded
  <2>4. CASE ReadDone
    <3>1. s_op' = "DMA_READ" /\ chip' = chip
      BY <1>3, <2>4 DEF ReadDone, chipVars, DriverInv, BusServesOp
    <3>2. s_dma'.ok => rbuf' = chip[tx.cell]
      BY <1>1, <2>4 DEF ReadDone, Complete, DmaFlags
    <3> QED BY <1>3, <3>1, <3>2 DEF TransferIsTrue, TransferLanded
  <2> QED BY <2>1, <2>2, <2>3, <2>4 DEF I2cInterrupt
<1> QED BY <1>5, <1>6, <1>7 DEF DriverInv

(* The clock counts for the driver and for the chip alike.                 *)
LEMMA DriverClockInv ==
  ASSUME DriverInv, ChipReady \/ TimePasses \/ ReadComplete \/ UNCHANGED eepromVars
  PROVE  DriverInv'
<1>1. CASE ChipReady
  <2>1. cycling' = {} /\ cycleAge' = 0 /\ UNCHANGED <<chip, drvVars, rbuf>>
    BY <1>1 DEF ChipReady
  <2>2. DriverTypeOK'
    BY <2>1 DEF DriverInv, DriverTypeOK, drvVars
  <2> QED
    BY <2>1, <2>2
       DEF DriverInv, CycleTimed, BusServesOp, TransferIsTrue, TransferLanded,
           NoLostCompletion, drvVars
<1>2. CASE TimePasses
  <2>1. /\ UNCHANGED <<chip, cycling, bus, tx, rbuf, s_op, s_dma>>
        /\ cycling # {} => cycleAge = 0
        /\ cycleAge' = IF cycling # {} THEN 1 ELSE 0
        /\ waited' = IF s_op = "WRITE_CYCLE_WAIT" /\ waited < WriteCycle
                       THEN waited + 1 ELSE waited
    BY <1>2 DEF TimePasses, CycleClock
  <2>2. waited \in 0 .. WriteCycle /\ WriteCycle \in Nat \ {0}
    BY CycleAssumption DEF DriverInv, DriverTypeOK
  <2>3. waited' \in 0 .. WriteCycle /\ cycleAge' \in 0 .. 1
    BY <2>1, <2>2
  <2>4. DriverTypeOK'
    BY <2>1, <2>3 DEF DriverInv, DriverTypeOK
  <2>5. CycleTimed'
    BY <2>1, <2>2 DEF DriverInv, CycleTimed
  <2> QED
    BY <2>1, <2>4, <2>5
       DEF DriverInv, BusServesOp, TransferIsTrue, TransferLanded, NoLostCompletion
<1>3. CASE ReadComplete
  <2>1. /\ s_dma' \in DmaFlags /\ s_dma'.done = s_dma.done /\ s_dma'.ok = s_dma.ok
        /\ UNCHANGED <<chipVars, bus, tx, rbuf, s_op, waited>>
    BY <1>3 DEF ReadComplete, DriverInv, DriverTypeOK, DmaFlags
  <2>2. DriverTypeOK'
    BY <2>1 DEF DriverInv, DriverTypeOK, DmaFlags, chipVars
  <2> QED
    BY <2>1, <2>2
       DEF DriverInv, CycleTimed, BusServesOp, TransferIsTrue, TransferLanded,
           NoLostCompletion, chipVars
<1>4. CASE UNCHANGED eepromVars
  BY <1>4 DEF eepromVars, DriverInv, DriverTypeOK, CycleTimed, BusServesOp, TransferIsTrue,
              TransferLanded, NoLostCompletion
<1> QED BY <1>1, <1>2, <1>3, <1>4

(* The inductive invariant of the driver, for every sequence of calls.     *)
THEOREM DriverInvariant == DriverSpec => []DriverInv
<1>1. DriverInv /\ [DriverNext]_eepromVars => DriverInv'
  BY DriverStartsInv, DriverUpdateInv, DriverAbortInv, DriverInterruptInv, DriverClockInv
     DEF DriverNext
<1> QED BY DriverInitInv, <1>1, PTL DEF DriverSpec

(* Whatever its caller does, drv_24lc256.c never waits for an interrupt    *)
(* that will not come.                                                     *)
THEOREM NoCompletionIsLost == DriverSpec => []NoLostCompletion
<1>1. DriverInv => NoLostCompletion
  BY DEF DriverInv
<1> QED BY DriverInvariant, <1>1, PTL

(* A write cycle waited for longer than TWC is over.                       *)
LEMMA CycleIsOver ==
  ASSUME WriteCycle > 1, CycleTimed, CycleOver, waited \in 0 .. WriteCycle PROVE cycling = {}
  BY CycleAssumption DEF CycleTimed, CycleOver

(* What drv_24lc256_write_complete and _read_complete report is true, for  *)
(* every sequence of calls, refusals, failures and aborts, as long as the  *)
(* driver waits longer than the chip's write cycle (10 ms for 5 ms).       *)
THEOREM ReportsCanBeTrusted ==
  ASSUME WriteCycle > 1 PROVE DriverSpec => ReportsAreTrue
<1>1. ASSUME DriverInv, [DriverNext]_eepromVars
      PROVE  /\ ~s_dma.wr /\ s_dma'.wr => chip[tx.cell] = tx.val /\ cycling = {}
             /\ ~s_dma.rd /\ s_dma'.rd => rbuf = chip[tx.cell]
  <2>1. s_dma \in DmaFlags /\ waited \in 0 .. WriteCycle
    BY <1>1 DEF DriverInv, DriverTypeOK, DmaFlags
  <2>2. CASE Polled
    <3>1. s_dma' = PolledFlags
      BY <2>2 DEF Polled
    <3>2. ~s_dma.wr /\ PolledFlags.wr => CycleOver
      BY <2>1 DEF PolledFlags, DmaFlags
    <3>3. ~s_dma.rd /\ PolledFlags.rd => s_op = "DMA_READ" /\ s_dma.done /\ s_dma.ok
      BY <2>1 DEF PolledFlags, DmaFlags, CycleOver
    <3>4. CycleOver => TransferLanded /\ cycling = {}
      BY <1>1, <2>1, CycleIsOver DEF DriverInv, CycleOver, TransferLanded
    <3> QED BY <1>1, <3>1, <3>2, <3>3, <3>4 DEF DriverInv, TransferIsTrue
  <2>3. CASE AddrPhaseEnds
    <3>1. s_dma'.wr = s_dma.wr /\ s_dma'.rd = s_dma.rd
      BY <2>1, <2>3 DEF AddrPhaseEnds, HalStart, DmaFlags
    <3> QED BY <3>1
  <2>4. CASE \E cell \in Cells, v \in Values : StartWritePage(cell, v)
    BY <2>1, <2>4 DEF StartWritePage, WritePage, HalStart, DmaFlags
  <2>5. CASE \E cell \in Cells : StartRead(cell)
    BY <2>1, <2>5 DEF StartRead, HalStart, DmaFlags
  <2>6. CASE ReadComplete
    BY <2>1, <2>6 DEF ReadComplete, DmaFlags
  <2>7. CASE Abort
    BY <2>1, <2>7 DEF Abort, AbortedFlags, DmaFlags
  <2>8. CASE I2cInterrupt
    <3>1. PICK success \in BOOLEAN : Complete(success)
      BY <2>8 DEF I2cInterrupt, WriteDone, WriteFails, AddrDone, ReadDone
    <3> QED BY <2>1, <3>1 DEF Complete, DmaFlags
  <2>9. CASE ChipReady \/ TimePasses \/ UNCHANGED eepromVars
    BY <2>9 DEF ChipReady, TimePasses, eepromVars, drvVars
  <2> QED
    BY <1>1, <2>2, <2>3, <2>4, <2>5, <2>6, <2>7, <2>8, <2>9 DEF DriverNext, Update
<1>2. DriverInv /\ [DriverNext]_eepromVars =>
        [/\ ~s_dma.wr /\ s_dma'.wr => chip[tx.cell] = tx.val /\ cycling = {}
         /\ ~s_dma.rd /\ s_dma'.rd => rbuf = chip[tx.cell]]_eepromVars
  BY <1>1
<1> QED BY <1>2, DriverInvariant, PTL DEF DriverSpec, ReportsAreTrue

-----------------------------------------------------------------------------
(* What the boot establishes, and what a save adds to it.                  *)

(* svc_storage_init has not touched the pages from loading on.             *)
BootInOrder ==
  /\ phase # "run" => cycling = {} /\ \A s \in Sections : s >= loading => g_device_settings[s] = Default
  /\ phase = "boot" => reseeded = 0

(* The page being rewritten was bad, and is rewritten from its first chunk.*)
ReseedsBadPage ==
  phase = "reseed" =>
    IF reseeded = 0 THEN ~Whole(loading) ELSE chip[<<loading, 1>>] = Default

(* As long as nothing failed, what is behind is on the chip.               *)
LoadedIsOnChip ==
  phase # "run" /\ ~settings_save_failed =>
    /\ \A s \in Sections : s < loading => Holds(s, g_device_settings[s])
    /\ phase = "reseed" =>
         \A c \in 1 .. reseeded : chip[<<loading, c>>] = g_device_settings[loading]

(* A save begins a page with its first chunk.                              *)
FreshSection == s_pending.active /\ ~s_pending.inflight => s_pending.written = 0

BootInv == BootInOrder /\ ReseedsBadPage /\ LoadedIsOnChip

StoreInv == Inv /\ BootInv /\ FreshSection /\ CycleTimed

LEMMA StoreInitInv == Init => StoreInv
  <1>. SUFFICES ASSUME Init PROVE StoreInv
    OBVIOUS
  <1>1. BootInv
    BY DEF Init, RamInit, Defaults, BootInv, BootInOrder, ReseedsBadPage, LoadedIsOnChip,
           Sections
  <1>2. FreshSection /\ CycleTimed
    BY DEF Init, RamInit, NoPending, DriverReset, FreshSection, CycleTimed
  <1>3. QED
    BY <1>1, <1>2, InitInv DEF StoreInv

(* A boot step that is not the last one goes on in order.                  *)
LEMMA BootStepKeepsBootInv == Inv /\ BootInv /\ BootStep => BootInv'
  <1>. SUFFICES ASSUME Inv, BootInv, BootStep PROVE BootInv'
    OBVIOUS
  <1>0. /\ NumSections \in Nat \ {0} /\ Chunks \in Nat \ {0} /\ Default \in Values
        /\ loading \in 1 .. NumSections + 1 /\ reseeded \in 0 .. Chunks - 1
        /\ g_device_settings \in [Sections -> Values]
        /\ chip \in [Cells -> Values \cup {Bad}]
        /\ phase = "reseed" => loading \in Sections
    BY SectionsAssumption, DefaultAssumption
       DEF SectionsAssumption, DefaultAssumption, Inv, TypeOK, DriverTypeOK, BootIsQuiet
  <1>1. CASE \E v \in Values : LoadSection(v)
    <2>1. PICK v \in Values : LoadSection(v)
      BY <1>1
    <2>2. /\ phase = "boot" /\ phase' = "boot" /\ loading \in Sections /\ loading' = loading + 1
          /\ Holds(loading, v) /\ UNCHANGED <<chip, cycling, reseeded, settings_save_failed>>
          /\ g_device_settings' = [g_device_settings EXCEPT ![loading] = v]
      BY <2>1 DEF LoadSection, PageReads, eepromVars, flagVars
    <2>3. BootInOrder' /\ ReseedsBadPage'
      BY <1>0, <2>2 DEF BootInv, BootInOrder, ReseedsBadPage, Sections
    <2>4. ~settings_save_failed' =>
            \A s \in Sections : s < loading' => Holds(s, g_device_settings[s])'
      BY <1>0, <2>2 DEF BootInv, LoadedIsOnChip, Holds, Sections
    <2>5. QED
      BY <2>2, <2>3, <2>4 DEF BootInv, LoadedIsOnChip
  <1>2. CASE SectionUnreadable
    <2>1. /\ phase = "boot" /\ phase' = "boot" /\ loading' = loading + 1
          /\ settings_save_failed' = TRUE
          /\ UNCHANGED <<chip, cycling, reseeded, g_device_settings>>
      BY <1>2 DEF SectionUnreadable, eepromVars
    <2>2. QED
      BY <1>0, <2>1 DEF BootInv, BootInOrder, ReseedsBadPage, LoadedIsOnChip, Sections
  <1>3. CASE SectionBad
    <2>1. /\ phase = "boot" /\ phase' = "reseed" /\ ~Whole(loading) /\ reseeded = 0
          /\ UNCHANGED <<chip, cycling, loading, reseeded, g_device_settings,
                         settings_save_failed>>
      BY <1>3 DEF SectionBad, eepromVars, flagVars, BootInv, BootInOrder
    <2>2. BootInOrder' /\ ReseedsBadPage'
      BY <2>1 DEF BootInv, BootInOrder, ReseedsBadPage, Whole, Holds
    <2>3. LoadedIsOnChip'
      BY <2>1 DEF BootInv, LoadedIsOnChip, Holds
    <2>4. QED
      BY <2>2, <2>3 DEF BootInv
  <1>4. CASE ReseedChunk
    <2>0. phase = "reseed" /\ loading \in Sections /\ g_device_settings[loading] = Default
      BY <1>0, <1>4 DEF ReseedChunk, BootInv, BootInOrder, Sections
    <2>1. /\ phase = "reseed" /\ loading \in Sections /\ g_device_settings[loading] = Default
          /\ chip' = [chip EXCEPT ![<<loading, reseeded + 1>>] = Default]
          /\ UNCHANGED <<cycling, g_device_settings, settings_save_failed>>
          /\ \/ /\ reseeded + 1 < Chunks /\ reseeded' = reseeded + 1
                /\ phase' = phase /\ loading' = loading
             \/ /\ reseeded + 1 = Chunks
                /\ reseeded' = 0 /\ phase' = "boot" /\ loading' = loading + 1
      BY <1>0, <1>4, <2>0 DEF ReseedChunk, ReseedCell, flagVars
    <2>2. BootInOrder'
      BY <1>0, <2>1 DEF BootInv, BootInOrder, Sections
    <2>3. <<loading, reseeded + 1>> \in Cells /\ <<loading, 1>> \in Cells
      BY <1>0, <2>1 DEF Cells
    <2>4. \A c \in 1 .. reseeded + 1 : <<loading, c>> \in Cells
      BY <1>0, <2>1 DEF Cells
    <2>5. ReseedsBadPage'
      BY <1>0, <2>1, <2>3 DEF BootInv, ReseedsBadPage
    <2>6. ASSUME ~settings_save_failed, NEW c \in 1 .. reseeded + 1
          PROVE  chip'[<<loading, c>>] = Default
      BY <1>0, <2>1, <2>3, <2>4, <2>6 DEF BootInv, LoadedIsOnChip
    <2>7. ASSUME ~settings_save_failed, NEW s \in Sections, s < loading
          PROVE  \A c \in 1 .. Chunks : chip'[<<s, c>>] = g_device_settings[s]
      BY <1>0, <2>1, <2>3, <2>7 DEF BootInv, LoadedIsOnChip, Holds, Cells, Sections
    <2>8. LoadedIsOnChip'
      BY <1>0, <2>1, <2>6, <2>7 DEF LoadedIsOnChip, Holds, Sections
    <2>9. QED
      BY <2>2, <2>5, <2>8 DEF BootInv
  <1>5. CASE ReseedFails
    <2>1. /\ phase = "reseed" /\ phase' = "boot" /\ loading' = loading + 1 /\ reseeded' = 0
          /\ settings_save_failed' = TRUE /\ UNCHANGED <<cycling, g_device_settings>>
      BY <1>5 DEF ReseedFails
    <2>2. QED
      BY <1>0, <2>1 DEF BootInv, BootInOrder, ReseedsBadPage, LoadedIsOnChip, Sections
  <1>6. CASE BootDone
    BY <1>6 DEF BootDone, BootInv, BootInOrder, ReseedsBadPage, LoadedIsOnChip
  <1>7. QED
    BY <1>1, <1>2, <1>3, <1>4, <1>5, <1>6 DEF BootStep

(* Outside svc_storage_init only a reset goes back to it.                  *)
LEMMA BootInvStep == Inv /\ BootInv /\ [Next]_vars => BootInv'
  <1>. SUFFICES ASSUME Inv, BootInv, [Next]_vars PROVE BootInv'
    OBVIOUS
  <1>1. CASE PowerCut
    BY <1>1 DEF PowerCut, Defaults, BootInv, BootInOrder, ReseedsBadPage, LoadedIsOnChip,
                Sections
  <1>2. CASE Callers \/ StorageUpdate \/ Interrupt \/ ChipCycleEnds \/ Clock
    <2>1. phase' = "run"
      BY <1>2 DEF Callers, SaveCall, FieldSet, ZeroCalApply, RestoreDefaults, EnterEdit,
                  CancelEdit, CommitEdit, ClearCounters, StorageUpdate, Interrupt,
                  ChipCycleEnds, Clock, Environment, bootVars
    <2>2. QED
      BY <2>1 DEF BootInv, BootInOrder, ReseedsBadPage, LoadedIsOnChip
  <1>3. CASE UNCHANGED vars
    BY <1>3 DEF vars, eepromVars, bootVars, flagVars, BootInv, BootInOrder, ReseedsBadPage,
                LoadedIsOnChip, Whole, Holds
  <1>4. QED
    BY <1>1, <1>2, <1>3, BootStepKeepsBootInv DEF Next

(* A page that is begun is begun with its first chunk, and the time spent  *)
(* in a write cycle is counted, whoever takes the step.                    *)
LEMMA SaveTimingStep ==
  Inv /\ FreshSection /\ CycleTimed /\ [Next]_vars => FreshSection' /\ CycleTimed'
  <1>. SUFFICES ASSUME Inv, FreshSection, CycleTimed, [Next]_vars
                PROVE  FreshSection' /\ CycleTimed'
    OBVIOUS
  <1>0. /\ waited \in 0 .. WriteCycle /\ WriteCycle \in Nat \ {0} /\ s_op \in Ops
        /\ s_pending \in PendingWrite
    BY CycleAssumption DEF CycleAssumption, Inv, TypeOK, DriverTypeOK
  <1>1. CASE BootStep
    <2>1. UNCHANGED <<cycling, cycleAge, drvVars, saveVars>>
      BY <1>1 DEF BootStep, LoadSection, SectionUnreadable, SectionBad, ReseedChunk,
                  ReseedFails, BootDone, eepromVars, drvVars
    <2>2. QED
      BY <2>1 DEF drvVars, saveVars, FreshSection, CycleTimed
  <1>2. CASE Callers
    <2>1. UNCHANGED eepromVars /\ (UNCHANGED s_pending \/ s_pending' = SectionStart(1, g_device_settings'))
      BY <1>2 DEF Callers, SaveCall, FieldSet, ZeroCalApply, RestoreDefaults, EnterEdit,
                  CancelEdit, CommitEdit, ClearCounters, SaveOrFlag
    <2>2. QED
      BY <2>1 DEF SectionStart, eepromVars, FreshSection, CycleTimed
  <1>3. CASE StorageUpdate
    <2>1. CASE UpdateIdle \/ UpdateStillBusy
      <3>1. /\ UNCHANGED <<s_pending, cycling, cycleAge>>
            /\ s_op' = PolledOp /\ waited' = PolledWait
        BY <2>1 DEF UpdateIdle, UpdateStillBusy, Polled, saveVars, chipVars
      <3>2. CASE PolledOp = "WRITE_CYCLE_WAIT"
        <4>1. waited' = waited
          BY <3>1, <3>2 DEF PolledWait
        <4>2. s_op # "WRITE_CYCLE_WAIT" => waited' = 0
          BY <4>1 DEF CycleTimed
        <4>3. QED
          BY <3>1, <3>2, <4>1, <4>2 DEF CycleTimed, FreshSection
      <3>3. CASE PolledOp # "WRITE_CYCLE_WAIT"
        BY <3>1, <3>3 DEF PolledWait, CycleTimed, FreshSection
      <3>4. QED
        BY <3>2, <3>3
    <2>2. CASE UpdateTimedOut \/ UpdateFinished
      <3>1. PICK flags \in DmaFlags : OperationOver(flags)
        BY <2>2, FlagsAreTrue DEF StorageUpdate, UpdateTimedOut, UpdateFinished
      <3>2. CycleTimed'
        BY <3>1 DEF OperationOver, CycleTimed
      <3>3. FreshSection'
        <4>1. CASE RetryChunk(flags)
          BY <1>0, <4>1 DEF RetryChunk, ChunkFailed, PendingWrite, FreshSection
        <4>2. CASE AbandonSave(flags) \/ SaveDone(flags)
          BY <1>0, <4>2 DEF AbandonSave, SaveDone, PendingWrite, FreshSection
        <4>3. CASE NextChunk(flags)
          BY <1>0, <4>3 DEF NextChunk, PendingWrite, FreshSection
        <4>4. CASE NextSection(flags)
          BY <4>4 DEF NextSection, SectionStart, FreshSection
        <4>5. QED
          BY <3>1, <4>1, <4>2, <4>3, <4>4 DEF OperationOver
      <3>4. QED
        BY <3>2, <3>3
    <2>3. QED
      BY <1>3, <2>1, <2>2 DEF StorageUpdate
  <1>4. CASE Interrupt
    <2>1. /\ UNCHANGED <<s_pending, s_op, waited>> /\ s_op # "WRITE_CYCLE_WAIT"
      BY <1>4 DEF Interrupt, Environment, I2cInterrupt, WriteDone, WriteFails, AddrDone,
                  ReadDone, Complete, Inv, DriverServesSave
    <2>2. QED
      BY <2>1 DEF FreshSection, CycleTimed
  <1>5. CASE ChipCycleEnds
    BY <1>5 DEF ChipCycleEnds, Environment, ChipReady, drvVars, FreshSection, CycleTimed
  <1>6. CASE Clock
    <2>1. /\ UNCHANGED <<s_pending, cycling, s_op>>
          /\ cycling # {} => cycleAge = 0
          /\ cycleAge' = IF cycling # {} THEN 1 ELSE 0
          /\ waited' = IF s_op = "WRITE_CYCLE_WAIT" /\ waited < WriteCycle
                         THEN waited + 1 ELSE waited
      BY <1>6 DEF Clock, Environment, TimePasses, CycleClock
    <2>2. CycleTimed'
      BY <1>0, <2>1 DEF CycleTimed
    <2>3. QED
      BY <2>1, <2>2 DEF FreshSection
  <1>7. CASE PowerCut
    BY <1>7 DEF PowerCut, NoPending, FreshSection, CycleTimed
  <1>8. CASE UNCHANGED vars
    BY <1>8 DEF vars, eepromVars, saveVars, FreshSection, CycleTimed
  <1>9. QED
    BY <1>1, <1>2, <1>3, <1>4, <1>5, <1>6, <1>7, <1>8 DEF Next

(* The whole of it: the storage as the boot, the driver and the saves keep *)
(* it.                                                                     *)
THEOREM StoreInvariant == Spec => []StoreInv
  <1>1. StoreInv /\ [Next]_vars => StoreInv'
    BY StepInv, BootInvStep, SaveTimingStep DEF StoreInv
  <1>2. QED
    BY StoreInitInv, <1>1, PTL DEF Spec

(* A boot that raises no flag runs on what the chip holds, repaired.       *)
THEOREM QuietBootIsTrue == Spec => QuietBootMatchesChip
  <1>1. ASSUME StoreInv, Next, phase # "run", phase' = "run", ~settings_save_failed'
        PROVE  \A s \in Sections : \E v \in Values :
                 Holds(s, v) /\ g_device_settings'[s] = ValidValue(v)
    <2>1. BootDone
      BY <1>1 DEF Next, BootStep, LoadSection, SectionUnreadable, SectionBad, ReseedChunk,
                  ReseedFails, Callers, SaveCall, FieldSet, ZeroCalApply, RestoreDefaults,
                  EnterEdit, CancelEdit, CommitEdit, ClearCounters, StorageUpdate, Interrupt,
                  ChipCycleEnds, Clock, Environment, PowerCut
    <2>2. /\ loading = NumSections + 1 /\ ~settings_save_failed
          /\ g_device_settings' = Validated(g_device_settings)
      BY <1>1, <2>1 DEF BootDone, flagVars
    <2>3. \A s \in Sections : Holds(s, g_device_settings[s])
      BY <1>1, <2>2, SectionsAssumption
         DEF SectionsAssumption, StoreInv, BootInv, LoadedIsOnChip, Sections
    <2>4. g_device_settings \in [Sections -> Values]
      BY <1>1 DEF StoreInv, Inv, TypeOK
    <2>5. QED
      BY <2>2, <2>3, <2>4 DEF Validated
  <1>2. StoreInv /\ [Next]_vars =>
          [(phase # "run" /\ phase' = "run" /\ ~settings_save_failed')
             => \A s \in Sections : \E v \in Values :
                  Holds(s, v) /\ g_device_settings'[s] = ValidValue(v)]_vars
    BY <1>1
  <1>3. QED
    BY <1>2, StoreInvariant, PTL DEF Spec, QuietBootMatchesChip

-----------------------------------------------------------------------------
(* The storage implements the store of indivisible pages.                  *)

(* What SettingsStore sees of it: each page whole or lost, and the pages a *)
(* power cut could cost.                                                   *)
Pages == [s \in Sections |-> IF Whole(s) THEN chip[<<s, 1>>] ELSE Bad]
AtRisk == {cell[1] : cell \in CellsAtRisk}

(* A page that is whole is the value it is whole with.                     *)
LEMMA WholeIs ==
  ASSUME NEW s \in Sections, NEW v, Holds(s, v), v \in Values PROVE Pages[s] = v
  BY SectionsAssumption DEF SectionsAssumption, Pages, Whole, Holds

LEMMA LostIs ==
  ASSUME NEW s \in Sections, ~Whole(s) PROVE Pages[s] = Bad
  BY DEF Pages

(* Pages follow the chip.                                                  *)
LEMMA PagesKept == chip' = chip => Pages' = Pages
  BY DEF Pages, Whole, Holds

(* A page of which one chunk changes becomes that chunk's value, once all  *)
(* of it agrees, or is lost; no other page notices.                        *)
LEMMA OneChunkChanges ==
  ASSUME chip \in [Cells -> Values \cup {Bad}],
         NEW p \in Sections, NEW k \in 1 .. Chunks, NEW v \in Values \cup {Bad},
         chip' = [chip EXCEPT ![<<p, k>>] = v]
  PROVE  \E w \in {v, Bad} : Pages' = [Pages EXCEPT ![p] = w]
  <1>0. Chunks \in Nat \ {0} /\ Bad \notin Values /\ <<p, k>> \in Cells
    BY SectionsAssumption, BadAssumption DEF SectionsAssumption, BadAssumption, Cells
  <1>1. ASSUME NEW s \in Sections, s # p, NEW c \in 1 .. Chunks
        PROVE  chip'[<<s, c>>] = chip[<<s, c>>]
    <2>1. <<s, c>> \in Cells /\ <<s, c>> # <<p, k>>
      BY <1>1 DEF Cells
    <2>2. QED
      BY <2>1
  <1>2. chip'[<<p, k>>] = v
    BY <1>0
  <1>3. ASSUME NEW s \in Sections, s # p
        PROVE  Pages'[s] = Pages[s]
    <2>1. Whole(s)' <=> Whole(s)
      BY <1>1, <1>3 DEF Whole, Holds
    <2>2. chip'[<<s, 1>>] = chip[<<s, 1>>]
      BY <1>0, <1>1, <1>3
    <2>3. QED
      BY <2>1, <2>2 DEF Pages
  <1>4. Pages'[p] \in {v, Bad}
    <2>1. CASE Whole(p)'
      <3>1. PICK u \in Values : \A c \in 1 .. Chunks : chip'[<<p, c>>] = u
        BY <2>1 DEF Whole, Holds
      <3>2. u = v /\ chip'[<<p, 1>>] = u
        BY <1>0, <1>2, <3>1
      <3>3. QED
        BY <2>1, <3>2 DEF Pages
    <2>2. CASE ~Whole(p)'
      BY <2>2 DEF Pages
    <2>3. QED
      BY <2>1, <2>2
  <1>5. Pages' = [Pages EXCEPT ![p] = Pages'[p]]
    <2>1. /\ Pages' = [s \in Sections |-> Pages'[s]]
          /\ Pages = [s \in Sections |-> Pages[s]]
      BY DEF Pages
    <2>2. QED
      BY <1>3, <2>1
  <1>6. QED
    BY <1>4, <1>5

(* The same, when nothing changed after all.                               *)
LEMMA NoChunkChanges ==
  ASSUME NEW p \in Sections, chip' = chip
  PROVE  Pages' = [Pages EXCEPT ![p] = Pages[p]]
  <1>1. Pages' = Pages /\ Pages = [s \in Sections |-> Pages[s]]
    BY PagesKept DEF Pages
  <1>2. QED
    BY <1>1

(* The initial states.                                                     *)
LEMMA StoreInitRefines == Init => Store!Init
  <1>. SUFFICES ASSUME Init PROVE Store!Init
    OBVIOUS
  <1>1. Pages \in [Sections -> Values \cup {Bad}]
    <2>1. \A s \in Sections : <<s, 1>> \in Cells
      BY SectionsAssumption DEF SectionsAssumption, Cells
    <2>2. QED
      BY <2>1 DEF Init, Pages
  <1>2. AtRisk = {}
    BY DEF Init, DriverReset, RamInit, AtRisk, CellsAtRisk
  <1>3. /\ g_device_settings \in [Sections -> Values] /\ phase # "run"
        /\ ~s_pending.active /\ s_pending.sec = 1 /\ s_pending.buf \in Values
    BY DefaultAssumption DEF DefaultAssumption, Init, RamInit, Defaults, NoPending
  <1>4. QED
    BY <1>1, <1>2, <1>3 DEF Store!Init, Store!Sections, Sections, Pages, AtRisk

(* svc_storage_init: a page is rewritten only when it was lost.            *)
LEMMA BootRefines ==
  ASSUME StoreInv, Inv', BootStep PROVE Store!Boot
  <1>0. /\ NumSections \in Nat \ {0} /\ Chunks \in Nat \ {0} /\ Default \in Values
        /\ loading \in 1 .. NumSections + 1 /\ reseeded \in 0 .. Chunks - 1
        /\ g_device_settings \in [Sections -> Values]
        /\ chip \in [Cells -> Values \cup {Bad}]
        /\ phase = "reseed" => loading \in Sections
        /\ g_device_settings' \in [Sections -> Values]
    BY SectionsAssumption, DefaultAssumption
       DEF SectionsAssumption, DefaultAssumption, StoreInv, Inv, TypeOK, DriverTypeOK,
           BootIsQuiet
  <1>1. /\ phase # "run" /\ UNCHANGED <<cycling, bus, s_pending>>
        /\ cycling = {} /\ bus = "none"
    <2>1. phase # "run" /\ UNCHANGED <<cycling, bus, s_pending>>
      BY DEF BootStep, LoadSection, SectionUnreadable, SectionBad, ReseedChunk, ReseedFails,
             BootDone, eepromVars, drvVars, saveVars
    <2>2. QED
      BY <2>1 DEF StoreInv, Inv, BootIsQuiet, BootInv, BootInOrder
  <1>2. /\ AtRisk = IF phase = "reseed" THEN {loading} ELSE {}
        /\ AtRisk' = IF phase' = "reseed" THEN {loading'} ELSE {}
    <2>1. /\ CellsAtRisk = IF phase = "reseed" THEN {ReseedCell} ELSE {}
          /\ CellsAtRisk' = IF phase' = "reseed" THEN {ReseedCell'} ELSE {}
      BY <1>1 DEF CellsAtRisk
    <2>2. ReseedCell[1] = loading /\ ReseedCell'[1] = loading'
      BY DEF ReseedCell
    <2>3. AtRisk = IF phase = "reseed" THEN {loading} ELSE {}
      BY <2>1, <2>2 DEF AtRisk
    <2>4. AtRisk' = IF phase' = "reseed" THEN {loading'} ELSE {}
      BY <2>1, <2>2 DEF AtRisk
    <2>5. QED
      BY <2>3, <2>4
  <1>3. \/ UNCHANGED <<Pages, AtRisk>>
        \/ \E s \in Sections, v \in {Default, Bad} :
             /\ Pages[s] \in {Default, Bad}
             /\ Pages' = [Pages EXCEPT ![s] = v]
             /\ AtRisk' \subseteq AtRisk \cup {s}
    <2>1. CASE (\E v \in Values : LoadSection(v)) \/ SectionUnreadable \/ BootDone
      <3>1. chip' = chip /\ phase # "reseed" /\ phase' # "reseed"
        BY <2>1 DEF LoadSection, SectionUnreadable, BootDone, eepromVars
      <3>2. QED
        BY <1>2, <3>1, PagesKept
    <2>2. CASE SectionBad
      <3>1. chip' = chip /\ loading \in Sections /\ loading' = loading /\ ~Whole(loading)
        BY <2>2 DEF SectionBad, eepromVars
      <3>2. Pages[loading] = Bad /\ Pages' = [Pages EXCEPT ![loading] = Pages[loading]]
        BY <3>1, LostIs, NoChunkChanges
      <3>3. AtRisk' \subseteq AtRisk \cup {loading}
        BY <1>2, <3>1
      <3>4. QED
        BY <3>1, <3>2, <3>3
    <2>3. CASE ReseedChunk \/ ReseedFails
      <3>1. /\ phase = "reseed" /\ loading \in Sections
            /\ phase' = "reseed" => loading' = loading
        BY <1>0, <2>3 DEF ReseedChunk, ReseedFails
      <3>2. g_device_settings[loading] = Default
        BY <1>0, <3>1 DEF StoreInv, BootInv, BootInOrder, Sections
      <3>3. reseeded + 1 \in 1 .. Chunks /\ <<loading, reseeded + 1>> \in Cells
            /\ <<loading, 1>> \in Cells
        BY <1>0, <3>1 DEF Cells
      <3>4. \E v \in {chip[<<loading, reseeded + 1>>], Default, Bad} :
              chip' = [chip EXCEPT ![<<loading, reseeded + 1>>] = v]
        BY <2>3, <3>2 DEF ReseedChunk, ReseedFails, ReseedCell
      <3>5. Pages[loading] \in {Default, Bad}
        <4>1. CASE Whole(loading)
          <5>1. chip[<<loading, 1>>] = Default
            BY <3>1, <4>1 DEF StoreInv, BootInv, ReseedsBadPage
          <5>2. QED
            BY <3>1, <4>1, <5>1 DEF Pages
        <4>2. CASE ~Whole(loading)
          BY <3>1, <4>2, LostIs
        <4>3. QED
          BY <4>1, <4>2
      <3>6. \E v \in {Default, Bad} : Pages' = [Pages EXCEPT ![loading] = v]
        <4>1. CASE chip' = chip
          BY <3>1, <3>5, <4>1, NoChunkChanges
        <4>2. CASE chip' # chip
          <5>1. PICK v \in {Default, Bad} :
                  chip' = [chip EXCEPT ![<<loading, reseeded + 1>>] = v]
            BY <1>0, <3>3, <3>4, <4>2
          <5>2. QED
            BY <1>0, <3>1, <3>3, <5>1, OneChunkChanges
        <4>3. QED
          BY <4>1, <4>2
      <3>7. AtRisk' \subseteq AtRisk \cup {loading}
        BY <1>2, <3>1
      <3>8. QED
        BY <3>1, <3>5, <3>6, <3>7
    <2>4. QED
      BY <2>1, <2>2, <2>3 DEF BootStep
  <1>4. QED
    BY <1>0, <1>1, <1>3 DEF Store!Boot, Store!Replace, Store!Sections, Sections, Pages, AtRisk

(* The callers change RAM, and start a save only when none is in progress. *)
LEMMA CallersRefine ==
  ASSUME StoreInv, Inv', Callers
  PROVE  Store!Change \/ Store!ChangeAndSave
  <1>1. /\ phase = "run" /\ phase' = "run" /\ UNCHANGED <<eepromVars, bootVars>>
        /\ g_device_settings' \in [Sections -> Values]
    BY DEF Callers, SaveCall, FieldSet, ZeroCalApply, RestoreDefaults, EnterEdit, CancelEdit,
           CommitEdit, ClearCounters, Inv, TypeOK, bootVars
  <1>2. UNCHANGED <<Pages, AtRisk>>
    <2>1. UNCHANGED <<chip, cycling, bus, tx, phase, loading, reseeded>>
      BY <1>1 DEF eepromVars, bootVars
    <2>2. CellsAtRisk' = CellsAtRisk
      BY <2>1 DEF CellsAtRisk, ReseedCell
    <2>3. QED
      BY <2>1, <2>2, PagesKept DEF AtRisk
  <1>3. \/ UNCHANGED s_pending
        \/ ~s_pending.active /\ s_pending' = SectionStart(1, g_device_settings')
    BY DEF Callers, FieldSet, ZeroCalApply, RestoreDefaults, EnterEdit, CancelEdit,
           CommitEdit, ClearCounters, SaveOrFlag, SaveAccepted
  <1>4. CASE UNCHANGED s_pending
    BY <1>1, <1>2, <1>4 DEF Store!Change, Store!Sections, Sections, Pages, AtRisk
  <1>5. CASE ~s_pending.active /\ s_pending' = SectionStart(1, g_device_settings')
    BY <1>1, <1>2, <1>5
       DEF SectionStart, Store!ChangeAndSave, Store!Sections, Sections, Pages, AtRisk
  <1>6. QED
    BY <1>3, <1>4, <1>5

(* While the scheduler runs, what a power cut could cost is the page on    *)
(* the bus and the page the chip is committing.                            *)
RunningRisk ==
  (IF bus = "write" THEN {tx.cell[1]} ELSE {}) \cup {cell[1] : cell \in cycling}

RiskWhileRunning == phase = "run" => AtRisk = RunningRisk

LEMMA AtRiskRunning == RiskWhileRunning
  <1>. SUFFICES ASSUME phase = "run" PROVE AtRisk = RunningRisk
    BY DEF RiskWhileRunning
  <1>1. CellsAtRisk = (IF bus = "write" THEN {tx.cell} ELSE {}) \cup cycling
    BY DEF CellsAtRisk
  <1>2. CASE bus = "write"
    <2>1. CellsAtRisk = {tx.cell} \cup cycling
      BY <1>1, <1>2
    <2>2. QED
      BY <1>2, <2>1 DEF AtRisk, RunningRisk
  <1>3. CASE bus # "write"
    <2>1. CellsAtRisk = cycling
      BY <1>1, <1>3
    <2>2. QED
      BY <1>3, <2>1 DEF AtRisk, RunningRisk
  <1>4. QED
    BY <1>2, <1>3

LEMMA AtRiskRunningNext == RiskWhileRunning'
  BY AtRiskRunning, PTL

(* A step that changes the chip in one chunk of the page in progress.      *)
LEMMA PageStep ==
  ASSUME StoreInv, s_pending.active,
         \/ chip' = chip
         \/ \E k \in 1 .. Chunks, v \in {s_pending.buf, Bad} :
              chip' = [chip EXCEPT ![<<s_pending.sec, k>>] = v]
  PROVE  \E v \in {Pages[s_pending.sec], s_pending.buf, Bad} :
           Pages' = [Pages EXCEPT ![s_pending.sec] = v]
  <1>1. /\ s_pending.sec \in Sections /\ s_pending.buf \in Values
        /\ chip \in [Cells -> Values \cup {Bad}]
    BY PendingElim DEF StoreInv, Inv, TypeOK, DriverTypeOK
  <1>2. CASE chip' = chip
    BY <1>1, <1>2, NoChunkChanges
  <1>3. CASE chip' # chip
    <2>0. \E k \in 1 .. Chunks, v \in {s_pending.buf, Bad} :
            chip' = [chip EXCEPT ![<<s_pending.sec, k>>] = v]
      BY <1>3
    <2>1. PICK k \in 1 .. Chunks, v \in {s_pending.buf, Bad} :
            chip' = [chip EXCEPT ![<<s_pending.sec, k>>] = v]
      BY <2>0
    <2>2. v \in Values \cup {Bad}
      BY <1>1
    <2>3. \E w \in {v, Bad} : Pages' = [Pages EXCEPT ![s_pending.sec] = w]
      <3>1. s_pending.sec \in Sections /\ chip \in [Cells -> Values \cup {Bad}]
        BY <1>1
      <3>2. chip' = [chip EXCEPT ![<<s_pending.sec, k>>] = v]
        BY <2>1
      <3>3. QED
        BY ONLY <2>2, <3>1, <3>2, k \in 1 .. Chunks, OneChunkChanges, Zenon
    <2>4. QED
      BY <2>3
  <1>4. QED
    BY <1>2, <1>3

(* The chip takes the transfer, refuses it or is left with part of it.     *)
LEMMA InterruptRefines ==
  ASSUME StoreInv, Interrupt PROVE Store!Write
  <1>1. /\ phase = "run" /\ UNCHANGED <<bootVars, g_device_settings, s_pending>>
        /\ I2cInterrupt
    BY DEF Interrupt, Environment
  <1>2. /\ bus = "write" /\ s_pending.inflight /\ s_pending.active
        /\ tx = [cell |-> <<s_pending.sec, s_pending.written + 1>>, val |-> s_pending.buf]
        /\ s_pending.written < Chunks
    BY <1>1 DEF I2cInterrupt, WriteDone, WriteFails, AddrDone, ReadDone, StoreInv, Inv,
                DriverServesSave
  <1>3. s_pending.sec \in Sections /\ s_pending.written + 1 \in 1 .. Chunks
    <2>1. s_pending.sec \in Sections /\ s_pending.written \in 0 .. Chunks
      BY PendingElim DEF StoreInv, Inv, TypeOK
    <2>2. QED
      BY <1>2, <2>1, SectionsAssumption DEF SectionsAssumption
  <1>4. /\ bus' = "none" /\ UNCHANGED tx
        /\ \/ chip' = chip /\ cycling' = cycling
           \/ /\ \E v \in {s_pending.buf, Bad} : chip' = [chip EXCEPT ![tx.cell] = v]
              /\ cycling' = {tx.cell}
    BY <1>1, <1>2 DEF I2cInterrupt, WriteDone, WriteFails, AddrDone, ReadDone, WriteLands,
                      Complete, chipVars
  <1>5. \E v \in {Pages[s_pending.sec], s_pending.buf, Bad} :
          Pages' = [Pages EXCEPT ![s_pending.sec] = v]
    BY <1>2, <1>3, <1>4, PageStep
  <1>6. AtRisk' \subseteq AtRisk \cup {s_pending.sec}
    <2>1. AtRisk' = {cell[1] : cell \in cycling'}
      BY <1>1, <1>4, AtRiskRunningNext DEF bootVars, RunningRisk, RiskWhileRunning
    <2>2. {cell[1] : cell \in cycling} \subseteq AtRisk
      BY <1>1, AtRiskRunning DEF RunningRisk, RiskWhileRunning
    <2>3. tx.cell[1] = s_pending.sec
      BY <1>2
    <2>4. QED
      BY <1>4, <2>1, <2>2, <2>3
  <1>7. QED
    BY <1>1, <1>2, <1>5, <1>6
       DEF Store!Write, Store!Replace, bootVars, Pages, AtRisk

(* What a save does once its chunk is over.                                *)
LEMMA OperationRefines ==
  ASSUME StoreInv, WriteCycle > 1, phase = "run", phase' = "run", s_pending.active,
         UNCHANGED g_device_settings,
         NEW flags \in DmaFlags, DriverIdleWith(flags), ChunkLeft(flags), OperationOver(flags)
  PROVE  Store!Write \/ Store!Advance \/ Store!Abandon
  <1>0. /\ Inv /\ waited \in 0 .. WriteCycle /\ CycleTimed /\ FreshSection
        /\ NumSections \in Nat \ {0} /\ Chunks \in Nat \ {0}
    BY SectionsAssumption DEF SectionsAssumption, StoreInv, Inv, TypeOK, DriverTypeOK
  <1>1. /\ s_pending.sec \in Sections /\ s_pending.buf \in Values
        /\ s_pending.written \in 0 .. Chunks /\ s_pending \in PendingWrite
    BY <1>0, PendingElim DEF Inv, TypeOK
  <1>2. /\ s_pending.inflight =>
             /\ tx = [cell |-> <<s_pending.sec, s_pending.written + 1>>,
                      val |-> s_pending.buf]
             /\ s_pending.written < Chunks
        /\ bus # "none" => s_op = "DMA_WRITE"
    BY <1>0 DEF Inv, DriverServesSave
  <1>3. \E v \in {Pages[s_pending.sec], s_pending.buf, Bad} :
          Pages' = [Pages EXCEPT ![s_pending.sec] = v]
    <2>1. \/ chip' = chip
          \/ \E k \in 1 .. Chunks, v \in {s_pending.buf, Bad} :
               chip' = [chip EXCEPT ![<<s_pending.sec, k>>] = v]
      <3>1. CASE s_pending.inflight
        <4>1. s_pending.written + 1 \in 1 .. Chunks
          BY <1>0, <1>1, <1>2, <3>1
        <4>2. tx.cell = <<s_pending.sec, s_pending.written + 1>> /\ tx.val = s_pending.buf
          BY <1>2, <3>1
        <4>3. QED
          BY <4>1, <4>2 DEF ChunkLeft
      <3>2. CASE ~s_pending.inflight
        BY <3>2 DEF ChunkLeft
      <3>3. QED
        BY <3>1, <3>2
    <2>2. QED
      BY <2>1, PageStep
  <1>4. {cell[1] : cell \in cycling'} \subseteq AtRisk \cup {s_pending.sec}
    <2>1. {cell[1] : cell \in cycling} \subseteq AtRisk
      BY AtRiskRunning DEF RunningRisk, RiskWhileRunning
    <2>2. s_pending.inflight => tx.cell[1] = s_pending.sec
      BY <1>2
    <2>3. QED
      BY <2>1, <2>2 DEF ChunkLeft
  <1>5. AtRisk' = (IF bus' = "write" THEN {tx'.cell[1]} ELSE {})
                    \cup {cell[1] : cell \in cycling'}
    BY AtRiskRunningNext DEF RunningRisk, RiskWhileRunning
  <1>6. CASE RetryChunk(flags) \/ NextChunk(flags)
    <2>1. /\ tx'.cell[1] = s_pending.sec
          /\ s_pending'.active = s_pending.active /\ s_pending'.sec = s_pending.sec
          /\ s_pending'.buf = s_pending.buf
      <3>1. CASE RetryChunk(flags)
        <4>1. tx'.cell[1] = s_pending.sec
          BY <3>1 DEF RetryChunk, WritePage
        <4>2. s_pending' = [s_pending EXCEPT !.retry = @ + 1]
          BY <3>1 DEF RetryChunk
        <4>3. QED
          BY <1>1, <4>1, <4>2 DEF PendingWrite
      <3>2. CASE NextChunk(flags)
        <4>1. tx'.cell[1] = s_pending.sec
          BY <3>2 DEF NextChunk, WritePage
        <4>2. s_pending' = [s_pending EXCEPT !.written = Confirmed(flags),
                                             !.inflight = TRUE, !.retry = 0]
          BY <3>2 DEF NextChunk
        <4>3. QED
          BY <1>1, <4>1, <4>2 DEF PendingWrite
      <3>3. QED
        BY <1>6, <3>1, <3>2
    <2>2. AtRisk' \subseteq AtRisk \cup {s_pending.sec}
      BY <1>4, <1>5, <2>1
    <2>3. QED
      BY <1>3, <2>1, <2>2 DEF Store!Write, Store!Replace, Pages, AtRisk
  <1>7. CASE AbandonSave(flags)
    <2>1. /\ bus' = "none" /\ s_pending'.active = FALSE /\ s_pending'.sec = s_pending.sec
          /\ s_pending'.buf = s_pending.buf
      BY <1>1, <1>7 DEF AbandonSave, DriverStaysIdle, PendingWrite
    <2>2. AtRisk' \subseteq AtRisk \cup {s_pending.sec}
      BY <1>4, <1>5, <2>1
    <2>3. QED
      BY <1>3, <2>1, <2>2 DEF Store!Abandon, Store!Replace, Pages, AtRisk
  <1>8. CASE NextSection(flags) \/ SaveDone(flags)
    <2>1. ~ChunkFailed(flags) /\ Confirmed(flags) = Chunks /\ bus' = "none"
      BY <1>8 DEF NextSection, SaveDone, DriverStaysIdle
    <2>2. s_pending.inflight /\ flags.wr
      BY <1>0, <1>1, <2>1 DEF ChunkFailed, Confirmed, FreshSection
    <2>3. CycleOver /\ UNCHANGED <<chip, cycling>>
      BY <2>2 DEF ChunkLeft
    <2>4. cycling = {} /\ bus = "none"
      BY <1>0, <1>2, <2>3, CycleIsOver DEF CycleOver
    <2>5. AtRisk = {} /\ AtRisk' = {} /\ Pages' = Pages
      <3>1. AtRisk = {}
        BY <2>4, AtRiskRunning DEF RunningRisk, RiskWhileRunning
      <3>2. AtRisk' = {}
        BY <1>5, <2>1, <2>3, <2>4
      <3>3. QED
        BY <2>3, <3>1, <3>2, PagesKept
    <2>6. Pages[s_pending.sec] = s_pending.buf
      <3>1. \A c \in 1 .. Chunks : chip'[<<s_pending.sec, c>>] = s_pending.buf
        BY <1>0, <2>1, ConfirmedIsOnChip
      <3>2. Holds(s_pending.sec, s_pending.buf)
        BY <2>3, <3>1 DEF Holds
      <3>3. QED
        BY <1>1, <3>2, WholeIs
    <2>7. IF s_pending.sec < NumSections
            THEN /\ s_pending'.sec = s_pending.sec + 1
                 /\ s_pending'.buf = g_device_settings[s_pending.sec + 1]
                 /\ s_pending'.active = s_pending.active
            ELSE /\ s_pending'.active = FALSE
                 /\ s_pending'.sec = s_pending.sec /\ s_pending'.buf = s_pending.buf
      <3>1. CASE NextSection(flags)
        <4>1. s_pending.active = TRUE
          BY <1>1, PendingElim
        <4>2. QED
          BY <3>1, <4>1 DEF NextSection, SectionStart
      <3>2. CASE SaveDone(flags)
        <4>1. ~(s_pending.sec < NumSections)
          BY <1>0, <3>2 DEF SaveDone
        <4>2. QED
          BY <1>1, <3>2, <4>1 DEF SaveDone, PendingWrite
      <3>3. QED
        BY <1>8, <3>1, <3>2
    <2>8. QED
      BY <2>5, <2>6, <2>7 DEF Store!Advance, Pages, AtRisk
  <1>9. QED
    BY <1>6, <1>7, <1>8 DEF OperationOver

(* task_storage: nothing while the chunk is on its way, then one step.     *)
LEMMA UpdateRefines ==
  ASSUME StoreInv, WriteCycle > 1, StorageUpdate
  PROVE  Store!Write \/ Store!Advance \/ Store!Abandon \/ UNCHANGED (Store!storeVars)
  <1>1. /\ phase = "run" /\ phase' = "run"
        /\ UNCHANGED <<g_device_settings, phase, loading, reseeded>>
    BY DEF StorageUpdate, bootVars
  <1>2. CASE UpdateIdle \/ UpdateStillBusy
    <2>1. UNCHANGED <<chip, cycling, bus, tx, s_pending>>
      BY <1>2 DEF UpdateIdle, UpdateStillBusy, Polled, chipVars, saveVars
    <2>2. CellsAtRisk' = CellsAtRisk
      BY <1>1, <2>1 DEF CellsAtRisk, ReseedCell
    <2>3. UNCHANGED <<Pages, AtRisk>>
      BY <2>1, <2>2, PagesKept DEF AtRisk
    <2>4. QED
      BY <1>1, <2>1, <2>3 DEF Store!storeVars, Store!Sections, Sections, Pages, AtRisk
  <1>3. CASE UpdateTimedOut \/ UpdateFinished
    <2>1. PICK flags \in DmaFlags :
            DriverIdleWith(flags) /\ ChunkLeft(flags) /\ OperationOver(flags)
      BY <1>3, FlagsAreTrue DEF StoreInv
    <2>2. s_pending.active
      BY <1>3 DEF UpdateTimedOut, UpdateFinished
    <2>3. QED
      BY <1>1, <2>1, <2>2, OperationRefines
  <1>4. QED
    BY <1>2, <1>3 DEF StorageUpdate

(* A write cycle that ends takes its page out of a power cut's reach.      *)
LEMMA ChipRefines ==
  ASSUME StoreInv, ChipCycleEnds \/ Clock
  PROVE  Store!Settle \/ UNCHANGED (Store!storeVars)
  <1>1. /\ phase = "run" /\ phase' = "run" /\ UNCHANGED <<chip, bus, tx>>
        /\ UNCHANGED <<g_device_settings, phase, loading, reseeded, s_pending>>
    BY DEF ChipCycleEnds, Clock, Environment, ChipReady, TimePasses, bootVars, drvVars
  <1>2. Pages' = Pages
    BY <1>1, PagesKept
  <1>3. CASE ChipCycleEnds
    <2>1. cycling' = {}
      BY <1>3 DEF ChipCycleEnds, Environment, ChipReady
    <2>2. CellsAtRisk' \subseteq CellsAtRisk
      BY <1>1, <2>1 DEF CellsAtRisk
    <2>3. AtRisk' \subseteq AtRisk
      BY <2>2 DEF AtRisk
    <2>4. QED
      BY <1>1, <1>2, <2>3 DEF Store!Settle, Pages, AtRisk
  <1>4. CASE Clock
    <2>1. cycling' = cycling
      BY <1>4 DEF Clock, Environment, TimePasses
    <2>2. CellsAtRisk' = CellsAtRisk
      BY <1>1, <2>1 DEF CellsAtRisk, ReseedCell
    <2>3. AtRisk' = AtRisk
      BY <2>2 DEF AtRisk
    <2>4. QED
      BY <1>1, <1>2, <2>3 DEF Store!storeVars, Pages, AtRisk
  <1>5. QED
    BY <1>3, <1>4

(* A reset costs at most one of the pages at risk.                         *)
LEMMA PowerCutRefines ==
  ASSUME StoreInv, PowerCut PROVE Store!PowerCut
  <1>0. chip \in [Cells -> Values \cup {Bad}] /\ Default \in Values
    BY DefaultAssumption DEF DefaultAssumption, StoreInv, Inv, TypeOK, DriverTypeOK
  <1>1. /\ phase' = "boot" /\ s_pending' = NoPending /\ g_device_settings' = Defaults
        /\ bus' = "none" /\ cycling' = {}
        /\ chip' = chip \/ \E cell \in CellsAtRisk : chip' = [chip EXCEPT ![cell] = Bad]
    BY DEF PowerCut
  <1>2. Pages' = Pages \/ \E s \in AtRisk : Pages' = [Pages EXCEPT ![s] = Bad]
    <2>1. CASE chip' = chip
      BY <2>1, PagesKept
    <2>2. CASE \E cell \in CellsAtRisk : chip' = [chip EXCEPT ![cell] = Bad]
      <3>1. PICK cell \in CellsAtRisk : chip' = [chip EXCEPT ![cell] = Bad]
        BY <2>2
      <3>2. CellsAtRisk \subseteq Cells
        BY SectionsAssumption
           DEF SectionsAssumption, StoreInv, Inv, TypeOK, DriverTypeOK, BootIsQuiet,
               CellsAtRisk, ReseedCell, Cells
      <3>3. PICK p \in Sections, k \in 1 .. Chunks : cell = <<p, k>>
        BY <3>2 DEF Cells
      <3>4. \E w \in {Bad} : Pages' = [Pages EXCEPT ![p] = w]
        BY <1>0, <3>1, <3>3, OneChunkChanges
      <3>5. p \in AtRisk
        BY <3>3 DEF AtRisk
      <3>6. QED
        BY <3>4, <3>5
    <2>3. QED
      BY <1>1, <2>1, <2>2
  <1>3. AtRisk' = {}
    BY <1>1 DEF AtRisk, CellsAtRisk
  <1>4. g_device_settings' \in [Sections -> Values] /\ s_pending'.buf \in Values
        /\ s_pending'.active = FALSE /\ s_pending'.sec = 1
    BY <1>0, <1>1 DEF Defaults, NoPending
  <1>5. QED
    BY <1>1, <1>2, <1>3, <1>4 DEF Store!PowerCut, Store!Sections, Sections, Pages, AtRisk

(* Every step of the storage is a step of the store of pages, or none of   *)
(* its business.                                                           *)
LEMMA StoreStep ==
  ASSUME WriteCycle > 1, StoreInv, StoreInv', [Next]_vars
  PROVE  [Store!Next]_(Store!storeVars)
  <1>1. CASE BootStep
    BY <1>1, BootRefines DEF StoreInv, Store!Next
  <1>2. CASE Callers
    BY <1>2, CallersRefine DEF StoreInv, Store!Next
  <1>3. CASE StorageUpdate
    BY <1>3, UpdateRefines DEF Store!Next
  <1>4. CASE Interrupt
    BY <1>4, InterruptRefines DEF Store!Next
  <1>5. CASE ChipCycleEnds \/ Clock
    BY <1>5, ChipRefines DEF Store!Next
  <1>6. CASE PowerCut
    BY <1>6, PowerCutRefines DEF Store!Next
  <1>7. CASE UNCHANGED vars
    BY <1>7 DEF vars, eepromVars, bootVars, saveVars, Store!storeVars, Whole, Holds,
                CellsAtRisk, ReseedCell
  <1>8. QED
    BY <1>1, <1>2, <1>3, <1>4, <1>5, <1>6, <1>7 DEF Next

(* svc_storage, its driver, the chip, power cuts and retries implement the *)
(* store of indivisible pages, as long as the driver waits longer than the *)
(* chip's write cycle.                                                     *)
THEOREM StoreIsOfPages == ASSUME WriteCycle > 1 PROVE Spec => PagesAreIndivisible
  <1>1. StoreInv /\ StoreInv' /\ [Next]_vars => [Store!Next]_(Store!storeVars)
    BY StoreStep
  <1>2. QED
    BY <1>1, StoreInitRefines, StoreInvariant, PTL DEF Spec, PagesAreIndivisible, Store!Spec
=============================================================================
