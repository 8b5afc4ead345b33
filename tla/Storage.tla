------------------------------ MODULE Storage ------------------------------
(***************************************************************************)
(* Services/svc_storage.c over the 24LC256 driver: the boot-time load and  *)
(* reseed of the settings pages, and the asynchronous save that            *)
(* task_storage pumps, with its callers (the host's SET, the zero          *)
(* calibration, factory defaults, the SETTINGS screen) and with power cuts *)
(* and resets at any point.                                                *)
(***************************************************************************)
EXTENDS Eeprom24LC256

CONSTANTS
  Default,      (* fill_default_settings, per section                      *)
  ZeroDivisors, (* section values validate_settings has to repair          *)
  UiSection,    (* the battery page: what the SETTINGS screen edits        *)
  DispSection,  (* the displacement page: what a zero calibration writes   *)
  MaxRetries,   (* STORAGE_WRITE_MAX_RETRIES                               *)
  AsyncTimeout  (* STORAGE_ASYNC_TIMEOUT_MS in units of TWC                *)

ASSUME DefaultAssumption ==
  /\ Default \in Values
  /\ ZeroDivisors \subseteq Values \ {Default}
ASSUME CallersAssumption == UiSection \in Sections /\ DispSection \in Sections
ASSUME LimitsAssumption  == MaxRetries \in Nat /\ AsyncTimeout \in Nat

VARIABLES
  phase,                 (* "boot" | "reseed" inside svc_storage_init,     *)
                         (* "run" once the scheduler runs                  *)
  loading,               (* i, the section svc_storage_init works on       *)
  reseeded,              (* chunks of it already rewritten                 *)
  g_device_settings,     (* RAM copy, one value per section                *)
  s_pending,             (* PendingWrite; buf is the value of the snapshot *)
  s_busy_seen,
  busyAge,               (* time since s_busy_since_ms, capped             *)
  settings_save_failed,
  s_eeprom_unreachable,
  settings_editing       (* g_ui_state.settings_editing                    *)

bootVars == <<phase, loading, reseeded>>
saveVars == <<s_pending, s_busy_seen, busyAge>>
flagVars == <<settings_save_failed, s_eeprom_unreachable>>
vars == <<eepromVars, bootVars, g_device_settings, saveVars, flagVars,
          settings_editing>>

PendingWrite ==
  [active : BOOLEAN, sec : Sections, buf : Values, written : 0 .. Chunks,
   inflight : BOOLEAN, retry : 0 .. MaxRetries]

TypeOK ==
  /\ DriverTypeOK
  /\ phase \in {"boot", "reseed", "run"}
  /\ loading \in 1 .. NumSections + 1
  /\ reseeded \in 0 .. Chunks - 1
  /\ g_device_settings \in [Sections -> Values]
  /\ s_pending \in PendingWrite
  /\ s_busy_seen \in BOOLEAN
  /\ busyAge \in 0 .. AsyncTimeout + 1
  /\ settings_save_failed \in BOOLEAN
  /\ s_eeprom_unreachable \in BOOLEAN
  /\ settings_editing \in BOOLEAN

(* A page loads when its header and its CRC agree with all of its data,    *)
(* that is, when every chunk comes from the same value.                    *)
Holds(s, v) == \A c \in 1 .. Chunks : chip[<<s, c>>] = v
Whole(s) == \E v \in Values : Holds(s, v)

(* svc_storage_validate_settings                                           *)
ValidValue_asRead(v) == v   (* mutant of ValidValue *)

ValidValue(v) == IF v \in ZeroDivisors THEN Default ELSE v
Validated(settings) == [s \in Sections |-> ValidValue(settings[s])]

Defaults == [s \in Sections |-> Default]

NoPending ==
  [active |-> FALSE, sec |-> 1, buf |-> Default, written |-> 0,
   inflight |-> FALSE, retry |-> 0]

-----------------------------------------------------------------------------
(* svc_storage_init. Its blocking reads leave the chip alone, so each page *)
(* is read in one step; its blocking writes go chunk by chunk, because     *)
(* power may fail between them.                                            *)

Booting == phase # "run"

RamInit ==
  /\ phase = "boot"
  /\ loading = 1
  /\ reseeded = 0
  /\ g_device_settings = Defaults
  /\ s_pending = NoPending
  /\ s_busy_seen = FALSE
  /\ busyAge = 0
  /\ settings_save_failed = FALSE
  /\ s_eeprom_unreachable = FALSE
  /\ settings_editing = FALSE

PageReads_headerOnly(s, v) == chip[<<s, 1>>] = v   (* mutant of PageReads *)

(* What load_section accepts: magic, version, and the CRC over all data.   *)
PageReads(s, v) == Holds(s, v)

LoadSection(v) ==
  /\ phase = "boot" /\ loading \in Sections
  /\ PageReads(loading, v)
  /\ g_device_settings' = [g_device_settings EXCEPT ![loading] = v]
  /\ loading' = loading + 1
  /\ UNCHANGED <<eepromVars, phase, reseeded, saveVars, flagVars, settings_editing>>

(* DRV_ERR_COMM: a read fails. The page keeps its default in RAM.          *)
SectionUnreadable ==
  /\ phase = "boot" /\ loading \in Sections
  /\ s_eeprom_unreachable' = TRUE
  /\ settings_save_failed' = TRUE
  /\ loading' = loading + 1
  /\ UNCHANGED <<eepromVars, phase, reseeded, g_device_settings, saveVars,
                 settings_editing>>

SectionBad ==
  /\ phase = "boot" /\ loading \in Sections
  /\ ~Whole(loading)
  /\ phase' = "reseed"
  /\ UNCHANGED <<eepromVars, loading, reseeded, g_device_settings, saveVars,
                 flagVars, settings_editing>>

(* One turn of the loop in blocking_write_block.                           *)
ReseedCell == <<loading, reseeded + 1>>

ReseedChunk ==
  /\ phase = "reseed"
  /\ chip' = [chip EXCEPT ![ReseedCell] = g_device_settings[loading]]
  /\ IF reseeded + 1 < Chunks
       THEN reseeded' = reseeded + 1 /\ UNCHANGED <<phase, loading>>
       ELSE reseeded' = 0 /\ phase' = "boot" /\ loading' = loading + 1
  /\ UNCHANGED <<cycling, cycleAge, drvVars, rbuf, g_device_settings, saveVars,
                 flagVars, settings_editing>>

ReseedFails ==
  /\ phase = "reseed"
  /\ \E v \in {chip[ReseedCell], Bad, g_device_settings[loading]} :
       chip' = [chip EXCEPT ![ReseedCell] = v]
  /\ settings_save_failed' = TRUE
  /\ reseeded' = 0 /\ phase' = "boot" /\ loading' = loading + 1
  /\ UNCHANGED <<cycling, cycleAge, drvVars, rbuf, g_device_settings, saveVars,
                 s_eeprom_unreachable, settings_editing>>

(* The validation that ends svc_storage_init; then the scheduler starts.   *)
BootDone ==
  /\ phase = "boot" /\ loading = NumSections + 1
  /\ g_device_settings' = Validated(g_device_settings)
  /\ phase' = "run"
  /\ UNCHANGED <<eepromVars, loading, reseeded, saveVars, flagVars, settings_editing>>

BootStep ==
  \/ \E v \in Values : LoadSection(v)
  \/ SectionUnreadable \/ SectionBad \/ ReseedChunk \/ ReseedFails \/ BootDone

-----------------------------------------------------------------------------
(* svc_storage_save_settings and its callers. A SET, a zero calibration    *)
(* and a restore answer "busy" and change nothing while a save is active;  *)
(* the SETTINGS screen writes RAM first and asks afterwards.               *)

SectionStart(sec, settings) ==
  [active |-> TRUE, sec |-> sec, buf |-> settings[sec], written |-> 0,
   inflight |-> FALSE, retry |-> 0]

svc_storage_is_busy_never == FALSE   (* mutant of svc_storage_is_busy *)

svc_storage_is_busy == s_pending.active

SaveAccepted == ~s_eeprom_unreachable /\ ~s_pending.active

(* svc_storage_save_settings(&g_device_settings), and the caller's         *)
(* settings_save_failed = true when it is refused.                         *)
SaveOrFlag(settings) ==
  IF SaveAccepted
    THEN s_pending' = SectionStart(1, settings) /\ UNCHANGED settings_save_failed
    ELSE settings_save_failed' = TRUE /\ UNCHANGED s_pending

SaveCall ==
  /\ phase = "run"
  /\ UNCHANGED <<eepromVars, bootVars, s_busy_seen, busyAge, s_eeprom_unreachable>>

(* api_field_handler, SET. The bounds of every field keep zero divisors    *)
(* out.                                                                    *)
FieldSet(s, v) ==
  /\ SaveCall
  /\ ~svc_storage_is_busy
  /\ g_device_settings' = Validated([g_device_settings EXCEPT ![s] = v])
  /\ SaveOrFlag(g_device_settings')
  /\ UNCHANGED settings_editing

(* The tail of api_zero_cal_apply_if_ready.                                *)
ZeroCalApply(v) ==
  /\ SaveCall
  /\ ~svc_storage_is_busy
  /\ g_device_settings' = Validated([g_device_settings EXCEPT ![DispSection] = v])
  /\ SaveOrFlag(g_device_settings')
  /\ UNCHANGED settings_editing

(* svc_storage_restore_defaults: an unreachable chip refuses the save with *)
(* the defaults already in RAM.                                            *)
RestoreDefaults ==
  /\ SaveCall
  /\ ~svc_storage_is_busy
  /\ g_device_settings' = Validated(Defaults)
  /\ IF SaveAccepted THEN s_pending' = SectionStart(1, g_device_settings')
                     ELSE UNCHANGED s_pending
  /\ UNCHANGED <<settings_save_failed, settings_editing>>

(* enter_edit_mode, cancel_edit and commit_edit of the SETTINGS screen.    *)
EnterEdit ==
  /\ SaveCall
  /\ ~settings_editing
  /\ settings_editing' = TRUE
  /\ UNCHANGED <<g_device_settings, s_pending, settings_save_failed>>

CancelEdit ==
  /\ SaveCall
  /\ settings_editing
  /\ settings_editing' = FALSE
  /\ UNCHANGED <<g_device_settings, s_pending, settings_save_failed>>

CommitEdit(v) ==
  /\ SaveCall
  /\ settings_editing
  /\ g_device_settings' = [g_device_settings EXCEPT ![UiSection] = v]
  /\ SaveOrFlag(g_device_settings')
  /\ settings_editing' = ~SaveAccepted

(* Commands CLEAR_COUNTERS.                                                *)
ClearCounters ==
  /\ SaveCall
  /\ settings_save_failed' = FALSE
  /\ UNCHANGED <<g_device_settings, s_pending, settings_editing>>

GoodValues == Values \ ZeroDivisors

Callers ==
  \/ \E s \in Sections, v \in GoodValues : FieldSet(s, v)
  \/ \E v \in GoodValues : ZeroCalApply(v) \/ CommitEdit(v)
  \/ RestoreDefaults \/ EnterEdit \/ CancelEdit \/ ClearCounters

-----------------------------------------------------------------------------
(* svc_storage_update, from the point where the driver is idle (flags: its *)
(* result flags by then) and a save is active.                             *)

Confirmed(flags) ==   (* the written count once the chunk's outcome is known *)
  s_pending.written + IF s_pending.inflight /\ flags.wr THEN 1 ELSE 0

ChunkFailed(flags) == s_pending.inflight /\ ~flags.wr

DriverStaysIdle(flags) ==
  s_op' = "IDLE" /\ s_dma' = flags /\ bus' = "none" /\ UNCHANGED tx

RetriesLeft == s_pending.retry < MaxRetries

RetryChunk(flags) ==
  /\ ChunkFailed(flags) /\ RetriesLeft
  /\ s_pending' = [s_pending EXCEPT !.retry = @ + 1]
  /\ WritePage(<<s_pending.sec, s_pending.written + 1>>, s_pending.buf, flags)
  /\ UNCHANGED settings_save_failed

AbandonSave(flags) ==
  /\ ChunkFailed(flags) /\ ~RetriesLeft
  /\ s_pending' = [s_pending EXCEPT !.active = FALSE, !.inflight = FALSE, !.retry = 0]
  /\ settings_save_failed' = TRUE
  /\ DriverStaysIdle(flags)

NextChunk(flags) ==
  /\ ~ChunkFailed(flags) /\ Confirmed(flags) < Chunks
  /\ s_pending' = [s_pending EXCEPT !.written = Confirmed(flags),
                                    !.inflight = TRUE, !.retry = 0]
  /\ WritePage(<<s_pending.sec, Confirmed(flags) + 1>>, s_pending.buf, flags)
  /\ UNCHANGED settings_save_failed

NextSection(flags) ==
  /\ ~ChunkFailed(flags) /\ Confirmed(flags) = Chunks
  /\ s_pending.sec < NumSections
  /\ s_pending' = SectionStart(s_pending.sec + 1, g_device_settings)
  /\ DriverStaysIdle(flags)
  /\ UNCHANGED settings_save_failed

SaveDone(flags) ==
  /\ ~ChunkFailed(flags) /\ Confirmed(flags) = Chunks
  /\ s_pending.sec = NumSections
  /\ s_pending' = [s_pending EXCEPT !.active = FALSE, !.written = Chunks,
                                    !.inflight = FALSE, !.retry = 0]
  /\ settings_save_failed' = FALSE
  /\ DriverStaysIdle(flags)

OperationOver(flags) ==
  /\ \/ RetryChunk(flags) \/ AbandonSave(flags) \/ NextChunk(flags)
     \/ NextSection(flags) \/ SaveDone(flags)
  /\ s_busy_seen' = FALSE /\ busyAge' = 0
  /\ waited' = 0
  /\ UNCHANGED rbuf

BusyNow == is_busy(PolledOp)

UpdateIdle ==
  /\ ~s_pending.active
  /\ Polled
  /\ UNCHANGED <<saveVars, settings_save_failed>>

OverTime_never == FALSE   (* mutant of OverTime *)

OverTime == s_busy_seen /\ busyAge > AsyncTimeout

UpdateStillBusy ==
  /\ s_pending.active /\ BusyNow /\ ~OverTime
  /\ Polled
  /\ s_busy_seen' = TRUE
  /\ UNCHANGED <<s_pending, busyAge, settings_save_failed>>

UpdateTimedOut ==
  /\ s_pending.active /\ BusyNow /\ OverTime
  /\ AbortChip
  /\ OperationOver(AbortedFlags)

UpdateFinished ==
  /\ s_pending.active /\ ~BusyNow
  /\ UNCHANGED chipVars
  /\ OperationOver(PolledFlags)

StorageUpdate ==
  /\ phase = "run"
  /\ UpdateIdle \/ UpdateStillBusy \/ UpdateTimedOut \/ UpdateFinished
  /\ UNCHANGED <<bootVars, g_device_settings, s_eeprom_unreachable, settings_editing>>

-----------------------------------------------------------------------------
(* Interrupts, time, and the supply.                                       *)

Environment(step) ==
  /\ phase = "run"
  /\ step
  /\ UNCHANGED <<bootVars, g_device_settings, s_pending, s_busy_seen, flagVars,
                 settings_editing>>

Interrupt == Environment(I2cInterrupt) /\ UNCHANGED busyAge
ChipCycleEnds == Environment(ChipReady) /\ UNCHANGED busyAge

Clock ==
  /\ Environment(TimePasses)
  /\ busyAge' = IF s_busy_seen /\ busyAge <= AsyncTimeout THEN busyAge + 1 ELSE busyAge

(* A reset or a power cut. A page write that was on the bus, or being      *)
(* committed by the chip, may leave its cell unreadable.                   *)
CellsAtRisk ==
  (IF bus = "write" THEN {tx.cell} ELSE {}) \cup cycling
  \cup (IF phase = "reseed" THEN {ReseedCell} ELSE {})

PowerCut ==
  /\ \/ UNCHANGED chip
     \/ \E cell \in CellsAtRisk : chip' = [chip EXCEPT ![cell] = Bad]
  /\ cycling' = {} /\ cycleAge' = 0
  /\ bus' = "none" /\ s_op' = "IDLE" /\ s_dma' = NoFlags /\ waited' = 0
  /\ phase' = "boot" /\ loading' = 1 /\ reseeded' = 0
  /\ g_device_settings' = Defaults
  /\ s_pending' = NoPending /\ s_busy_seen' = FALSE /\ busyAge' = 0
  /\ settings_save_failed' = FALSE /\ s_eeprom_unreachable' = FALSE
  /\ settings_editing' = FALSE
  /\ UNCHANGED <<tx, rbuf>>

Init ==
  /\ chip \in [Cells -> Values \cup {Bad}]
  /\ cycling = {} /\ cycleAge = 0
  /\ tx = [cell |-> <<1, 1>>, val |-> Default]
  /\ rbuf = Bad
  /\ DriverReset
  /\ RamInit

Next ==
  \/ BootStep
  \/ Callers
  \/ StorageUpdate
  \/ Interrupt \/ ChipCycleEnds \/ Clock
  \/ PowerCut

Spec == Init /\ [][Next]_vars

(* The scheduler calls task_storage every tick, time goes on, and the chip *)
(* finishes its write cycles. Nothing is assumed of the bus: an interrupt  *)
(* may never come.                                                         *)
Fairness ==
  WF_vars(StorageUpdate) /\ WF_vars(Clock) /\ WF_vars(ChipCycleEnds)

FairSpec == Spec /\ Fairness

-----------------------------------------------------------------------------
(* Properties.                                                             *)

(* What the save in progress has established: every chunk counted as       *)
(* written holds the snapshot; every page behind the current one is whole  *)
(* and holds what RAM has, unless the SETTINGS screen changed RAM under    *)
(* the save.                                                               *)
SaveProgress ==
  s_pending.active =>
    /\ \A c \in 1 .. s_pending.written : chip[<<s_pending.sec, c>>] = s_pending.buf
    /\ \A s \in Sections : s < s_pending.sec =>
         Whole(s) /\ (s # UiSection => Holds(s, g_device_settings[s]))
    /\ s_pending.sec # UiSection => s_pending.buf = g_device_settings[s_pending.sec]

(* on_dma(true) has run for the page write in progress.                    *)
TransferLanded ==
  \/ s_op = "WRITE_CYCLE_WAIT"
  \/ s_op = "DMA_WRITE" /\ s_dma.done /\ s_dma.ok

(* The driver works on the chunk the save thinks it does, with no stale    *)
(* result of an earlier one, and a transfer it counts as good is on the    *)
(* chip.                                                                   *)
DriverServesSave ==
  /\ s_op \in {"IDLE", "DMA_WRITE", "WRITE_CYCLE_WAIT"}
  /\ s_op # "IDLE" <=> s_pending.inflight
  /\ s_pending.inflight =>
       /\ s_pending.active
       /\ s_pending.written < Chunks
       /\ ~s_dma.wr
       /\ tx = [cell |-> <<s_pending.sec, s_pending.written + 1>>, val |-> s_pending.buf]
  /\ bus # "none" => bus = "write" /\ s_op = "DMA_WRITE" /\ ~s_dma.done
  /\ TransferLanded => chip[tx.cell] = tx.val

(* While svc_storage_init runs, no save and no transfer is in progress.    *)
BootIsQuiet ==
  /\ phase = "reseed" => loading \in Sections
  /\ phase # "run" => s_pending = NoPending /\ s_op = "IDLE" /\ bus = "none"

(* svc_storage.c's "genuinely finished" point: when a save ends with       *)
(* settings_save_failed clear, every page is on the chip, as RAM has it    *)
(* (the page the SETTINGS screen edits: as RAM had it at some point of the *)
(* save), whatever chunks failed, timed out and were retried on the way.   *)
CompletedSaveIsOnChip ==
  [][(s_pending.active /\ ~s_pending'.active /\ phase' = "run" /\ ~settings_save_failed')
       => \A s \in Sections :
            Whole(s)' /\ (s # UiSection => Holds(s, g_device_settings[s])')]_vars

(* A boot that does not raise settings_save_failed runs on exactly what    *)
(* the chip holds: nothing was defaulted that is not on the chip as well,  *)
(* and no page that failed its CRC was believed.                           *)
QuietBootMatchesChip ==
  [][(phase # "run" /\ phase' = "run" /\ ~settings_save_failed')
       => \A s \in Sections : \E v \in Values :
            Holds(s, v) /\ g_device_settings'[s] = ValidValue(v)]_vars

(* No task ever divides by a zero that came off the chip.                  *)
NoZeroDivisor ==
  phase = "run" => \A s \in Sections : g_device_settings[s] \notin ZeroDivisors

(* A save always ends, even on a bus that never answers: the timeout and   *)
(* the bounded retries end it, so that later saves are not refused forever.*)
SaveEnds == s_pending.active ~> ~s_pending.active

(* The whole of it implements the store of indivisible pages.              *)
Store == INSTANCE SettingsStore WITH
  store  <- [s \in Sections |-> IF Whole(s) THEN chip[<<s, 1>>] ELSE Bad],
  ram    <- g_device_settings,
  up     <- phase = "run",
  saving <- s_pending.active,
  page   <- s_pending.sec,
  cand   <- s_pending.buf,
  unsettled <- {cell[1] : cell \in CellsAtRisk},
  Lost   <- Bad

PagesAreIndivisible == Store!Spec

-----------------------------------------------------------------------------
(* Statements of the documentation that the code does not keep.            *)

(* system_state.h, settings_save_failed: true while a settings write has   *)
(* failed and has not been superseded by a successful one. So with no save *)
(* running and the flag down, the chip agrees with RAM.                    *)
FlagDownMeansSaved ==
  [][(s_pending.active /\ ~s_pending'.active /\ phase' = "run" /\ ~settings_save_failed')
       => \A s \in Sections : Holds(s, g_device_settings[s])']_vars

(* svc_storage_init's comment: when the chip could not be read, keep it    *)
(* untouched this boot.                                                    *)
UnreadableChipIsKept ==
  [][s_eeprom_unreachable /\ s_eeprom_unreachable' => UNCHANGED chip]_vars

(* docs/release-checklist.md: a power cut during a settings save leaves    *)
(* every page either old or new.                                           *)
PowerCutKeepsPages ==
  [][(phase = "run" /\ phase' = "boot" /\ s_pending.active)
       => \A s \in Sections : Whole(s) => Whole(s)']_vars
=============================================================================
