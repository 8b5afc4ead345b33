# InclinationMeterFirmware: formal models and proofs

This directory holds TLA+ models of the inclination meter's firmware, the TLC
configurations that check them on small instances, and theorems that hold for
every value of the constants, checked by the TLA+ proof system. Paths below are
relative to the repository root.

- [The system](#the-system)
- [What is modelled](#what-is-modelled)
- [The runs](#the-runs)
- [The proofs](#the-proofs)
- [Where the documentation and the code disagree](#where-the-documentation-and-the-code-disagree)
- [What is not modelled](#what-is-not-modelled)
- [Plan](#plan)

## The system

The firmware runs on one STM32G0 without an operating system.
`App/app_scheduler.c` calls sixteen tasks from the main loop, each when its
period is over; a task runs to its end. Interrupt handlers run between any two
instructions of a task: TIM7 (priority 0) paces the ADC, DMA completions of the
SPI, I2C and UART channels raise flags, the USB interrupt receives reports, and
SysTick (priority 1) counts milliseconds, supervises the main loop and drains
the ADC ring, and can be preempted by TIM7. So the
only concurrency is task against interrupt and interrupt against interrupt, and
every blocking wait of a peripheral has been turned into a state machine that a
task polls. The layers are App, Services, Drivers_App, HAL_App, on top of
CubeMX code; `Math/` is pure.

| Component | State it keeps | Operations | Talks to | What is hard |
|---|---|---|---|---|
| Settings storage, `Services/svc_storage.c` | RAM copy `g_device_settings`, the save in progress `s_pending`, `settings_save_failed`, `s_eeprom_unreachable` | load and reseed at boot, save (asynchronous), restore defaults, update | EEPROM driver; SET, zero calibration, SETTINGS screen, commands | RAM changes under a running save; a chunk fails, times out, is retried; power cut; chip unreadable |
| EEPROM driver, `Drivers_App/drv_24lc256.c`, `HAL_App/hal_i2c.c` | operation, completion flags, write-cycle timer | start read, start page write, abort, update; DMA callbacks | I2C1 DMA, shared with the BME280 | refused transfers call back at once; stale flags; chip deaf during its write cycle |
| ADC acquisition, `Drivers_App/drv_ads131m04.c` | frame ring with free-running 16-bit indices, fault code, slip estimate | start, stop, TIM7 trigger, SysTick drain | SPI1 DMA, displacement service | three contexts share the ring; wraparound; a stalled side; lost conversions |
| Displacement, `Services/svc_displacement.c` and `svc_disp_*.c` | demodulator, two batch buffers, capture buffer, phasor stream, procedures | start, stop, samples from SysTick, update, captures, zero calibration, precision | ADC driver, ADC multiplexer, API resources | who owns the sample stream; batches published from an interrupt; faults in the middle of a procedure |
| API core, `Services/svc_api.c`, `svc_api_fields.c` | reassembler, subscriptions and connection per transport | receive, dispatch, subscribe, connect and disconnect edges, update | transports, resources | partial packets and timeouts; answers against pushes; a host that goes away with requests pending |
| Transmit ring, `Services/svc_txframe.c` | byte ring with length prefixes | push (urgent or not), peek, drop, reset | transports | space reserved for answers; frames that wrap around |
| USB transport, `svc_usb.c` | received packet, its length so far, offset into the frame being sent | receive in the interrupt, update with edges and pump | API core, transmit ring | interrupt against task; a packet of two reports of which one is dropped; reconnects with a packet pending or a frame half sent |
| BLE transport, `svc_ble.c`, `drv_rn4871.c`, `hal_uart.c` | bring-up state, attempts, token parser, DMA receive ring | bring-up with retries and backoff, tokens in the stream, task with edges | API core, RN4871 module, power test | late answers, lost commands, module resets, a receive ring that laps its reader, tokens against payload |
| Battery and power, `svc_battery.c`, `svc_power.c`, `hal_power.c` | charger inputs with VBUS debounce, charge latch, streak, shutdown and idle timers | update, force, cancel, inhibit, idle task, Standby and wake | settings, UI, transports | readings that bounce, VBUS that blinks, flags that are an update old, timers that are restarted |
| Scheduler, watchdog, `app_scheduler.c`, `hal_wdt.c`, `math_supervisor.c` | last run and period of each task, the supervisor's stall count, the WWDG | run, reload periods, supervise, refresh | everything | a counter that wraps, a late loop, periods changed inside a pass, a task that hangs |
| UI, `app_ui.c`, `app_display.c`, `app_leds.c`, LCD and encoder drivers | page, edit state, frame buffer | encoder events, drawing, DMA flush | settings, displacement, LCD | edit against a running save; a frame drawn while it is sent |
| Log, service mode, environment sensors, sine generator, self test | a ring of lines; a session; sensor state machines | - | API, I2C1 | sharing of the I2C bus, timeouts |
| `Math/` | none (windows and quality latch keep theirs in the caller) | CRC, phasors, averages, quality, displacement | - | widths and rounding |

What must hold, component by component: **storage** - a page is old, new or
known to be bad, what was reported saved is on the chip, a chip that could not
be read is not overwritten, no save lasts for ever; **EEPROM driver** - a
report of success is true, no completion is lost; **ADC acquisition** - no
frame is torn, lost, doubled or reordered without ending the run, no healthy run
is ended; **displacement** - one owner of the samples at a time, every
procedure ends, no batch mixes two configurations; **transports
and API** - a host hears only answers to what it asked in this connection, in
order, and pushes only while it subscribes, and a host that goes on asking goes
on being answered, whatever was dropped before; **BLE** - an unconfigured module
is never taken for a configured one, and bring-up succeeds once the module
behaves; **battery** - no shutdown without its full warning, none of an
instrument in use, and one that is dead or idle does switch off; **scheduler** -
every task runs neither early nor much late, a live loop is never reset, a hung
one always is.

`PROJECT.json` lists every component with its sources and status, and the
hazards with the source line where each bites and the properties that cover it.

## What is modelled

### Eeprom24LC256: the EEPROM driver, its bus and its chip

`Eeprom24LC256.tla` has the driver's operation `s_op`, the four completion
flags (`s_dma`), the DMA transfer in flight (`bus`), and the chip: its cells and
the internal write cycle that makes it deaf for up to TWC (5 ms). A cell is one
64-byte EEPROM page, the unit the driver writes; its content is the value of the
settings section it was cut from, or `Bad` for bytes no loader accepts. Each C
function is one operator (`StartWritePage`, `StartRead`, `ReadComplete`,
`Abort`, `Update`), the callbacks are the interrupts `WriteDone`, `WriteFails`,
`AddrDone`, `ReadDone`. `HalStart` is the point that surprises: the HAL may
refuse a transfer, and then the completion callback runs *before* `start_*`
returns. `DriverSpec` puts an arbitrary caller on top.

Time moves in units of TWC; `waited` is what `drv_24lc256_update` compares with
`EEPROM_WRITE_CYCLE_MS`.

### Storage: boot, save, callers, power

`Storage.tla` extends the driver's module. The boot is `LoadSection`,
`SectionUnreadable`, `SectionBad`, `ReseedChunk`, `ReseedFails`, `BootDone`: one
step per page read (reads change nothing) and per page *written*, because power
may fail in between. The save is `StorageUpdate`: one call of
`svc_storage_update`, including the driver's update it starts with; its
alternatives are the branches of the C function (`RetryChunk`, `AbandonSave`,
`NextChunk`, `NextSection`, `SaveDone`; still busy; timed out). The callers that
change settings are actions of their own, with the order the code has: a host's
SET asks `svc_storage_is_busy` first, while `CommitEdit` of the SETTINGS screen
writes RAM first and asks afterwards. `PowerCut` may happen in every state and
may ruin the cell being written.

The content of a section is abstracted to a few values: the default, another
good one, one that holds a zero which some task would divide by. What the CRC
does is kept as what it means: a page loads only when all of its chunks come
from the same value (`Whole`).

`SettingsStore.tla` is what all this promises: pages that are each one
indivisible value or `Lost`, of which only the page being saved can change, and
a save that leaves a page behind only when a power cut can no longer touch it.
`PagesAreIndivisible` states the refinement.

### AdsRing: the acquisition

`AdsRing.tla` has the ring, the two free-running indices (here modulo
`IndexRange`, 2^16 in the code), the DMA channel, and the three contexts that
touch them: `OnTrigger` is one TIM7 interrupt (atomic: priority 0); the SysTick
drain is split into the steps between which TIM7 can preempt it (`SysTick`,
`CheckFrame`, `StoreFault`, `PassOn`, `DrainOver`, `SlipCheck`) - in particular
`integ_fault`, which reads the fault code in one step and stores it in another;
`Start` and `Stop` are task code and never run inside a handler. `Convert` is
the ADC: a conversion that is not read before the next one is lost. A SysTick
may be late by at most `MaxLate` conversions.

The slip check compares frames with the millisecond clock. The code keeps the
number of milliseconds and of frames since the start; only their difference
against the reference is read, so the model keeps that difference
(`frame_deficit`), which both sides update. Frames are numbered in reading order
modulo `Labels`, so that a lost, doubled or reordered frame shows.

A slot is `Torn` from the moment the DMA is armed on it until it is done: a
consumer that reads it then would deliver `Torn`, which the abstract queue does
not know.

`SampleFifo.tla` is the promise to the displacement service: a bounded queue
whose samples come out once, whole and in order, with no hole inside a run.
`ImplementsFifo` states the refinement; the queue is what the drain has yet to
pass on (`Waiting`).

### Displacement: who gets the samples

`Displacement.tla` starts where the acquisition ends. The driver's frames wait
in its ring (`unread`) until `Sample`, the SysTick drain, passes one to
`on_sample`, and `DrvStopped` flushes the rest. `OnSamples` is the branch of
`on_sample` that decides everything: into the capture buffer, or into the batch
(`AccumAfter`) that goes to the task over a bounded ring. The task's loop is
`UpdateBegins`, `UpdateBatch` and `UpdateEnds` (with the poll of the precision
timeout and the integrity check), so that SysTick hands over and drops batches
between two turns; every other task runs only while the loop is not in progress
(`Command`). `Start`, `Stop`, `CaptureBegin` and `CaptureEnd` are the service's
calls; the actions after them are the commands, screens and transports that
reach them, each with its own idea of whether the ADC is free: `BulkIdle`,
`s_running`, `cap.active` or `g_disp_pstream_active`.

Samples carry no values: a sample is the run (driver start to stop) it comes
from, counted modulo `RunLabels`, and a batch is its number, its runs and whether batches
were dropped before it. Whether a precision window is clean enough is a free
choice of `GoodBatch`. The ghosts are `run`, `zc.run`, `prec.since` and the
`from` and `gap` fields. `DegenerateBatch` is a batch without excitation.
Batches are numbered modulo `SeqRange` as `seq` is; the assumption
`SeqRange > MaxDrops + 2` says that the number does not come round while batches
are being dropped (25 s in the code, long after the watchdog).

`AdcOwner.tla` is the promise of the API document: one owner at a time, and from
one owner to another only through nobody (`OneOwner`).

### TxFrame, UsbLink and Session: a host on USB

`TxFrame.tla` is `svc_txframe.c` byte by byte: a cell of the buffer holds which
byte of which frame it is, so that a length prefix read from the wrong place, a
frame that wraps around the end or one byte too few dropped shows. `Free` keeps
the one byte apart that tells full from empty; `Fits` is the reserve that only
urgent frames (answers) may use.

`UsbLink.tla` puts one host around it, end to end: the reports it sends,
`RxHandler` (`rx_handler` in the USB interrupt, between any two steps of a task),
`svc_usb_update` as `UpdateBegins` (the connection edges), `Dispatch`,
`ClearPending` and the pump, `ApiUpdate` as the pushes of
`svc_api_subscriptions_update`, the endpoint and the host that reads it. A
request is an id and a kind; a packet of two reports may lose either of them, and
then the device puts together `Noise`.

`Session.tla` is what a host may rely on, stated once for both transports:
answers in the order of the requests, at most one each, only to what was asked
since it connected; pushes only between SUBSCRIBE and the answer to UNSUBSCRIBE;
bytes it cannot place only after a packet has been cut. `HostSession` states that
the link refines it.

### BleLink: a central on Bluetooth

`BleLink.tla` has the same host behind the RN4871. The module is external: it
boots, takes a command or loses it, answers late, resets on its own, is held in
reset by the power test. The firmware's side is `drv_rn4871_task` (one action
per state of its machine, with the timeouts, `FailOrRetry` and the backoff),
`dispatch_token` and the pending `%`, the DMA ring with the guard of
`hal_uart_read` (a reader that is lapped skips to what is still there), the
reassembler with its timeout, the edges and the pump of `svc_ble_task`. The
stream is cut into items: a token, an answer of the module, or half a packet. The
transmit ring is the queue of frames that `TxFrameProofs` shows it to be.

A central comes in two steps: it has the LE link (`central`, the token `CONNECT`), and
later opens the stream (`stream`, the token `OPEN`), which it needs to ask or hear
anything. The driver makes no difference between the two tokens (`Up`), so what it
knows is the link: that is what `LinkIsTracked` says; about the stream see disagreement
20 below.

### Power: charging, shutdown, idle, Standby

`Power.tla` has `svc_battery_update` (`BatteryTask`: charger inputs and VBUS grace,
the voltage, the charge policy, the streak and the shutdown timer) and
`svc_power_task` (`PowerTask`) as two tasks of one pass, `EnterStandby` and the
wake pins, the four commands about charging and the switch-off. A voltage is its
class among the thresholds the code compares with; a scan may show a glitch, and
an update may find the result of an earlier scan. A timer is its age, capped at
the limit it is compared with. The ghosts count how long the world has *really*
been so: `sinceVbus`, `criticalFor`, `quietFor`.

### Scheduler: the loop and its watchdog

`Scheduler.tla` has `app_scheduler_run` step by step (`StartPass` with its one
snapshot of the counter, `SkipTask` and `RunTask` with the wrapping comparison,
`TaskEnds`, `ReloadPeriods` from inside a task), the SysTick handler with
`math_supervisor_tick` and the refresh of the WWDG, and what a task can do to
them: take its time, hang with interrupts on (`TaskHangs`) or keep SysTick off
(`InterruptsChange`). The counter is modulo `W`, 2^32 in the code.

## The runs

| Run | Shows | Instance and why it is enough |
|---|---|---|
| `eeprom_driver` | `NoLostCompletion`, `ReportsAreTrue`: the driver never waits for an interrupt that cannot come, and what it reports is true | two cells, two values, write cycle of two units: a stale flag, a stale cell and a stale value can each be told from the right one |
| `storage` | `SaveProgress`, `CompletedSaveIsOnChip`, `PagesAreIndivisible` | two pages of two chunks: a power cut can fall between chunks and between pages; one retry and a timeout of one unit: both limits are reached; two values; one page edited by the screen, the other by the zero calibration |
| `storage_ends` | `NoZeroDivisor`, `QuietBootMatchesChip`, `SaveEnds`: what a boot makes of the chip, and a save that ends on a bus that never interrupts | one page of two chunks, a third value that is a zero divisor; liveness needs the fairness below |
| `ads_ring` | `DmaSlotIsFree`, `DamageIsLatched`, `ImplementsFifo` | three slots, indices modulo 6, damaged frames of both kinds: the ring fills, the indices wrap inside and outside a drain, the drain is up to three conversions late; labels modulo 4, more than the frames the ring holds. The code's ring is a power of two because it masks; the model needs a multiple only |
| `ads_slip` | `SlipIsReal`, `LossesAreLatched` | two conversions a millisecond, SysTick at most one conversion late, limit 4, hold 1, losses counted to 7 |
| `disp_measure` | `ReadingIsLive`, `ZeroCalIsOneRun`, `PrecisionIsContiguous`: what is averaged is one live, unbroken run | batches of two samples and one frame unread: a stop can fall inside a batch and inside a flush; a ring of one batch, one taken per call, one dropped in a row: SysTick fills it during the loop; window of two batches; one fault |
| `disp_streams` | `HeldForSomebody`, `SentCaptureIsWhole`, `OneOwner` | two hosts (interchangeable), a capture of two samples sent in two chunks, one fault, power tests |
| `disp_ends` | `PrecisionEnds`, `BulkEnds` | one batch a sample, one host, one fault; a precision measurement begun during a capture gets no batches |
| `usb_link` | `RingIsNotStuck`, `ReserveIsKept`, `HostSession`, `HostIsServed` | a ring of eight bytes with a reserve of two, reports of two bytes, answers of one and of two reports, one packet of two reports a session, two requests open, ids used again: the ring wraps, fills with pushes, and an edge falls between any two steps |
| `ble_link` | `ReadyIsConfigured`, `LinkIsTracked`, `HostSession`, `BringUpSucceeds`, `HostIsServed` | two bring-up attempts before the backoff, a receive ring of four items that is nearly lapped (its oldest are given up) or lapped by its length (it looks empty): CONNECT, OPEN or the half of a packet can be lost; transmit ring of two frames, one request open, power tests. By hand the run passes with `MaxLag = 5`, where both tokens can be lost, and its invariants and `HostSession` with two requests open (4.7 million states) |
| `power` | `ShutdownIsEarned`, `IdleOffIsQuiet`, `DeadPackSleeps`, `QuietSleeps`, `FullIsLeftAlone` | every class of voltage that the code tells apart, glitches of 0 and implausible, passes of one and two ticks, streak of two updates, every timer longer than a pass so that it can be restarted, blinked and met exactly |
| `scheduler` | `InTime`, `NoFalseReset`, `NeverEarly`, `HangsEnd`, `TasksRun` | three tasks, one with two periods, counter modulo 19 (the smallest the assumption below allows), passes longer than a period, a stall limit above a pass |

The number of properties and configurations is deliberately small: a type
invariant is a theorem (`Storage`, `AdsRing`, `Scheduler`) or a definition
`TypeOK` that can be added to a configuration; it is not what a run is for.
`CHECK_DEADLOCK` is on everywhere: a power cut, a conversion, a reconnect or a
tick is always possible in these systems.

**Fairness.** `Storage!FairSpec` assumes that the scheduler goes on calling
`task_storage` (it is a periodic task of a loop supervised by the watchdog),
that time passes, and that the chip finishes a write cycle (data sheet: within
TWC). No interrupt is assumed to come. `AdsRing!FairSpec` assumes that the ADC
goes on converting (TIM2 gives it its clock, is started once and left running,
`hal_tim.c:152`) and that the SysTick handler
runs when pending and gets to its end; TIM7 and the DMA are *not* assumed to go
on, because the loss of either is what the slip check is there to notice.
`Displacement!FairSpec` assumes the scheduler and the clock, that a running
acquisition without a fault delivers frames and SysTick drains them, and that
the link of a connected host takes a chunk again and again (strong fairness: it
may be full in between). Nothing is assumed of hosts and users, and a capture
gives no batches, so the precision measurement's timeout is on its own there.
`UsbLink!FairSpec` assumes that tasks end and that `svc_usb_update` gets its turn
(strong: other tasks are in between, and the loop goes round them all; that it
does is `TasksRun` of `Scheduler`), and of the host that it polls, finishes what it
began to send, and asks again when it has no answer; not that the cable stays.
`BleLink!FairSpec` assumes the same of task, time and central, and that the module
boots and takes commands; `BringUpSucceeds` adds that from some time on it does
so in time, `HostIsServed` that the central keeps to one request at a time.
`Power!FairSpec` assumes the two tasks, time, and the wait before Standby, which the
code bounds by 250 ms; nothing of pack, cable, central and user.
`Scheduler!FairSpec` assumes that the processor goes on and time passes; a task
may hang for ever and interrupts may stay off, which is what `HangsEnd` is about.

**Bounds.** `MaxLost` caps a ghost counter; `MaxFaults` and `MaxDrops` cap the
ADC faults of a history and the batches dropped in a row; `MaxAsked` and
`MaxOver` cap the host's open requests and its packets of two reports, `MaxLag`
what arrives between two reads; ages in `Power` stop at the limit they are
compared with. The limits of retries, timeouts, settling and hold are the code's
own, made small; nothing else is bounded but by the sets in the configurations.
Two runs state what the environment does not do. `usb_link` has `EdgesSeen`: two
changes of the link do not fall between two calls of the task, since an
enumeration takes longer than the task's period; `ble_link` has
`Between = "noticed"` for the same reason. `power` has no battery period longer
than the idle limit. What happens otherwise is shown by the configurations
listed below.

## The proofs

The proof modules follow the same argument: an inductive invariant, the initial
states, one lemma per action, a theorem that it always holds, and the properties
from it. All hold for every value of the constants under the named
assumptions of the modules (positive sizes, `IndexRange` a multiple of the ring
size, the default among the values and not a zero divisor).

**StorageProofs.** `TypeCorrect`, `SavesAreTracked` (`SaveProgress`),
`DivisorsAreRepaired` (`NoZeroDivisor`) and `SuccessIsDurable`
(`CompletedSaveIsOnChip`). None of the first three is inductive alone.
`SaveProgress` counts a chunk as written when the driver says so, which is only
right if the driver is working on that very chunk, with the snapshot's value and
no flag left over from an earlier one (`DriverServesSave`), and if a transfer it
takes for good has landed (`TransferLanded`); a power cut needs `BootIsQuiet`.
`Inv` is the conjunction.

`StoreIsOfPages` is the refinement: the whole of `Storage` implements
`SettingsStore` (`PagesAreIndivisible`). Boot steps map to `Boot`, the callers to
`Change` or `ChangeAndSave`, interrupts, retries and further chunks to `Write`, the
last chunk of a page to `Advance`, an exhausted save to `Abandon`, the end of a write
cycle to `Settle`; `OneChunkChanges` says that a page of which one chunk changes is
lost or becomes what that chunk is. It needs three more facts (`StoreInv`): that
the boot goes on in order and rewrites only a page that was bad (`BootInv`), that a
page is begun with its first chunk (`FreshSection`), and that the time the driver has
waited is time the chip has had (`CycleTimed`). The last is what `Advance` rests on,
that a page left behind is out of a power cut's reach, and it is why the theorem
assumes `WriteCycle > 1`: the driver waits 10 ms (`drv_24lc256.c:14`) and the chip takes
at most 5. `QuietBootIsTrue` (`QuietBootMatchesChip`) follows from `BootInv` alone.

The driver under an arbitrary caller has its own invariant, `DriverInv`: a transfer
on the bus is the operation's (`BusServesOp`), one that succeeded has done what it was
started for (`TransferIsTrue`), and `CycleTimed`. From it `NoCompletionIsLost`
(`NoLostCompletion`) and, again for `WriteCycle > 1`, `ReportsCanBeTrusted`
(`ReportsAreTrue`).

**AdsRingProofs.** `RingTypes`, `DrainStaysInBounds` (`DrainInBounds`) and
`DmaNeverTearsAFrame` (`DmaSlotIsFree`). The invariant adds to these that the
ring has a free slot (`RingHasRoom`), that an armed DMA works on the slot head
points at (`DmaServesHead`), that a frame in the drain's hands is one of the
unread ones (`FrameInHand`), and that nothing is read after a stop
(`StopEndsReads`). The indices are remainders; a first part of the module proves
the few facts about `(h - t) % IndexRange` from which everything after it is
linear arithmetic. `IndexRange % RingFrames = 0` is needed: it makes the masked
slot and the free-running index agree across the wrap.

`NoSilentDamage` (`DamageIsLatched`) adds that a damaged frame under way has latched
its fault by the time it counts (`DamageInHand`). `AcquisitionIsAFifo`
(`ImplementsFifo`) is the refinement of `SampleFifo`: the frames that wait are those
between the first unread index and head, in index order (`QueueFacts`); a commit appends
one (`Committed`), a callback takes the first (`PassedOn`), and `ReadsContinue` says that
the read in progress carries on the numbering of the newest, which is what a dropped
or doubled frame would break. `SlipIsNoFalseAlarm` (`SlipIsReal`) is arithmetic: the
deficit, less the conversions in the pipeline and the milliseconds not yet accounted
for, stays what it was when the reference was taken (`Bias`, in `ReferenceInv`), until a
conversion is lost. It assumes `SlipMargin`: a SysTick is less than a millisecond late,
and by at least two conversions less than the limit; `MC_AdsRing_stall.cfg` is what
happens otherwise. The code's limit is eight frames, where the noise it was chosen for is a
few (`config.h:306`, `drv_ads131m04.c:331`).

**DisplacementProofs.** For every size of ring, batch, window and capture and every set
of hosts. `HeldOnlyForSomebody` (`HeldForSomebody`) and `WholeCaptureIsSent`
(`SentCaptureIsWhole`) need `CaptureInv`: the transfer captures exactly while the
capture is armed, a finished capture is full and all of one run, and a stopped driver has
nothing unread that could be flushed into the buffer. `TheAdcHasOneOwner` (`OneOwner`) is the
refinement of `AdcOwner`. `MeasurementIsOneRun` says that while the driver runs for the
measurement, everything that a reading is made of is of this very run, captures in between
included. The three properties of `disp_measure` hold only without captures (7 and 8
below), so `ReadingsAreLive` (`ReadingIsLive`), `ZeroCalibrationIsOneRun` (`ZeroCalIsOneRun`) and
`PrecisionWindowIsContiguous` (`PrecisionIsContiguous`) assume `"bulk" \notin Uses`, as the run
does. They rest on `OffMeansReset`, what a stop leaves, and the last on `SeqInv`: the
sequence numbers of the batches that wait show every batch dropped before them, because
fewer are dropped in a row (`MaxDrops`) than the numbers can tell apart.

**BleLinkProofs.** `ReadyModuleIsConfigured` (`ReadyIsConfigured`). Two steps of the bring-up wait
for the same answer, so an AOK that came late, or that a lapped ring preserved, might count
twice. `DialogueInv` says why not: in each step only that step's command can still be under
way, at most one AOK is on the line, and it is this command's. `Part` carries that through
whatever the ring loses, since what is left of the line is a part of it.

`DriverKnowsTheLink` (`LinkIsTracked`) rests on `TrackInv`: the last token still on the line
says whether a central has the link, and `s_connected` does when there is none (`Tells`):
an `OPEN` that follows its `CONNECT` says the same again, and a stream is open only on a
link; only a module in data mode, of a driver that is ready, has a central. What a chunk does is a recursive function
over its items; that its equation has a solution (`ParsedFunction`) and what it computes
(`ParsedIs`) are shown by taking the least number of items for which they would be wrong. The
theorem assumes that no request ends in `%` (`MC_BleLink_percent.cfg` is what happens
otherwise) and that a central does not come and go unnoticed, or before the driver is
ready, as the run does.

`CentralIsAHost` (`HostSession`) is the refinement of `Session`, for every ring, chunk, queue,
reserve and set of requests. Everything on its way has a place on one axis: the frames that
wait are before 0, the half packet in the reassembler is at 0, after it come the rest of the
chunk, the line, and the half the central has yet to send. Bytes of an earlier connection are
among them, so `HostInv` says that there is a place b where this one begins (`BeginsAt`): at the
OPEN, or at the CONNECT while the stream is not open, until the driver has read one of them
(`OpenAhead`, `NoStream`), within the chunk until the task has noticed, or at an OPEN that the
driver, which knows of the link, finds next (`AtOpen`); and then nothing else is left, because
the rising edge empties reassembler and ring. From b on, `Sound`
says that each frame, and each answer that a packet on its way could get, is expected and
comes in the order of the requests, and that a push may come when it comes
(`PushesSound`); `Alternate` says that without a lost byte there are whole packets only, so
that no answer to noise is on its way. The places move with every step, and the order stays
(`MovedIsSound`): `FedIsSound` for a half packet that goes to the reassembler, `ChunkBegins` and
`ChunkMoves` for a chunk, of which the ring may have lost the beginning. It assumes the same as
the run: no request ends in `%`, and a change of the central waits until the edge
before it has been noticed (`Between = "noticed"`).

**TxFrameProofs and UsbLinkProofs.** `PumpFindsAFrame` (`RingIsNotStuck`) and
`AnswersHaveRoom` (`ReserveIsKept`), for every size of ring, prefix, frame and
reserve. The invariant `RingInOrder` says that every byte between tail and head
belongs to a frame that lies there whole, in order (`Whole`), and that the reserve
is free unless an answer was pushed last (`Kept`). `PushKeeps` and `DropKeeps` show
that `svc_txframe_push` and `svc_txframe_drop_front` keep it: a push adds one whole
frame at the head and a drop takes one whole frame from the tail, which is why
`BleLink` can have a queue of frames.
The first part of `TxFrameProofs` turns places modulo the size into linear
arithmetic.

`LinkIsASession` (`HostSession`) is the refinement of `Session`, for every ring, report size
and set of requests. `Stream` is the sequence of all that the host has still to hear: the frame
whose last report is in the endpoint, the frames in the ring, the answer to the packet that
waits. `SessionInv` says that each of them is expected, that their answers are in the order of
the requests and about different ones (`Sound`), that `s_tx_offset`, the endpoint and the
host agree how far the frame in front has got (`OffsetsAgree`), and that nothing is
meant for a host that is not there (`NobodyThere`). It assumes `EdgesSeen`, that the task sees
every edge of the connection, as the run does; `MC_UsbLink_blink.cfg` is what happens
otherwise.

**PowerProofs.** `ShutdownIsWarned` (`ShutdownIsEarned`) and `IdlenessIsReal`
(`IdleOffIsQuiet`). Neither is inductive, because the code never sees how long the
world has been so: it has a timer that an update starts, one that counts updates,
one that starts when that count is full. `IInv` puts each of them behind the time
it stands for: the grace behind the absence of VBUS (`GraceIsReal`), a streak of n
updates behind n - 1 periods (`StreakIsReal`), the warning behind the streak
(`WarningIsReal`). For the idle timer, `UseIsSeen` says that a use the timer has not
been restarted for is still to come to it in this pass, and `CableIsAway` that an
absence of VBUS has begun one update after VBUS was last seen. `IdlenessIsReal`
assumes `MaxGap <= BatteryPeriod`, no pass longer than the battery's period; it is
used where the flags an update leaves are older than the pass.

**SchedulerProofs.** `LoopIsNeverEarly` (`NeverEarly`), `LoopIsFair` (`InTime`),
`WatchdogIsPatient` (`NoFalseReset`) and `LoopTypes`, for every number of tasks, set of
periods and width of the counter. The invariant relates the wrapped time stamps
to the true ages (`DifferenceIs` and `Between` are the modular facts), and bounds
every age below `W`. That needs `CounterAssumption`: a period and two passes that
the watchdog lets be are shorter than a turn of the counter, 49.7 days.

`LoopAssumption`, `CounterAssumption` and the other named assumptions are in the
component modules, where TLC evaluates them on the runs' constants.

Only model-checked: liveness (`SaveEnds`, `LossesAreLatched`, `PrecisionEnds`,
`BulkEnds`, `HostIsServed`, `BringUpSucceeds`, `DeadPackSleeps`, `QuietSleeps`,
`FullIsLeftAlone`, `HangsEnd`, `TasksRun`), which the prover cannot do. Every invariant,
action property and refinement that a run checks is a theorem as well.

## Where the documentation and the code disagree

Each has a configuration, to be run by hand (`tlc -config <cfg> <module>`, the module's
name is the first part of the configuration's); each shows the named property
violated.

1. `MC_Storage_flag.cfg`, `FlagDownMeansSaved`: a setting committed on the SETTINGS
   screen while a save runs is refused and flagged, and the end of the *older*
   save clears the flag, although `system_state.h` has it mean an unsuperseded
   failure.
2. `MC_Storage_unreachable.cfg`, `UnreadableChipIsKept`: after a page could not
   be read, a later page that reads but is invalid is reseeded, although the
   comment there keeps the chip untouched.
3. `MC_Storage_powercut.cfg`, `PowerCutKeepsPages`: a page whose write is cut
   short fails its CRC and boots as defaults: neither old nor new, as the release
   checklist has it.
4. `MC_AdsRing_stall.cfg`, `StallRecovers`: the reference of the slip check is taken
   once. A SysTick late at that very tick counts frames that belong to later
   milliseconds into it, and every later deficit is off by as many: a healthy
   acquisition can end with a slip fault, although the comment
   (`drv_ads131m04.c:333`) says that a transient stall recovers.
5. `EveryLossIsLatched`, put in the place of the properties of `MC_AdsRing_slip.cfg`: up to
   seven lost conversions go unnoticed for good, because the deficit they cause stays
   under the limit; the redesign document makes every loss an error.
6. `MC_Displacement_second_fault.cfg`, `BulkSurvivesFaults`: the report of an ADC
   fault is re-armed only by a start of the demodulation. A fault in a bulk
   capture after an earlier fault stops nothing, and the transfer waits for ever,
   although the pump's comment counts on the fault to stop it. With at most one
   fault the transfer does end (`disp_ends`).
7. `MC_Displacement_zero_cal_hang.cfg`, `ZeroCalNeverHangs`: a zero calibration
   may be begun while a bulk capture runs; the capture's end leaves it in its
   running phase for good.
8. `MC_Displacement_stale_ok.cfg`, `NoReadingWhileStopped`: at the end of a
   capture the frames flushed by the driver go to the batch accumulator. Several
   captures complete a batch, and the reading becomes valid while the measurement
   is off.
9. `OneSubscriber`, put in the place of the properties of `MC_Displacement_streams.cfg`:
   after an ADC fault the phasor tap is free while its subscriber still counts as one, so
   a second host subscribes as well; the comment has one subscriber at a time.
10. `MC_UsbLink_ghost.cfg`, `NoGhostSubscription`: a SUBSCRIBE that is pending when
    the link goes is executed after the disconnect edge has cleared the
    subscriptions, and lives on without a host (`docs/api-v3-spec.md:126` has a
    connect or disconnect clear them all).
11. `MC_UsbLink_longanswer.cfg`, `ResponseGetsOut`: an answer longer than the
    reserve of 64 bytes (GET of the ADC diagnostics has 88) is refused when
    pushes fill the rest, although the reserve is there so that a response can
    always get out.
12. `MC_UsbLink_blink.cfg`, `HostSession`: a disconnect and a reconnect between two
    calls of the task look like no change, and the new host hears what was meant
    for the old one. The BLE task has the same edge detection.
13. `MC_BleLink_percent.cfg`, `LinkIsTracked`: a packet whose last byte is `%` leaves
    the token parser one delimiter out, so that the next status token is read as
    payload and the device misses a disconnect (`drv_rn4871.c:135`).
14. `MC_BleLink_cut.cfg`, `CutStaysCut`: the power test holds the module in reset, and
    the next retry of the bring-up releases it (`svc_powertest.c:53`).
15. `MC_BleLink_lostreboot.cfg`, `ReadyIsDataMode`: when the reboot command is lost the
    driver goes READY on its timeout, with a module still in command mode
    (`drv_rn4871.c:66` leaves a dropped command to the retries).
16. `MC_Power_cancel.cfg`, `CancelIsFromScratch`: a cancelled forced charge goes on,
    because the charge latch is the one of an ordinary charge; `svc_battery.h:31`
    has the policy re-evaluated from scratch, while `tests/test_svc_battery.c:294`
    asserts the latch.
17. `MC_Power_boot.cfg`, `NoIdleOffOnUsb`: with a battery period above the idle limit,
    which the settings allow, the idle timer runs out on a USB cable that no update
    has looked at (`svc_power.h:11`).
18. `MC_Power_asleep.cfg`, `AwakeOnUsb`: VBUS that rises after the last update and
    before `hal_power.c:89` clears the wake flag does not wake the instrument.
19. `MC_Power_streak.cfg`, `StreakIsOfScans`: with a task period below the scan's, one
    bad scan counts as a whole streak of critical readings (`svc_battery.c:83`).
20. `ConnectedMeansStream`, put in the place of the properties of `MC_BleLink.cfg`: `dispatch_token` sets `s_connected`
    on `%CONNECT%` as well (`drv_rn4871.c:126`), although its comment (lines 123-125) says
    that this is just the LE link, and `drv_rn4871.h:30` that `drv_rn4871_is_connected`
    means an open Transparent UART stream. From the one token to the other the firmware
    takes a central for connected that cannot exchange data yet. Nothing wrong reaches it:
    the rising edge, which empties reassembler and queue, comes before its first request
    instead of with it, and `HostSession` holds across that window.

Read, not modelled: the API document refuses a stop of the demodulation while the
phasor stream is active, the code lets it through and says so in a comment; the
idle power-off is not suppressed "while a measurement is running"
(`svc_power.h:12`), `suppressed()` does not look at one; `hal_uart.c:32` counts on a
lapped receive ring being detected, but a lag of a whole number of rings looks
like none.

This is why `disp_measure`, which shows that the measurement is sound, has no
captures: `ReadingIsLive` and `ZeroCalIsOneRun` hold without them and fail with
them (7, 8).

## What is not modelled

`PROJECT.json` names every part with its reason. About 190 of the
repository's 202 thousand lines are generated or vendored (CubeMX, the STM32 HAL and LL
headers, CMSIS, the USB device library, fonts); they are modelled only through
what the firmware's own eleven thousand lines see of them, and cannot reasonably
be covered. Of the firmware itself, drawing, the phasor and compensation
arithmetic and the generated API tables have no behaviour in time; their host
tests cover them.

Three abstractions are worth knowing. A lapped receive ring loses whole items in `BleLink`;
`hal_uart.c:157` drops bytes and may cut within a token, which leaves the `%` of
`feed_payload_byte` (`drv_rn4871.c:143`) one delimiter out, as a packet that ends in `%` does
(13), and stays so for the next central, where the model's `odd` is cleared. `AdsRing` has a
whole number of conversions a millisecond; the converter has 20.83 (20833 Hz), so that a
millisecond has 20 or 21 frames. A USB suspend and resume, which
`hal_usb_is_connected` cannot tell from unplugging, is a host that leaves and a new one in
`UsbLink`.

Inside the modelled components: `run_eeprom_selftest` (a region no settings page
uses), register access of the ADC, the blocking half of `hal_i2c` beyond what boot
does with it, and the BME280 that shares I2C1; the phasor stream's FIFO, the raw
readings and the diagnostic counters of the displacement service; the contents
of a bulk transfer on its way through the transmit ring (USB registers no ready
function, so its chunks are not paced); the lookup of categories and resources;
attaching the USB bus with VBUS; the sleep of the core. The debug UART's service
is `svc_ble.c` without tokens and edges. Service mode (63 lines, one flag and one
timer) and the log ring (tasks only, overwrites its oldest line) run no two things
against each other.

## Plan

Done: `Eeprom24LC256`, `Storage`, `SettingsStore`, `AdsRing`, `SampleFifo`,
`Displacement`, `AdcOwner`, `TxFrame`, `UsbLink`, `Session`, `BleLink`, `Power`,
`Scheduler`, with proofs for every one of them, the refinements of `SettingsStore`,
`SampleFifo` and `AdcOwner`, and of `Session` by `UsbLink` and by `BleLink`, among these.

Left, in this order:

1. The BME280 on the I2C bus it shares with the EEPROM driver.
2. Bulk transfers through the transmit ring, with and without pacing; the phasor
   FIFO.
3. The line flush of the display against drawing; the quality latch of
   `math_window.c`.
