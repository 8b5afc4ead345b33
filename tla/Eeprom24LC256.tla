--------------------------- MODULE Eeprom24LC256 ---------------------------
(***************************************************************************)
(* The 24LC256 driver (Drivers_App/drv_24lc256.c) on top of the DMA part   *)
(* of HAL_App/hal_i2c.c, with the chip and the I2C peripheral as the       *)
(* environment.                                                            *)
(*                                                                         *)
(* A cell is one 64-byte EEPROM page of one settings page: <<s, c>> is the *)
(* c-th chunk of settings section s, the unit start_write_page accepts.    *)
(* What a cell holds is abstracted to the section value it was written     *)
(* from, or Bad: bytes that fail the magic, the version or the CRC (a      *)
(* blank chip, an older layout, a write cut short).                        *)
(*                                                                         *)
(* Time advances in units of the chip's longest write cycle (TWC = 5 ms).  *)
(***************************************************************************)
EXTENDS Naturals

CONSTANTS
  NumSections,  (* SETTINGS_SECTION_COUNT                                  *)
  Chunks,       (* 64-byte chunks per settings page                        *)
  Values,       (* abstract contents of one settings section               *)
  Bad,          (* contents that no loader accepts                         *)
  WriteCycle    (* EEPROM_WRITE_CYCLE_MS in units of TWC                   *)

ASSUME SectionsAssumption == NumSections \in Nat \ {0} /\ Chunks \in Nat \ {0}
ASSUME BadAssumption      == Bad \notin Values
ASSUME CycleAssumption    == WriteCycle \in Nat \ {0}

Sections == 1 .. NumSections
Cells    == Sections \X (1 .. Chunks)

VARIABLES
  chip,       (* what each cell holds                                      *)
  cycling,    (* the cell whose internal write cycle runs: {} or {cell}    *)
  cycleAge,   (* units of time that cycle has seen begin                   *)
  bus,        (* the DMA transfer in flight on I2C1                        *)
  tx,         (* s_tx_buf: addressed cell, and the value clocked out       *)
  rbuf,       (* the caller's buffer of the last read                      *)
  s_op,       (* s_op                                                      *)
  s_dma,      (* [done, ok, wr, rd]: s_dma_done, s_dma_success,            *)
              (* s_write_success, s_read_complete                          *)
  waited      (* time since s_wr_cycle_start_ms, capped at WriteCycle      *)

chipVars == <<chip, cycling, cycleAge>>
drvVars  == <<bus, tx, s_op, s_dma, waited>>
eepromVars == <<chip, cycling, cycleAge, bus, tx, rbuf, s_op, s_dma, waited>>

Ops == {"IDLE", "DMA_WRITE_ADDR", "DMA_READ", "DMA_WRITE", "WRITE_CYCLE_WAIT"}

NoFlags == [done |-> FALSE, ok |-> FALSE, wr |-> FALSE, rd |-> FALSE]

DriverTypeOK ==
  /\ chip \in [Cells -> Values \cup {Bad}]
  /\ cycling \in SUBSET Cells
  /\ cycleAge \in 0 .. 1
  /\ bus \in {"none", "write", "addr", "read"}
  /\ tx \in [cell : Cells, val : Values]
  /\ rbuf \in Values \cup {Bad}
  /\ s_op \in Ops
  /\ s_dma \in [done : BOOLEAN, ok : BOOLEAN, wr : BOOLEAN, rd : BOOLEAN]
  /\ waited \in 0 .. WriteCycle

(* drv_24lc256_init, and the static initialisers: the reset state.         *)
DriverReset ==
  /\ bus = "none"
  /\ s_op = "IDLE"
  /\ s_dma = NoFlags
  /\ waited = 0

is_busy(op) == op # "IDLE"

-----------------------------------------------------------------------------
(* The calls.                                                              *)

HalStart_keepsFlags(kind, flags) ==   (* mutants of HalStart *)
  /\ bus' \in {kind, "none"}
  /\ s_dma' = IF bus' = "none" THEN [flags EXCEPT !.done = TRUE, !.ok = FALSE] ELSE flags

HalStart_silent(kind, flags) ==
  /\ bus' \in {kind, "none"}
  /\ s_dma' = [flags EXCEPT !.done = FALSE, !.ok = FALSE]

(* hal_i2c_*_dma: the HAL takes the transfer, or refuses it and the        *)
(* completion callback runs at once with success = false.                  *)
HalStart(kind, flags) ==
  \/ /\ bus' = kind
     /\ s_dma' = [flags EXCEPT !.done = FALSE, !.ok = FALSE]
  \/ /\ bus' = "none"
     /\ s_dma' = [flags EXCEPT !.done = TRUE, !.ok = FALSE]

(* The body of drv_24lc256_start_write_page once s_op is known to be idle, *)
(* from flags the same handler may have changed before the call.           *)
WritePage(cell, v, flags) ==
  /\ s_op' = "DMA_WRITE"
  /\ tx' = [cell |-> cell, val |-> v]
  /\ HalStart("write", [flags EXCEPT !.wr = FALSE])

(* drv_24lc256_start_write_page, refused (no change) unless idle.          *)
StartWritePage(cell, v) ==
  /\ ~is_busy(s_op)
  /\ WritePage(cell, v, s_dma)
  /\ UNCHANGED <<chipVars, rbuf, waited>>

(* drv_24lc256_start_read, refused unless idle.                            *)
StartRead(cell) ==
  /\ ~is_busy(s_op)
  /\ s_op' = "DMA_WRITE_ADDR"
  /\ tx' = [tx EXCEPT !.cell = cell]
  /\ HalStart("addr", [s_dma EXCEPT !.rd = FALSE])
  /\ UNCHANGED <<chipVars, rbuf, waited>>

(* drv_24lc256_read_complete: reading the flag clears it.                  *)
ReadComplete ==
  /\ s_dma.rd
  /\ s_dma' = [s_dma EXCEPT !.rd = FALSE]
  /\ UNCHANGED <<chipVars, bus, tx, rbuf, s_op, waited>>

(* drv_24lc256_abort. hal_i2c_abort puts a STOP on the bus: a page write   *)
(* cut short makes the chip commit whatever bytes it was given.            *)
AbortChip ==
  \/ UNCHANGED chipVars
  \/ /\ bus = "write" /\ cycling = {}
     /\ \E v \in {tx.val, Bad} : chip' = [chip EXCEPT ![tx.cell] = v]
     /\ cycling' = {tx.cell}
     /\ cycleAge' = 0

AbortedFlags == [s_dma EXCEPT !.done = FALSE, !.ok = FALSE, !.wr = FALSE]

Abort ==
  /\ is_busy(s_op)
  /\ AbortChip
  /\ bus' = "none"
  /\ s_op' = "IDLE"
  /\ s_dma' = AbortedFlags
  /\ waited' = 0
  /\ UNCHANGED <<tx, rbuf>>

(* drv_24lc256_update, every case but the end of a read's address phase,   *)
(* as the state it leaves behind.                                          *)
CycleOver_atOnce == s_op = "WRITE_CYCLE_WAIT"   (* mutant of CycleOver *)

CycleOver == s_op = "WRITE_CYCLE_WAIT" /\ waited >= WriteCycle

WriteAccepted_anyDone == s_op = "DMA_WRITE" /\ s_dma.done   (* mutant *)

WriteAccepted == s_op = "DMA_WRITE" /\ s_dma.done /\ s_dma.ok

OpAfterFailedWrite == "IDLE"

PolledOp ==
  CASE WriteAccepted -> "WRITE_CYCLE_WAIT"
    [] s_op = "DMA_WRITE" /\ s_dma.done /\ ~WriteAccepted -> OpAfterFailedWrite
    [] s_op = "DMA_READ" /\ s_dma.done -> "IDLE"
    [] CycleOver -> "IDLE"
    [] OTHER -> s_op

PolledFlags ==
  CASE s_op = "DMA_READ" /\ s_dma.done -> [s_dma EXCEPT !.rd = s_dma.ok]
    [] CycleOver -> [s_dma EXCEPT !.wr = TRUE]
    [] OTHER -> s_dma

PolledWait == IF PolledOp = "WRITE_CYCLE_WAIT" THEN waited ELSE 0

AddrPhaseOver == s_op = "DMA_WRITE_ADDR" /\ s_dma.done

AddrPhaseEnds ==
  /\ AddrPhaseOver
  /\ IF s_dma.ok
       THEN s_op' = "DMA_READ" /\ HalStart("read", s_dma)
       ELSE s_op' = "IDLE" /\ UNCHANGED <<bus, s_dma>>
  /\ UNCHANGED <<chipVars, tx, rbuf, waited>>

Polled ==
  /\ ~AddrPhaseOver
  /\ s_op' = PolledOp
  /\ s_dma' = PolledFlags
  /\ waited' = PolledWait
  /\ UNCHANGED <<chipVars, bus, tx, rbuf>>

Update == AddrPhaseEnds \/ Polled

-----------------------------------------------------------------------------
(* The I2C peripheral and the chip.                                        *)

(* The transfer completes and the DMA interrupt runs on_dma(success). The  *)
(* chip answers nothing during its write cycle; a failed page write may    *)
(* still have left part of the page behind.                                *)
Complete(success) ==
  /\ bus' = "none"
  /\ s_dma' = [s_dma EXCEPT !.done = TRUE, !.ok = success]
  /\ UNCHANGED <<tx, s_op, waited>>

WriteLands(v) ==
  /\ chip' = [chip EXCEPT ![tx.cell] = v]
  /\ cycling' = {tx.cell}
  /\ cycleAge' = 0

WriteDone ==
  /\ bus = "write" /\ cycling = {}
  /\ WriteLands(tx.val)
  /\ Complete(TRUE)
  /\ UNCHANGED rbuf

WriteFails ==
  /\ bus = "write"
  /\ \/ UNCHANGED chipVars
     \/ cycling = {} /\ WriteLands(Bad)
  /\ Complete(FALSE)
  /\ UNCHANGED rbuf

AddrDone ==
  /\ bus = "addr"
  /\ \E success \in BOOLEAN : (success => cycling = {}) /\ Complete(success)
  /\ UNCHANGED <<chipVars, rbuf>>

ReadDone ==
  /\ bus = "read"
  /\ \/ rbuf' = chip[tx.cell] /\ Complete(TRUE)
     \/ rbuf' \in {rbuf, Bad} /\ Complete(FALSE)
  /\ UNCHANGED chipVars

ChipReady ==
  /\ cycling # {}
  /\ cycling' = {}
  /\ cycleAge' = 0
  /\ UNCHANGED <<chip, drvVars, rbuf>>

I2cInterrupt == WriteDone \/ WriteFails \/ AddrDone \/ ReadDone

(* One unit of TWC. A write cycle that was already running a unit ago is   *)
(* over by now.                                                            *)
CycleClock ==
  /\ cycling # {} => cycleAge = 0
  /\ cycleAge' = IF cycling # {} THEN 1 ELSE 0
  /\ waited' = IF s_op = "WRITE_CYCLE_WAIT" /\ waited < WriteCycle
                 THEN waited + 1 ELSE waited

TimePasses ==
  /\ CycleClock
  /\ UNCHANGED <<chip, cycling, bus, tx, rbuf, s_op, s_dma>>

-----------------------------------------------------------------------------
(* The driver under an arbitrary caller.                                   *)
DriverInit ==
  /\ chip \in [Cells -> Values \cup {Bad}]
  /\ cycling = {} /\ cycleAge = 0
  /\ tx \in [cell : Cells, val : Values]
  /\ rbuf = Bad
  /\ DriverReset

DriverNext ==
  \/ \E cell \in Cells, v \in Values : StartWritePage(cell, v)
  \/ \E cell \in Cells : StartRead(cell)
  \/ ReadComplete
  \/ Abort
  \/ Update
  \/ I2cInterrupt
  \/ ChipReady
  \/ TimePasses

DriverSpec == DriverInit /\ [][DriverNext]_eepromVars

(* What the driver reports is true. When it turns write_complete() true,   *)
(* the addressed page holds exactly what was sent and the chip has finished *)
(* committing it, so that it answers the next transfer and a power cut can *)
(* no longer tear it; when it turns read_complete() true, the caller's     *)
(* buffer holds the addressed page. Neither report rests on the completion *)
(* of another transfer, or of another phase of this one.                   *)
ReportsAreTrue ==
  [][/\ ~s_dma.wr /\ s_dma'.wr => chip[tx.cell] = tx.val /\ cycling = {}
     /\ ~s_dma.rd /\ s_dma'.rd => rbuf = chip[tx.cell]]_eepromVars

(* The driver is never left waiting for an interrupt that will not come:   *)
(* while it is busy, either a transfer is in flight, or the completion     *)
(* flag is up, or it is timing the write cycle. In particular a transfer   *)
(* the HAL refused (callback before start_* returns) is not lost.          *)
NoLostCompletion ==
  is_busy(s_op) => bus # "none" \/ s_dma.done \/ s_op = "WRITE_CYCLE_WAIT"
=============================================================================
