--------------------------- MODULE SettingsStore ---------------------------
(***************************************************************************)
(* What the settings storage promises, without the chip, the bus or the    *)
(* retries: a store of pages that are each one indivisible value or Lost.  *)
(* Only the page a save is working on, or a lost page during boot, can     *)
(* change; it can only become the value being written, or be lost; and a   *)
(* save leaves a page behind only when a power cut can no longer touch it. *)
(***************************************************************************)
EXTENDS Naturals

CONSTANTS NumSections, Values, Default, Lost

Sections == 1 .. NumSections

VARIABLES
  store,      (* [Sections -> Values \cup {Lost}]: survives power cuts     *)
  ram,        (* g_device_settings                                         *)
  up,         (* the scheduler is running                                  *)
  saving,     (* a save is in progress                                     *)
  page,       (* the page it works on                                      *)
  cand,       (* the value being written to that page                      *)
  unsettled   (* the pages a power cut could cost at this moment           *)

storeVars == <<store, ram, up, saving, page, cand, unsettled>>

Init ==
  /\ store \in [Sections -> Values \cup {Lost}]
  /\ ram \in [Sections -> Values]
  /\ ~up /\ ~saving
  /\ page = 1
  /\ cand \in Values
  /\ unsettled = {}

Replace(s, v) ==
  /\ store' = [store EXCEPT ![s] = v]
  /\ unsettled' \subseteq unsettled \cup {s}

(* While the device boots, RAM is filled page by page and a lost page may  *)
(* be rewritten with the default; no other page is touched.                *)
Boot ==
  /\ ~up
  /\ ram' \in [Sections -> Values]
  /\ \/ UNCHANGED <<store, unsettled>>
     \/ \E s \in Sections, v \in {Default, Lost} :
          store[s] \in {Default, Lost} /\ Replace(s, v)
  /\ up' \in BOOLEAN
  /\ UNCHANGED <<saving, page, cand>>

(* A setting changes in RAM; a save already running goes on.               *)
Change ==
  /\ up
  /\ ram' \in [Sections -> Values]
  /\ UNCHANGED <<store, up, saving, page, cand, unsettled>>

(* Settings change in RAM and a save of all pages starts with the first.   *)
ChangeAndSave ==
  /\ up /\ ~saving
  /\ ram' \in [Sections -> Values]
  /\ saving' = TRUE /\ page' = 1 /\ cand' = ram'[1]
  /\ UNCHANGED <<store, up, unsettled>>

(* The page in progress is replaced, or is in between.                     *)
Write ==
  /\ up /\ saving
  /\ \E v \in {store[page], cand, Lost} : Replace(page, v)
  /\ UNCHANGED <<ram, up, saving, page, cand>>

(* What was being written is now out of a power cut's reach.               *)
Settle ==
  /\ up
  /\ unsettled' \subseteq unsettled
  /\ UNCHANGED <<store, ram, up, saving, page, cand>>

(* A page is left behind only when it holds its value for good; the save   *)
(* takes the next page, with the value RAM has at that moment, or is over. *)
Advance ==
  /\ up /\ saving
  /\ store[page] = cand /\ unsettled = {}
  /\ IF page < NumSections
       THEN page' = page + 1 /\ cand' = ram[page + 1] /\ UNCHANGED saving
       ELSE saving' = FALSE /\ UNCHANGED <<page, cand>>
  /\ UNCHANGED <<store, ram, up, unsettled>>

(* The save gives up; its page may still be on its way.                    *)
Abandon ==
  /\ up /\ saving
  /\ saving' = FALSE
  /\ \E v \in {store[page], cand, Lost} : Replace(page, v)
  /\ UNCHANGED <<ram, up, page, cand>>

(* Power is lost or the MCU resets.                                        *)
PowerCut ==
  /\ up' = FALSE /\ saving' = FALSE /\ page' = 1
  /\ \/ UNCHANGED store
     \/ \E s \in unsettled : store' = [store EXCEPT ![s] = Lost]
  /\ unsettled' = {}
  /\ ram' \in [Sections -> Values]
  /\ cand' \in Values

Next ==
  \/ Boot \/ Change \/ ChangeAndSave \/ Write \/ Settle \/ Advance \/ Abandon
  \/ PowerCut

Spec == Init /\ [][Next]_storeVars
=============================================================================
