------------------------------- MODULE Power -------------------------------
(***************************************************************************)
(* When the instrument charges and when it switches itself off:            *)
(* svc_battery_update (Services/svc_battery.c), once a second, and         *)
(* svc_power_task (Services/svc_power.c), in every pass of the scheduler    *)
(* and after it.  Voltages are the classes that the code tells apart, time  *)
(* is in ticks of one pass.  The pack, the charger, the cable, the central  *)
(* and the user are external.                                              *)
(***************************************************************************)
EXTENDS Integers, FiniteSetsExt

CONSTANTS
  Levels,          (* of the pack, classes of s_vbat_mv as below           *)
  Glitches,        (* classes that a bad scan can show                     *)
  StaleScans,      (* an update may find the result of an earlier scan     *)
  BatteryPeriod,   (* task_battery_ms                                      *)
  MaxGap,          (* ticks between two passes                             *)
  Grace,           (* VBUS_DISCONNECT_GRACE_MS                             *)
  StartupMin, ChargeMin, StreakMin,  (* BATTERY_..._MIN(_SAMPLES)          *)
  ArmTime,         (* the 2000 ms of the warning                           *)
  FullTimeout,     (* charge_full_timeout_min, 0: never                    *)
  IdleLimit,       (* auto_poweroff_s, 0: never                            *)
  Commands         (* of the host and the menu                             *)

(* The first class at or above BATTERY_VBAT_IMPLAUSIBLE_MV, the critical   *)
(* voltage, the start of charging and 97 % of charge; 0 is a reading of 0. *)
Implausible == 2
CriticalMv == 3
StartMv == 4
FullMv == 5
Readings == 0 .. 5
Critical == Implausible .. CriticalMv - 1

ASSUME PowerAssumption ==
  /\ Levels \subseteq Readings /\ Glitches \subseteq Readings /\ StaleScans \in BOOLEAN
  /\ BatteryPeriod \in Nat \ {0} /\ MaxGap \in Nat \ {0} /\ Grace \in Nat
  /\ StartupMin \in Nat \ {0} /\ ChargeMin \in 1 .. StartupMin /\ StreakMin \in Nat \ {0}
  /\ ArmTime \in Nat /\ FullTimeout \in Nat /\ IdleLimit \in Nat
  /\ Commands \subseteq {"force", "cancel", "inhibit", "allow", "off"}

VARIABLES
  phase,           (* on, closing: in enter_low_power, asleep: in Standby   *)
  pc,              (* the task that is next in this pass                    *)
  vbus, level, ble,
  acted,           (* an encoder has turned or a switch has moved           *)
  s_usb_connected, absentFor,     (* since s_vbus_absent_since_ms, or Off   *)
  s_charging, s_charge_complete, s_charge_enabled, s_force_charge, s_charge_inhibited,
  fullFor,         (* since s_full_since_ms, or Off                         *)
  s_vbat_mv, samples, streak,
  armedFor,        (* since s_shutdown_start_ms, or Off                     *)
  idleFor,         (* since s_idle_since_ms                                 *)
  batteryFor,      (* since the last svc_battery_update                     *)
  (* what the properties compare with                                      *)
  why,             (* what switched the instrument off                      *)
  sinceVbus,       (* since an update saw VBUS                              *)
  criticalFor, criticalScans,  (* how long, in how many scans, the pack was critical *)
  quietFor,        (* since somebody used the instrument                    *)
  command          (* the last one about charging since the update          *)

world == <<vbus, level, ble, acted>>
charger == <<s_usb_connected, absentFor, s_charging, s_charge_complete,
             s_charge_enabled, fullFor>>
switches == <<s_force_charge, s_charge_inhibited>>
battery == <<s_vbat_mv, samples, streak, armedFor>>
seen == <<sinceVbus, criticalFor, criticalScans, quietFor>>
timers == <<idleFor, batteryFor>>
vars == <<phase, pc, world, charger, switches, battery, timers, why, seen, command>>

Off == -1
Timer(limit) == {Off} \cup 0 .. limit
Least(a, b) == IF a < b THEN a ELSE b
Older(timer, d, limit) == IF timer = Off THEN Off ELSE Least(timer + d, limit)

(* The counts stop where no comparison tells them apart any more.          *)
MaxSince == Grace + IdleLimit
Warned == ArmTime + (StreakMin - 1) * BatteryPeriod

(* Every value is in its range.                                            *)
TypeOK ==
  /\ phase \in {"on", "closing", "asleep"} /\ pc \in {"world", "battery", "power"}
  /\ vbus \in BOOLEAN /\ level \in Levels /\ ble \in BOOLEAN /\ acted \in BOOLEAN
  /\ s_usb_connected \in BOOLEAN /\ absentFor \in Timer(Grace)
  /\ {s_charging, s_charge_complete, s_charge_enabled, s_force_charge,
      s_charge_inhibited} \subseteq BOOLEAN
  /\ fullFor \in Timer(FullTimeout) /\ (fullFor # Off => s_charge_enabled)
  /\ s_vbat_mv \in Readings /\ samples \in 0 .. StartupMin
  /\ streak \in 0 .. StreakMin /\ armedFor \in Timer(ArmTime)
  /\ (streak > 0 => samples = StartupMin /\ ~s_usb_connected)
  /\ idleFor \in 0 .. IdleLimit /\ batteryFor \in 0 .. BatteryPeriod
  /\ why \in {"nothing", "battery", "idle", "user"}
  /\ sinceVbus \in 0 .. MaxSince /\ criticalFor \in Timer(Warned)
  /\ criticalScans \in 0 .. StreakMin /\ quietFor \in 0 .. IdleLimit
  /\ command \in {"nothing", "force", "cancel"}

(* After a reset: svc_battery_init, svc_power_init, app_scheduler_init.    *)
Init ==
  /\ phase = "on" /\ pc = "world"
  /\ vbus \in BOOLEAN /\ level \in Levels /\ ble = FALSE /\ acted = FALSE
  /\ s_usb_connected = FALSE /\ absentFor = Off
  /\ s_charging = FALSE /\ s_charge_complete = FALSE /\ s_charge_enabled = FALSE
  /\ s_force_charge = FALSE /\ s_charge_inhibited = FALSE /\ fullFor = Off
  /\ s_vbat_mv = 0 /\ samples = 0 /\ streak = 0 /\ armedFor = Off
  /\ idleFor = 0 /\ batteryFor = 0
  /\ why = "nothing" /\ sinceVbus = MaxSince /\ criticalFor = Off /\ criticalScans = 0
  /\ quietFor = 0 /\ command = "nothing"

(* svc_battery_enter_low_power, called by x; everything stays as it is      *)
(* while a write or a flush finishes.                                      *)
EnterLowPower(x) == phase' = "closing" /\ why' = x /\ pc' = "world"

-----------------------------------------------------------------------------
(* svc_battery_update                                                      *)

(* s_vbus_absent_pending is absentFor # Off.  The TP4056 is powered by     *)
(* VBUS, and its outputs are off while it is not enabled.                  *)
AgesFrom_everyUpdate == 0

AgesFrom == absentFor

ReadChargerInputs ==
  /\ \/ vbus /\ s_usb_connected' = TRUE /\ absentFor' = Off
     \/ ~vbus /\ absentFor = Off /\ absentFor' = 0 /\ UNCHANGED s_usb_connected
     \/ ~vbus /\ absentFor # Off /\ absentFor' = AgesFrom
        /\ s_usb_connected' = (s_usb_connected /\ absentFor < Grace)
  /\ \E chrg, standby \in BOOLEAN :
       /\ ~(chrg /\ standby) /\ (chrg \/ standby => s_charge_enabled)
       /\ s_charging' = (vbus /\ chrg) /\ s_charge_complete' = (vbus /\ standby)

(* After the first scan there is always a valid result, of the last scan.  *)
Scans == {level} \cup Glitches

ReadBatteryVoltage(scanned) ==
  \/ scanned /\ s_vbat_mv' \in Scans /\ samples' = Least(samples + 1, StartupMin)
  \/ ~scanned /\ samples > 0 /\ UNCHANGED s_vbat_mv /\ samples' = Least(samples + 1, StartupMin)
  \/ ~scanned /\ samples = 0 /\ UNCHANGED <<s_vbat_mv, samples>>

Stop == s_charge_inhibited \/ ~s_usb_connected' \/ s_charge_complete'

Wanted ==
  /\ ~Stop
  /\ \/ s_charge_enabled \/ s_force_charge
     \/ samples' >= ChargeMin /\ s_vbat_mv' > 0 /\ s_vbat_mv' < StartMv

AtFull == FullTimeout # 0 /\ Wanted /\ s_vbat_mv' >= FullMv /\ samples' >= ChargeMin
FullLongEnough == AtFull /\ fullFor # Off /\ fullFor >= FullTimeout

FullSince_everyUpdate == IF ~AtFull \/ FullLongEnough THEN Off ELSE 0

FullSince ==
  CASE ~AtFull \/ FullLongEnough -> Off
    [] AtFull /\ ~FullLongEnough /\ fullFor = Off -> 0
    [] OTHER -> fullFor

UpdateChargeEnable ==
  /\ s_charge_enabled' = (Wanted /\ ~FullLongEnough)
  /\ s_force_charge' = (s_force_charge /\ ~Stop /\ ~FullLongEnough)
  /\ fullFor' = FullSince

(* classify_battery_state says BATTERY_CRITICAL, and it is not a fault.    *)
RealCritical == samples' = StartupMin /\ ~s_usb_connected' /\ s_vbat_mv' \in Critical

CountCritical_total == streak' = IF RealCritical THEN Least(streak + 1, StreakMin) ELSE streak

CountCritical == streak' = IF RealCritical THEN Least(streak + 1, StreakMin) ELSE 0

ArmedSince_everyUpdate == IF streak' < StreakMin \/ s_usb_connected' THEN Off ELSE 0

ArmedSince ==
  IF streak' < StreakMin \/ s_usb_connected' THEN Off
  ELSE IF armedFor = Off THEN 0 ELSE armedFor

UpdateShutdownArm ==
  /\ CountCritical
  /\ armedFor' = ArmedSince
  /\ IF armedFor' # Off /\ armedFor' >= ArmTime
     THEN EnterLowPower("battery")
     ELSE pc' = "power" /\ UNCHANGED <<phase, why>>

Compare(scanned) ==
  /\ sinceVbus' = IF vbus THEN 0 ELSE sinceVbus
  /\ criticalFor' = IF s_vbat_mv' \notin Critical THEN Off
                    ELSE IF criticalFor = Off THEN 0 ELSE criticalFor
  /\ criticalScans' = IF s_vbat_mv' \notin Critical THEN 0
                      ELSE IF scanned THEN Least(criticalScans + 1, StreakMin) ELSE criticalScans
  /\ quietFor' = IF vbus THEN 0 ELSE quietFor
  /\ command' = "nothing"

BatteryTask ==
  /\ pc = "battery"
  /\ ReadChargerInputs
  /\ \E scanned \in {TRUE} \cup (IF StaleScans THEN {FALSE} ELSE {}) :
       ReadBatteryVoltage(scanned) /\ UpdateChargeEnable /\ UpdateShutdownArm
       /\ Compare(scanned)
  /\ batteryFor' = 0
  /\ UNCHANGED <<world, idleFor, s_charge_inhibited>>

-----------------------------------------------------------------------------
(* svc_power_task.  g_system_state has the usb_connected and the           *)
(* battery_charging of the last update, as s_ has.                         *)

Suppressed == s_usb_connected \/ ble \/ s_charging

Restarts_onlyActivity == acted

Restarts == acted \/ Suppressed

PowerTask ==
  /\ pc = "power"
  /\ acted' = FALSE
  /\ idleFor' = IF Restarts THEN 0 ELSE idleFor
  /\ IF ~acted /\ ~Suppressed /\ IdleLimit # 0 /\ idleFor >= IdleLimit
     THEN EnterLowPower("idle")
     ELSE pc' = "world" /\ UNCHANGED <<phase, why>>
  /\ UNCHANGED <<vbus, level, ble, charger, switches, battery, batteryFor, seen, command>>

-----------------------------------------------------------------------------
(* What comes between two passes: the commands, and the world.             *)

Running == phase = "on" /\ pc = "world"

ForceCharge ==
  /\ Running /\ "force" \in Commands
  /\ s_force_charge' = TRUE /\ command' = "force"
  /\ UNCHANGED <<phase, pc, world, charger, s_charge_inhibited, battery, timers, why, seen>>

CancelForceCharge ==
  /\ Running /\ "cancel" \in Commands /\ s_force_charge
  /\ s_force_charge' = FALSE /\ command' = "cancel"
  /\ UNCHANGED <<phase, pc, world, charger, s_charge_inhibited, battery, timers, why, seen>>

SetChargeInhibit ==
  /\ Running
  /\ \/ ~s_charge_inhibited /\ "inhibit" \in Commands /\ s_charge_inhibited' = TRUE
     \/ s_charge_inhibited /\ "allow" \in Commands /\ s_charge_inhibited' = FALSE
  /\ UNCHANGED <<phase, pc, world, charger, s_force_charge, battery, timers, why, seen, command>>

ShutdownNow ==
  /\ Running /\ "off" \in Commands /\ EnterLowPower("user")
  /\ UNCHANGED <<world, charger, switches, battery, timers, seen, command>>

(* Time passes until the next pass, in which the battery is due or not.    *)
Tick(d) ==
  /\ Running
  /\ batteryFor' = Least(batteryFor + d, BatteryPeriod)
  /\ pc' = IF batteryFor' = BatteryPeriod THEN "battery" ELSE "power"
  /\ absentFor' = Older(absentFor, d, Grace)
  /\ fullFor' = Older(fullFor, d, FullTimeout)
  /\ armedFor' = Older(armedFor, d, ArmTime)
  /\ idleFor' = Least(idleFor + d, IdleLimit)
  /\ sinceVbus' = Least(sinceVbus + d, MaxSince)
  /\ criticalFor' = Older(criticalFor, d, Warned)
  /\ quietFor' = IF ble THEN 0 ELSE Least(quietFor + d, IdleLimit)
  /\ UNCHANGED <<phase, world, s_usb_connected, s_charging, s_charge_complete,
                 s_charge_enabled, switches, s_vbat_mv, samples, streak, why,
                 criticalScans, command>>

(* A write or a flush has finished, or 250 ms have passed; Standby loses   *)
(* RAM.  hal_power_enter_standby clears the flag of a wake pin that has    *)
(* risen before, and a pin that stays high does not wake.                  *)
EnterStandby ==
  /\ phase = "closing" /\ phase' = "asleep" /\ pc' = "world"
  /\ UNCHANGED <<vbus, level>> /\ ble' = FALSE /\ acted' = FALSE
  /\ s_usb_connected' = FALSE /\ absentFor' = Off
  /\ s_charging' = FALSE /\ s_charge_complete' = FALSE /\ s_charge_enabled' = FALSE
  /\ s_force_charge' = FALSE /\ s_charge_inhibited' = FALSE /\ fullFor' = Off
  /\ s_vbat_mv' = 0 /\ samples' = 0 /\ streak' = 0 /\ armedFor' = Off
  /\ idleFor' = 0 /\ batteryFor' = 0
  /\ why' = "nothing" /\ sinceVbus' = MaxSince /\ criticalFor' = Off /\ criticalScans' = 0
  /\ quietFor' = 0 /\ command' = "nothing"

(* ENC_1SW or ENC_2SW.                                                     *)
Wake ==
  /\ phase = "asleep" /\ phase' = "on"
  /\ UNCHANGED <<pc, world, charger, switches, battery, timers, why, seen, command>>

(* A VBUS that rises wakes.                                                *)
VbusChanges ==
  /\ pc = "world" /\ vbus' = ~vbus
  /\ phase' = IF phase = "asleep" /\ ~vbus THEN "on" ELSE phase
  /\ UNCHANGED <<pc, level, ble, acted, charger, switches, battery, timers, why, seen, command>>

(* To a neighbouring class.                                                *)
LevelChanges ==
  /\ pc = "world" /\ level' \in Levels \ {level}
  /\ \A m \in Levels : m \notin Least(level, level') + 1 .. level + level' - Least(level, level') - 1
  /\ UNCHANGED <<phase, pc, vbus, ble, acted, charger, switches, battery, timers, why, seen, command>>

CentralChanges ==
  /\ Running /\ ble' = ~ble
  /\ UNCHANGED <<phase, pc, vbus, level, acted, charger, switches, battery, timers, why, seen, command>>

UserActs ==
  /\ Running /\ acted' = TRUE /\ quietFor' = 0
  /\ UNCHANGED <<phase, pc, vbus, level, ble, charger, switches, battery, timers, why,
                 sinceVbus, criticalFor, criticalScans, command>>

Next ==
  \/ BatteryTask \/ PowerTask
  \/ ForceCharge \/ CancelForceCharge \/ SetChargeInhibit \/ ShutdownNow
  \/ \E d \in 1 .. MaxGap : Tick(d)
  \/ EnterStandby \/ Wake
  \/ VbusChanges \/ LevelChanges \/ CentralChanges \/ UserActs

Spec == Init /\ [][Next]_vars

(* The scheduler goes on, and a wait is bounded.  Nothing of the world is  *)
(* fair.                                                                   *)
Fairness ==
  /\ WF_vars(BatteryTask) /\ WF_vars(PowerTask) /\ WF_vars(\E d \in 1 .. MaxGap : Tick(d))
  /\ WF_vars(EnterStandby)
FairSpec == Spec /\ Fairness

-----------------------------------------------------------------------------
(* The battery switches the instrument off only if no update has seen VBUS *)
(* for the whole grace, and the pack has been critical, and no bad reading, *)
(* in every update of the streak and of the warning (update_shutdown_arm). *)
ShutdownIsEarned ==
  phase = "closing" /\ why = "battery" => sinceVbus >= Grace /\ criticalFor >= Warned

(* Idleness switches it off only if nobody has used it for the limit, and  *)
(* no update has seen VBUS since the limit and the grace before            *)
(* (svc_power_task, read_charger_inputs).                                  *)
IdleOffIsQuiet ==
  phase = "closing" /\ why = "idle" =>
    quietFor >= IdleLimit /\ sinceVbus >= Grace + IdleLimit

(* It does not stay on for ever with a critical pack and without VBUS.     *)
DeadPackSleeps ==
  []<>~(phase = "on" /\ ~vbus /\ samples > 0 /\ s_vbat_mv \in Critical)

(* It does not stay on for ever on battery if nobody uses it.              *)
QuietSleeps ==
  []<>~(phase = "on" /\ ~vbus /\ ~ble /\ ~acted /\ IdleLimit # 0)

(* A full pack is not charged for ever (charge_full_timeout_min).          *)
FullIsLeftAlone ==
  []<>~(phase = "on" /\ s_charge_enabled /\ s_vbat_mv >= FullMv /\ FullTimeout # 0)

-----------------------------------------------------------------------------
(* What does not hold.                                                     *)

(* Services/svc_battery.h:31: after a cancel the next update re-evaluates   *)
(* the policy from scratch.  It does not look at a charge that goes on.    *)
CancelIsFromScratch ==
  [][command = "cancel" /\ pc = "battery" /\ s_charge_enabled' => s_vbat_mv' < StartMv]_vars

(* Services/svc_power.h:11: auto power-off is suppressed while USB is       *)
(* connected.  Before the first update the cable is not known.             *)
NoIdleOffOnUsb == phase = "closing" /\ why = "idle" => ~vbus

(* The instrument sleeps on USB only if the user has switched it off.      *)
AwakeOnUsb == phase = "asleep" => ~vbus

(* Services/svc_battery.c:83: critical in several scans.                   *)
StreakIsOfScans == phase = "closing" /\ why = "battery" => criticalScans >= StreakMin
=============================================================================
