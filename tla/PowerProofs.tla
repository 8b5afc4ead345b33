---------------------------- MODULE PowerProofs ----------------------------
(***************************************************************************)
(* The battery switches the instrument off only after its full warning,    *)
(* for every period, grace, streak and warning: svc_battery_update's four  *)
(* clocks (of VBUS, of the streak, of the update, of the warning) are each  *)
(* compared with how long the world has really been so.                    *)
(***************************************************************************)
EXTENDS Power, TLAPS

Ranges ==
  /\ absentFor \in Timer(Grace) /\ armedFor \in Timer(ArmTime)
  /\ criticalFor \in Timer(Warned)
  /\ streak \in 0 .. StreakMin /\ batteryFor \in 0 .. BatteryPeriod
  /\ sinceVbus \in 0 .. MaxSince /\ s_usb_connected \in BOOLEAN

(* The grace of VBUS never runs ahead of the time since VBUS was seen.     *)
GraceIsReal ==
  /\ ~s_usb_connected => sinceVbus >= Grace
  /\ absentFor # Off => absentFor <= sinceVbus

(* The pack has been critical for the updates of a streak of s, and for t  *)
(* since, or for as long as anybody asks.                                  *)
CriticalSince(s, t) ==
  /\ criticalFor # Off
  /\ criticalFor >= Warned \/ criticalFor >= (s - 1) * BatteryPeriod + t

StreakIsReal ==
  streak > 0 => ~s_usb_connected /\ s_vbat_mv \in Critical /\ CriticalSince(streak, batteryFor)

WarningIsReal ==
  armedFor # Off => streak = StreakMin /\ CriticalSince(StreakMin, armedFor)

TasksInTurn ==
  /\ pc # "world" => phase = "on"
  /\ pc = "battery" => batteryFor = BatteryPeriod

IInv ==
  Ranges /\ GraceIsReal /\ StreakIsReal /\ WarningIsReal /\ TasksInTurn /\ ShutdownIsEarned
-----------------------------------------------------------------------------
(* Warned is the warning after all periods of the streak.                  *)
LEMMA ConstantsAre ==
  /\ Grace \in Nat /\ IdleLimit \in Nat /\ ArmTime \in Nat /\ StreakMin \in Nat /\ StreakMin > 0
  /\ BatteryPeriod \in Nat /\ BatteryPeriod > 0
  /\ (StreakMin - 1) * BatteryPeriod \in Nat
  /\ Warned \in Nat /\ Warned = ArmTime + (StreakMin - 1) * BatteryPeriod
  /\ MaxSince \in Nat /\ MaxSince = Grace + IdleLimit
<1>1. /\ Grace \in Nat /\ IdleLimit \in Nat /\ ArmTime \in Nat /\ StreakMin \in Nat /\ StreakMin > 0
      /\ BatteryPeriod \in Nat /\ BatteryPeriod > 0
  BY PowerAssumption
<1>2. \A n \in Nat : n * BatteryPeriod \in Nat
  BY <1>1
<1>3. StreakMin - 1 \in Nat
  BY <1>1
<1>4. (StreakMin - 1) * BatteryPeriod \in Nat
  BY <1>2, <1>3
<1> QED BY <1>1, <1>4 DEF Warned, MaxSince

(* One more update is one more period.                                     *)
LEMMA OneMorePeriod ==
  ASSUME NEW s \in Int, NEW n \in Int, n = s + 1
  PROVE  /\ (n - 1) * BatteryPeriod = (s - 1) * BatteryPeriod + BatteryPeriod
         /\ (s - 1) * BatteryPeriod \in Int
<1> DEFINE b == BatteryPeriod
<1>1. b \in Int BY ConstantsAre
<1> HIDE DEF b
<1>2. (n - 1) * b = (s - 1) * b + b /\ (s - 1) * b \in Int
  BY <1>1
<1> QED BY <1>2 DEF b

(* The warning is over when it is.                                         *)
LEMMA WarningIsOver ==
  ASSUME NEW c \in Nat, NEW r \in Nat, r >= ArmTime,
         c >= Warned \/ c >= (StreakMin - 1) * BatteryPeriod + r
  PROVE  c >= Warned
<1> DEFINE p == (StreakMin - 1) * BatteryPeriod
<1>1. p \in Nat /\ Warned = ArmTime + p /\ ArmTime \in Nat
  BY ConstantsAre
<1>2. c >= Warned \/ c >= p + r
  OBVIOUS
<1> HIDE DEF p
<1> QED BY <1>1, <1>2

LEMMA InitInv == ASSUME Init PROVE IInv
<1>0. /\ absentFor = Off /\ armedFor = Off /\ criticalFor = Off /\ streak = 0
      /\ batteryFor = 0 /\ sinceVbus = MaxSince /\ s_usb_connected = FALSE
  BY DEF Init
<1>1. Ranges /\ GraceIsReal
  <2>1. MaxSince \in 0 .. MaxSince /\ MaxSince >= Grace /\ 0 \in 0 .. StreakMin
        /\ 0 \in 0 .. BatteryPeriod
    BY ConstantsAre
  <2>2. s_usb_connected \in BOOLEAN BY <1>0
  <2> QED BY <1>0, <2>1, <2>2 DEF Ranges, GraceIsReal, Timer
<1>2. StreakIsReal /\ WarningIsReal /\ TasksInTurn /\ ShutdownIsEarned
  BY DEF Init, StreakIsReal, WarningIsReal, TasksInTurn, ShutdownIsEarned
<1> QED BY <1>1, <1>2 DEF IInv

(* After Standby everything is as after a reset.                           *)
LEMMA StandbyInv == ASSUME EnterStandby PROVE IInv'
<1>0. /\ absentFor' = Off /\ armedFor' = Off /\ criticalFor' = Off /\ streak' = 0
      /\ batteryFor' = 0 /\ sinceVbus' = MaxSince /\ s_usb_connected' = FALSE
  BY DEF EnterStandby
<1>1. Ranges' /\ GraceIsReal'
  <2>1. MaxSince \in 0 .. MaxSince /\ MaxSince >= Grace /\ 0 \in 0 .. StreakMin
        /\ 0 \in 0 .. BatteryPeriod
    BY ConstantsAre
  <2>2. s_usb_connected' \in BOOLEAN BY <1>0
  <2> QED BY <1>0, <2>1, <2>2 DEF Ranges, GraceIsReal, Timer
<1>2. StreakIsReal' /\ WarningIsReal' /\ TasksInTurn' /\ ShutdownIsEarned'
  BY DEF EnterStandby, StreakIsReal, WarningIsReal, TasksInTurn, ShutdownIsEarned
<1> QED BY <1>1, <1>2 DEF IInv

(* All clocks advance together.                                            *)
LEMMA TickInv == ASSUME IInv, NEW d \in 1 .. MaxGap, Tick(d) PROVE IInv'
<1>0. d \in Nat /\ d > 0
  BY PowerAssumption
<1>1. /\ batteryFor' = Least(batteryFor + d, BatteryPeriod)
      /\ absentFor' = Older(absentFor, d, Grace)
      /\ armedFor' = Older(armedFor, d, ArmTime)
      /\ criticalFor' = Older(criticalFor, d, Warned)
      /\ sinceVbus' = Least(sinceVbus + d, MaxSince)
      /\ UNCHANGED <<phase, s_usb_connected, s_vbat_mv, streak, why>>
      /\ phase = "on"
      /\ pc' = IF batteryFor' = BatteryPeriod THEN "battery" ELSE "power"
  BY DEF Tick, Running
<1>2. Ranges'
  BY <1>0, <1>1, ConstantsAre DEF IInv, Ranges, Timer, Off, Older, Least
<1>3. GraceIsReal'
  BY <1>0, <1>1, ConstantsAre DEF IInv, Ranges, GraceIsReal, Timer, Off, Older, Least
<1>4. \A s \in Nat, t \in Nat, t2 \in Nat :
        CriticalSince(s, t) /\ t2 <= t + d => CriticalSince(s, t2)'
  <2> SUFFICES ASSUME NEW s \in Nat, NEW t \in Nat, NEW t2 \in Nat,
                      CriticalSince(s, t), t2 <= t + d
               PROVE  CriticalSince(s, t2)'
    OBVIOUS
  <2>1. (s - 1) * BatteryPeriod \in Int
    <3>1. s \in Int /\ s + 1 \in Int OBVIOUS
    <3> QED BY <3>1, OneMorePeriod
  <2> QED BY <1>0, <1>1, <2>1, ConstantsAre
          DEF CriticalSince, IInv, Ranges, Timer, Off, Older, Least
<1>5. StreakIsReal'
  <2>1. batteryFor \in Nat /\ batteryFor' \in Nat /\ batteryFor' <= batteryFor + d /\ streak \in Nat
    BY <1>0, <1>1, <1>2, ConstantsAre DEF IInv, Ranges, Least
  <2> QED BY <1>1, <1>4, <2>1 DEF IInv, StreakIsReal
<1>6. WarningIsReal'
  <2> SUFFICES ASSUME armedFor' # Off PROVE (streak = StreakMin /\ CriticalSince(StreakMin, armedFor))'
    BY DEF WarningIsReal
  <2>1. /\ armedFor \in Nat /\ armedFor' \in Nat /\ armedFor' <= armedFor + d /\ armedFor # Off
        /\ StreakMin \in Nat
    BY <1>0, <1>1, ConstantsAre DEF IInv, Ranges, Timer, Off, Older, Least
  <2> QED BY <1>1, <1>4, <2>1 DEF IInv, WarningIsReal
<1>7. TasksInTurn' /\ ShutdownIsEarned'
  BY <1>1 DEF TasksInTurn, ShutdownIsEarned
<1> QED BY <1>2, <1>3, <1>5, <1>6, <1>7 DEF IInv

(* svc_battery_update: the streak has one update more, and so one period.  *)
LEMMA BatteryInv == ASSUME IInv, BatteryTask PROVE IInv'
<1>1. /\ phase = "on" /\ batteryFor = BatteryPeriod /\ batteryFor' = 0
      /\ ReadChargerInputs /\ CountCritical /\ armedFor' = ArmedSince
      /\ IF armedFor' # Off /\ armedFor' >= ArmTime
         THEN EnterLowPower("battery")
         ELSE pc' = "power" /\ UNCHANGED <<phase, why>>
      /\ sinceVbus' = IF vbus THEN 0 ELSE sinceVbus
      /\ criticalFor' = IF s_vbat_mv' \notin Critical THEN Off
                        ELSE IF criticalFor = Off THEN 0 ELSE criticalFor
  BY DEF BatteryTask, IInv, TasksInTurn, UpdateShutdownArm, Compare
<1>2. /\ streak \in 0 .. StreakMin /\ sinceVbus \in 0 .. MaxSince
      /\ criticalFor \in Timer(Warned) /\ absentFor \in Timer(Grace) /\ armedFor \in Timer(ArmTime)
  BY DEF IInv, Ranges
<1>3. GraceIsReal' /\ absentFor' \in Timer(Grace) /\ s_usb_connected' \in BOOLEAN
  <2>1. CASE vbus /\ s_usb_connected' = TRUE /\ absentFor' = Off
    BY <1>2, <2>1, ConstantsAre DEF GraceIsReal, Timer, Off
  <2>2. CASE ~vbus /\ absentFor = Off /\ absentFor' = 0 /\ UNCHANGED s_usb_connected
    <3>1. s_usb_connected \in BOOLEAN /\ GraceIsReal BY DEF IInv, Ranges
    <3>2. sinceVbus' = sinceVbus /\ sinceVbus >= 0 BY <1>1, <1>2, <2>2
    <3> QED BY <2>2, <3>1, <3>2, ConstantsAre DEF GraceIsReal, Timer, Off
  <2>3. CASE ~vbus /\ absentFor # Off /\ absentFor' = AgesFrom
             /\ s_usb_connected' = (s_usb_connected /\ absentFor < Grace)
    <3>1. s_usb_connected \in BOOLEAN /\ GraceIsReal BY DEF IInv, Ranges
    <3>2. absentFor' = absentFor /\ sinceVbus' = sinceVbus BY <1>1, <2>3 DEF AgesFrom
    <3>3. s_usb_connected' \in BOOLEAN BY <2>3
    <3>4. ~s_usb_connected' => ~s_usb_connected \/ ~(absentFor < Grace) BY <2>3
    <3>5. absentFor \in Nat BY <1>2, <2>3, ConstantsAre DEF Timer, Off
    <3>6. ~(absentFor < Grace) => sinceVbus >= Grace
      BY <1>2, <2>3, <3>1, <3>5, ConstantsAre DEF GraceIsReal
    <3> QED BY <1>2, <2>3, <3>1, <3>2, <3>3, <3>4, <3>6 DEF GraceIsReal
  <2> QED BY <1>1, <2>1, <2>2, <2>3 DEF ReadChargerInputs
<1>4. /\ streak' = IF RealCritical THEN Least(streak + 1, StreakMin) ELSE 0
      /\ RealCritical => ~s_usb_connected' /\ s_vbat_mv' \in Critical
  BY <1>1 DEF CountCritical, RealCritical
<1>5. streak' \in 0 .. StreakMin /\ streak' <= streak + 1 /\ (streak' > 0 => RealCritical)
  BY <1>2, <1>4, ConstantsAre DEF Least
<1>6. criticalFor' \in Timer(Warned) /\ (RealCritical => criticalFor' \in Nat)
  BY <1>1, <1>2, <1>4, ConstantsAre DEF Timer, Off
<1>7. Ranges'
  <2>1. armedFor' \in Timer(ArmTime)
    BY <1>1, <1>2, ConstantsAre DEF ArmedSince, Timer, Off
  <2>2. sinceVbus' \in 0 .. MaxSince /\ batteryFor' \in 0 .. BatteryPeriod
    BY <1>1, <1>2, ConstantsAre
  <2> QED BY <1>3, <1>5, <1>6, <2>1, <2>2 DEF Ranges
<1>8. RealCritical => CriticalSince(streak, 0)'
  <2> SUFFICES ASSUME RealCritical PROVE CriticalSince(streak, 0)'
    OBVIOUS
  <2>1. CASE streak = 0
    <3>1. streak' = 1 BY <1>4, <2>1, ConstantsAre DEF Least
    <3>2. (1 - 1) * BatteryPeriod + 0 = 0 BY ConstantsAre
    <3> QED BY <1>6, <3>1, <3>2, ConstantsAre DEF CriticalSince, Off
  <2>2. CASE streak > 0
    <3>1. CriticalSince(streak, BatteryPeriod)
      BY <1>1, <2>2 DEF IInv, StreakIsReal
    <3>2. criticalFor' = criticalFor BY <1>1, <1>4, <3>1 DEF CriticalSince
    <3>3. (streak - 1) * BatteryPeriod \in Int
      <4>1. streak \in Int /\ streak + 1 \in Int BY <1>2, ConstantsAre
      <4> QED BY <4>1, OneMorePeriod
    <3>4. streak' = streak + 1 \/ streak' = streak
      BY <1>2, <1>4, <1>5, ConstantsAre DEF Least
    <3>5. criticalFor \in Nat BY <1>2, <3>1, ConstantsAre DEF Timer, Off, CriticalSince
    <3>6. CASE streak' = streak + 1
      <4>1. (streak' - 1) * BatteryPeriod = (streak - 1) * BatteryPeriod + BatteryPeriod
        BY <1>2, <1>5, <3>6, OneMorePeriod
      <4>2. (streak' - 1) * BatteryPeriod \in Int
        BY <3>3, <4>1, ConstantsAre
      <4>3. /\ criticalFor' # Off
            /\ \/ criticalFor' >= Warned
               \/ criticalFor' >= (streak' - 1) * BatteryPeriod
        BY <3>1, <3>2, <4>1 DEF CriticalSince
      <4> DEFINE p == (streak' - 1) * BatteryPeriod
      <4>4. p + 0 = p
        <5>1. p \in Int BY <4>2
        <5> HIDE DEF p
        <5> QED BY <5>1
      <4> QED BY <4>3, <4>4 DEF CriticalSince
    <3>7. CASE streak' = streak
      BY <3>1, <3>2, <3>3, <3>5, <3>7, ConstantsAre DEF CriticalSince
    <3> QED BY <3>4, <3>6, <3>7
  <2> QED BY <1>2, <2>1, <2>2, ConstantsAre
<1>9. StreakIsReal'
  BY <1>1, <1>4, <1>5, <1>8 DEF StreakIsReal
<1>10. WarningIsReal'
  <2> SUFFICES ASSUME armedFor' # Off
               PROVE  (streak = StreakMin /\ CriticalSince(StreakMin, armedFor))'
    BY DEF WarningIsReal
  <2>1. streak' = StreakMin /\ armedFor' = IF armedFor = Off THEN 0 ELSE armedFor
    BY <1>1, <1>5, ConstantsAre DEF ArmedSince
  <2>2. RealCritical /\ CriticalSince(StreakMin, 0)'
    BY <1>5, <1>8, <2>1, ConstantsAre
  <2>3. CASE armedFor = Off
    BY <2>1, <2>2, <2>3 DEF CriticalSince
  <2>4. CASE armedFor # Off
    <3>1. CriticalSince(StreakMin, armedFor) BY <2>4 DEF IInv, WarningIsReal
    <3>2. criticalFor' = criticalFor /\ armedFor' = armedFor
      BY <1>1, <1>4, <2>1, <2>2, <2>4, <3>1 DEF CriticalSince
    <3> QED BY <2>1, <3>1, <3>2 DEF CriticalSince
  <2> QED BY <2>3, <2>4
<1>11. TasksInTurn'
  BY <1>1 DEF TasksInTurn, EnterLowPower
<1>12. ShutdownIsEarned'
  <2> SUFFICES ASSUME phase' = "closing", why' = "battery"
               PROVE  sinceVbus' >= Grace /\ criticalFor' >= Warned
    BY DEF ShutdownIsEarned
  <2>1. armedFor' # Off /\ armedFor' >= ArmTime
    BY <1>1
  <2>2. ~s_usb_connected'
    BY <1>1, <2>1 DEF ArmedSince
  <2>3. CriticalSince(StreakMin, armedFor)' /\ armedFor' \in Nat
    BY <1>7, <1>10, <2>1, ConstantsAre DEF WarningIsReal, Ranges, Timer, Off
  <2>4. criticalFor' \in Nat
    BY <1>6, <2>3, ConstantsAre DEF CriticalSince, Timer, Off
  <2>5. criticalFor' >= Warned
    <3>1. criticalFor' >= Warned \/ criticalFor' >= (StreakMin - 1) * BatteryPeriod + armedFor'
      BY <2>3 DEF CriticalSince
    <3>2. armedFor' \in Nat /\ armedFor' >= ArmTime /\ criticalFor' \in Nat
      BY <2>1, <2>3, <2>4
    <3> QED BY <3>1, <3>2, WarningIsOver
  <2> QED BY <1>3, <2>2, <2>5 DEF GraceIsReal
<1> QED BY <1>3, <1>7, <1>9, <1>10, <1>11, <1>12 DEF IInv

(* Nothing that comes between two updates touches the clocks.              *)
LEMMA QuietInv ==
  ASSUME IInv,
         UNCHANGED <<absentFor, armedFor, criticalFor, streak, batteryFor, sinceVbus,
                     s_usb_connected, s_vbat_mv>>,
         pc' = pc \/ pc' = "world",
         pc' # "world" => phase' = phase,
         phase' = "closing" => (phase = "closing" /\ why' = why) \/ why' # "battery"
  PROVE  IInv'
<1>1. Ranges' /\ GraceIsReal' /\ StreakIsReal' /\ WarningIsReal'
  BY DEF IInv, Ranges, GraceIsReal, StreakIsReal, WarningIsReal, CriticalSince
<1>2. TasksInTurn' /\ ShutdownIsEarned'
  BY DEF IInv, TasksInTurn, ShutdownIsEarned
<1> QED BY <1>1, <1>2 DEF IInv

LEMMA NextInv == ASSUME IInv, [Next]_vars PROVE IInv'
<1>1. CASE BatteryTask BY <1>1, BatteryInv
<1>2. CASE PowerTask
  BY <1>2, QuietInv DEF PowerTask, EnterLowPower, charger, battery, seen, IInv, TasksInTurn
<1>3. CASE ForceCharge \/ CancelForceCharge \/ SetChargeInhibit \/ ShutdownNow
  BY <1>3, QuietInv DEF ForceCharge, CancelForceCharge, SetChargeInhibit, ShutdownNow, Running,
     EnterLowPower, charger, battery, timers, seen
<1>4. CASE \E d \in 1 .. MaxGap : Tick(d) BY <1>4, TickInv
<1>5. CASE EnterStandby BY <1>5, StandbyInv
<1>6. CASE Wake \/ VbusChanges \/ LevelChanges \/ CentralChanges \/ UserActs
  <2>1. CASE Wake
    BY <2>1, QuietInv DEF Wake, charger, battery, timers, seen, IInv, TasksInTurn
  <2>2. CASE VbusChanges
    BY <2>2, QuietInv DEF VbusChanges, charger, battery, timers, seen
  <2>3. CASE LevelChanges \/ CentralChanges
    BY <2>3, QuietInv DEF LevelChanges, CentralChanges, charger, battery, timers, seen
  <2>4. CASE UserActs
    BY <2>4, QuietInv DEF UserActs, Running, charger, battery, timers
  <2> QED BY <1>6, <2>1, <2>2, <2>3, <2>4
<1>7. CASE UNCHANGED vars
  BY <1>7, QuietInv DEF vars, charger, battery, timers, seen
<1> QED BY <1>1, <1>2, <1>3, <1>4, <1>5, <1>6, <1>7 DEF Next

(* The inductive invariant: each timer of the battery task is behind the   *)
(* time for which the world has really been so (svc_battery.c:215-239 and  *)
(* 341-363).                                                               *)
THEOREM PowerInvariant == Spec => []IInv
<1>1. Init => IInv BY InitInv
<1>2. IInv /\ [Next]_vars => IInv' BY NextInv
<1> QED BY <1>1, <1>2, PTL DEF Spec

(* For every grace, period, streak and warning, and however VBUS and the   *)
(* readings bounce: the battery switches off only after VBUS has been away *)
(* for the grace and the pack critical for the streak and the warning.     *)
THEOREM ShutdownIsWarned == Spec => []ShutdownIsEarned
<1>1. IInv => ShutdownIsEarned BY DEF IInv
<1> QED BY <1>1, PowerInvariant, PTL

-----------------------------------------------------------------------------
(* The idle timer.  A use that the timer has not seen is still to come to  *)
(* it in this pass.                                                        *)
UseIsSeen ==
  phase # "closing" =>
    idleFor <= quietFor \/ acted \/ (pc # "world" /\ ble) \/ (pc = "power" /\ s_usb_connected)

UsbRestarts ==
  phase # "closing" /\ s_usb_connected =>
    (pc = "world" => idleFor = 0) /\ (pc = "battery" => idleFor <= MaxGap)

(* VBUS was last seen in an update, and its absence began in a later one.  *)
CableIsAway ==
  /\ sinceVbus >= batteryFor \/ sinceVbus >= MaxSince
  /\ absentFor # Off => sinceVbus >= absentFor + BatteryPeriod \/ sinceVbus >= MaxSince
  /\ phase # "closing" /\ ~s_usb_connected => sinceVbus >= Grace + idleFor

IdleInv ==
  /\ idleFor \in 0 .. IdleLimit /\ quietFor \in 0 .. IdleLimit
  /\ UseIsSeen /\ UsbRestarts /\ CableIsAway /\ IdleOffIsQuiet

LEMMA IdleInit == ASSUME Init PROVE IdleInv
<1>0. /\ absentFor = Off /\ idleFor = 0 /\ quietFor = 0 /\ batteryFor = 0 /\ phase = "on"
      /\ sinceVbus = MaxSince /\ s_usb_connected = FALSE
  BY DEF Init
<1>1. UseIsSeen /\ UsbRestarts /\ IdleOffIsQuiet
  BY <1>0 DEF UseIsSeen, UsbRestarts, IdleOffIsQuiet
<1>2. CableIsAway
  BY <1>0, ConstantsAre DEF CableIsAway
<1> QED BY <1>0, <1>1, <1>2, ConstantsAre DEF IdleInv

LEMMA IdleStandby == ASSUME EnterStandby PROVE IdleInv'
<1>0. /\ absentFor' = Off /\ idleFor' = 0 /\ quietFor' = 0 /\ batteryFor' = 0 /\ phase' = "asleep"
      /\ sinceVbus' = MaxSince /\ s_usb_connected' = FALSE
  BY DEF EnterStandby
<1>1. UseIsSeen' /\ UsbRestarts' /\ IdleOffIsQuiet'
  BY <1>0 DEF UseIsSeen, UsbRestarts, IdleOffIsQuiet
<1>2. CableIsAway'
  BY <1>0, ConstantsAre DEF CableIsAway
<1> QED BY <1>0, <1>1, <1>2, ConstantsAre DEF IdleInv

LEMMA IdleTick ==
  ASSUME IInv, IdleInv, NEW d \in 1 .. MaxGap, Tick(d), MaxGap <= BatteryPeriod
  PROVE  IdleInv'
<1>0. d \in Nat /\ d > 0 /\ d <= MaxGap /\ MaxGap \in Nat
  BY PowerAssumption
<1>1. /\ batteryFor' = Least(batteryFor + d, BatteryPeriod)
      /\ absentFor' = Older(absentFor, d, Grace)
      /\ idleFor' = Least(idleFor + d, IdleLimit)
      /\ sinceVbus' = Least(sinceVbus + d, MaxSince)
      /\ quietFor' = IF ble THEN 0 ELSE Least(quietFor + d, IdleLimit)
      /\ UNCHANGED <<phase, s_usb_connected, ble, acted>>
      /\ phase = "on" /\ pc = "world"
      /\ pc' \in {"battery", "power"}
  BY DEF Tick, Running, world
<1>2. /\ idleFor \in 0 .. IdleLimit /\ quietFor \in 0 .. IdleLimit
      /\ batteryFor \in 0 .. BatteryPeriod /\ sinceVbus \in 0 .. MaxSince
      /\ absentFor \in Timer(Grace)
  BY DEF IInv, Ranges, IdleInv
<1>3. idleFor' \in 0 .. IdleLimit /\ quietFor' \in 0 .. IdleLimit
  BY <1>0, <1>1, <1>2, ConstantsAre DEF Least
<1>4. UseIsSeen'
  <2>1. CASE ble BY <1>1, <2>1 DEF UseIsSeen
  <2>2. CASE acted BY <1>1, <2>2 DEF UseIsSeen
  <2>3. CASE ~ble /\ ~acted
    <3>1. idleFor <= quietFor BY <1>1, <2>3 DEF IdleInv, UseIsSeen
    <3>2. idleFor' <= quietFor' BY <1>0, <1>1, <1>2, <2>3, <3>1, ConstantsAre DEF Least
    <3> QED BY <3>2 DEF UseIsSeen
  <2> QED BY <2>1, <2>2, <2>3
<1>5. UsbRestarts'
  <2> SUFFICES ASSUME s_usb_connected PROVE idleFor' <= MaxGap
    BY <1>1 DEF UsbRestarts
  <2>1. idleFor = 0 BY <1>1 DEF IdleInv, UsbRestarts
  <2> QED BY <1>0, <1>1, <2>1, ConstantsAre DEF Least
<1>6. CableIsAway'
  <2>1. sinceVbus' >= batteryFor' \/ sinceVbus' >= MaxSince
    BY <1>0, <1>1, <1>2, ConstantsAre DEF IdleInv, CableIsAway, Least
  <2>2. absentFor' # Off => sinceVbus' >= absentFor' + BatteryPeriod \/ sinceVbus' >= MaxSince
    BY <1>0, <1>1, <1>2, ConstantsAre DEF IdleInv, CableIsAway, Least, Older, Timer, Off
  <2>3. ~s_usb_connected => sinceVbus' >= Grace + idleFor'
    <3> SUFFICES ASSUME ~s_usb_connected PROVE sinceVbus' >= Grace + idleFor'
      OBVIOUS
    <3>1. sinceVbus >= Grace + idleFor BY <1>1 DEF IdleInv, CableIsAway
    <3> QED BY <1>0, <1>1, <1>2, <3>1, ConstantsAre DEF Least
  <2> QED BY <1>1, <2>1, <2>2, <2>3 DEF CableIsAway
<1>7. IdleOffIsQuiet'
  BY <1>1 DEF IdleOffIsQuiet
<1> QED BY <1>3, <1>4, <1>5, <1>6, <1>7 DEF IdleInv

(* An update that finds VBUS gone for the grace has found it there more    *)
(* than an update before that.                                             *)
LEMMA IdleBattery ==
  ASSUME IInv, IdleInv, BatteryTask, MaxGap <= BatteryPeriod
  PROVE  IdleInv'
<1>1. /\ phase = "on" /\ pc = "battery" /\ batteryFor = BatteryPeriod /\ batteryFor' = 0
      /\ ReadChargerInputs /\ UNCHANGED <<idleFor, ble, acted>>
      /\ sinceVbus' = IF vbus THEN 0 ELSE sinceVbus
      /\ quietFor' = IF vbus THEN 0 ELSE quietFor
      /\ \/ phase' = "closing" /\ why' = "battery"
         \/ phase' = "on" /\ pc' = "power"
  BY DEF BatteryTask, IInv, TasksInTurn, UpdateShutdownArm, EnterLowPower, Compare, world
<1>2. /\ idleFor \in 0 .. IdleLimit /\ quietFor \in 0 .. IdleLimit
      /\ sinceVbus \in 0 .. MaxSince /\ absentFor \in Timer(Grace)
      /\ s_usb_connected \in BOOLEAN /\ MaxGap \in Nat
  BY PowerAssumption DEF IInv, Ranges, IdleInv
<1>3. /\ vbus => s_usb_connected' /\ absentFor' = Off
      /\ ~vbus => absentFor' = IF absentFor = Off THEN 0 ELSE absentFor
      /\ ~vbus /\ ~s_usb_connected' => ~s_usb_connected \/ (absentFor # Off /\ ~(absentFor < Grace))
  BY <1>1, <1>2 DEF ReadChargerInputs, AgesFrom, Off
<1>4. /\ idleFor' \in 0 .. IdleLimit /\ quietFor' \in 0 .. IdleLimit
  BY <1>1, <1>2, ConstantsAre
<1>5. UseIsSeen'
  <2>1. CASE vbus BY <1>1, <1>3, <2>1 DEF UseIsSeen
  <2>2. CASE ~vbus BY <1>1, <2>2 DEF IdleInv, UseIsSeen
  <2> QED BY <2>1, <2>2
<1>6. UsbRestarts'
  BY <1>1 DEF UsbRestarts
<1>7. CableIsAway'
  <2>0. IdleInv /\ CableIsAway /\ UsbRestarts BY DEF IdleInv
  <2>1. CASE vbus
    BY <1>1, <1>2, <1>3, <2>1, ConstantsAre DEF CableIsAway
  <2>2. CASE ~vbus
    <3>1. sinceVbus' = sinceVbus /\ idleFor' = idleFor BY <1>1, <2>2
    <3>2. sinceVbus' >= batteryFor' BY <1>1, <1>2, <3>1, ConstantsAre
    <3>3. absentFor' # Off => sinceVbus' >= absentFor' + BatteryPeriod \/ sinceVbus' >= MaxSince
      BY <1>1, <1>2, <1>3, <2>0, <2>2, <3>1, ConstantsAre DEF CableIsAway, Timer, Off
    <3>4. ASSUME ~s_usb_connected' PROVE sinceVbus' >= Grace + idleFor'
      <4>1. CASE ~s_usb_connected
        BY <1>1, <2>0, <3>1, <4>1 DEF CableIsAway
      <4>2. CASE s_usb_connected
        <5>1. absentFor # Off /\ ~(absentFor < Grace) /\ idleFor <= MaxGap
          BY <1>1, <1>3, <2>0, <2>2, <3>4, <4>2 DEF UsbRestarts
        <5>2. sinceVbus >= absentFor + BatteryPeriod \/ sinceVbus >= MaxSince
          BY <2>0, <5>1 DEF CableIsAway
        <5>3. absentFor \in Nat BY <1>2, <5>1, ConstantsAre DEF Timer, Off
        <5> QED BY <1>2, <3>1, <5>1, <5>2, <5>3, ConstantsAre
      <4> QED BY <1>2, <4>1, <4>2
    <3> QED BY <3>2, <3>3, <3>4 DEF CableIsAway
  <2> QED BY <2>1, <2>2
<1>8. IdleOffIsQuiet'
  BY <1>1 DEF IdleOffIsQuiet
<1> QED BY <1>4, <1>5, <1>6, <1>7, <1>8 DEF IdleInv

(* svc_power_task: it restarts its timer, or nobody has used the instrument. *)
LEMMA IdlePower == ASSUME IInv, IdleInv, PowerTask PROVE IdleInv'
<1>1. /\ phase = "on" /\ pc = "power" /\ pc' = "world" /\ acted' = FALSE
      /\ idleFor' = IF Restarts THEN 0 ELSE idleFor
      /\ IF ~acted /\ ~Suppressed /\ IdleLimit # 0 /\ idleFor >= IdleLimit
         THEN phase' = "closing" /\ why' = "idle"
         ELSE phase' = "on"
      /\ UNCHANGED <<ble, absentFor, s_usb_connected, batteryFor, sinceVbus, quietFor>>
  BY DEF PowerTask, IInv, TasksInTurn, EnterLowPower, charger, seen
<1>2. /\ idleFor \in 0 .. IdleLimit /\ quietFor \in 0 .. IdleLimit
      /\ sinceVbus \in 0 .. MaxSince /\ batteryFor \in 0 .. BatteryPeriod
      /\ absentFor \in Timer(Grace)
  BY DEF IInv, Ranges, IdleInv
<1>3. ~Restarts => ~acted /\ ~s_usb_connected /\ ~ble /\ idleFor <= quietFor
  BY <1>1 DEF Restarts, Suppressed, IdleInv, UseIsSeen
<1>4. idleFor' \in 0 .. IdleLimit /\ quietFor' \in 0 .. IdleLimit /\ idleFor' <= quietFor'
      /\ idleFor' <= idleFor
  BY <1>1, <1>2, <1>3, ConstantsAre
<1>5. UseIsSeen' BY <1>4 DEF UseIsSeen
<1>6. UsbRestarts'
  <2>1. s_usb_connected => Restarts BY DEF Restarts, Suppressed
  <2> QED BY <1>1, <2>1 DEF UsbRestarts
<1>7. CableIsAway'
  <2>0. CableIsAway BY DEF IdleInv
  <2>1. ~s_usb_connected => sinceVbus' >= Grace + idleFor'
    BY <1>1, <1>2, <1>4, <2>0, ConstantsAre DEF CableIsAway
  <2> QED BY <1>1, <2>0, <2>1 DEF CableIsAway
<1>8. IdleOffIsQuiet'
  <2> SUFFICES ASSUME phase' = "closing" PROVE quietFor' >= IdleLimit /\ sinceVbus' >= Grace + IdleLimit
    BY DEF IdleOffIsQuiet
  <2>1. ~Restarts /\ idleFor >= IdleLimit
    BY <1>1 DEF Restarts
  <2>2. sinceVbus >= Grace + idleFor
    BY <1>1, <1>3, <2>1 DEF IdleInv, CableIsAway
  <2> QED BY <1>1, <1>2, <1>3, <2>1, <2>2, ConstantsAre
<1> QED BY <1>4, <1>5, <1>6, <1>7, <1>8 DEF IdleInv

(* What leaves the timers alone: a use is marked for the idle timer, the   *)
(* central comes or goes between two passes, the phase only leaves "on"    *)
(* for the user or comes back from Standby.                                *)
Quietly ==
  /\ UNCHANGED <<absentFor, batteryFor, sinceVbus, s_usb_connected, idleFor>>
  /\ \/ quietFor' = quietFor /\ acted' = acted
     \/ quietFor' = 0 /\ acted' = TRUE /\ phase # "closing"
  /\ \/ pc' = pc /\ phase' = phase /\ why' = why /\ (pc = "world" \/ ble' = ble)
     \/ pc' = "world" /\ phase = "on" /\ phase' = "closing" /\ why' = "user"
     \/ pc' = pc /\ phase = "asleep" /\ phase' = "on" /\ ble' = ble

LEMMA IdleQuiet == ASSUME IdleInv, Quietly PROVE IdleInv'
<1> USE DEF Quietly
<1>1. idleFor' \in 0 .. IdleLimit /\ quietFor' \in 0 .. IdleLimit
  BY ConstantsAre DEF IdleInv
<1>2. UseIsSeen'
  BY DEF IdleInv, UseIsSeen
<1>3. UsbRestarts' BY DEF IdleInv, UsbRestarts
<1>4. CableIsAway' BY DEF IdleInv, CableIsAway
<1>5. IdleOffIsQuiet' BY DEF IdleInv, IdleOffIsQuiet
<1> QED BY <1>1, <1>2, <1>3, <1>4, <1>5 DEF IdleInv

LEMMA IdleNext ==
  ASSUME MaxGap <= BatteryPeriod, IInv, IdleInv, [Next]_vars
  PROVE  IdleInv'
<1>1. CASE BatteryTask BY <1>1, IdleBattery
<1>2. CASE PowerTask BY <1>2, IdlePower
<1>3. CASE ForceCharge \/ CancelForceCharge \/ SetChargeInhibit
  <2>1. Quietly
    BY <1>3 DEF Quietly, ForceCharge, CancelForceCharge, SetChargeInhibit,
       world, charger, battery, timers, seen
  <2> QED BY <2>1, IdleQuiet
<1>4. CASE ShutdownNow
  <2>1. Quietly
    BY <1>4 DEF Quietly, ShutdownNow, Running, EnterLowPower, world, charger, timers, seen
  <2> QED BY <2>1, IdleQuiet
<1>5. CASE \E d \in 1 .. MaxGap : Tick(d) BY <1>5, IdleTick
<1>6. CASE EnterStandby BY <1>6, IdleStandby
<1>7. CASE Wake \/ LevelChanges \/ VbusChanges
  <2>1. CASE Wake
    <3>1. Quietly BY <2>1 DEF Quietly, Wake, world, charger, timers, seen
    <3> QED BY <3>1, IdleQuiet
  <2>2. CASE LevelChanges
    <3>1. Quietly BY <2>2 DEF Quietly, LevelChanges, charger, timers, seen
    <3> QED BY <3>1, IdleQuiet
  <2>3. CASE VbusChanges
    <3>1. Quietly BY <2>3 DEF Quietly, VbusChanges, charger, timers, seen
    <3> QED BY <3>1, IdleQuiet
  <2> QED BY <1>7, <2>1, <2>2, <2>3
<1>8. CASE CentralChanges
  <2>1. Quietly BY <1>8 DEF Quietly, CentralChanges, Running, charger, timers, seen
  <2> QED BY <2>1, IdleQuiet
<1>9. CASE UserActs
  <2>1. Quietly BY <1>9 DEF Quietly, UserActs, Running, charger, timers
  <2> QED BY <2>1, IdleQuiet
<1>10. CASE UNCHANGED vars
  <2>1. Quietly BY <1>10 DEF Quietly, vars, world, charger, timers, seen
  <2> QED BY <2>1, IdleQuiet
<1> QED BY <1>1, <1>2, <1>3, <1>4, <1>5, <1>6, <1>7, <1>8, <1>9, <1>10 DEF Next

(* With passes no longer than the battery's period, for every limit and    *)
(* grace: idleness switches the instrument off only when nobody has used   *)
(* it for the limit and VBUS has been away for the grace before it         *)
(* (svc_power_task reads flags that are an update old).                    *)
THEOREM IdlenessIsReal ==
  ASSUME MaxGap <= BatteryPeriod
  PROVE  Spec => []IdleOffIsQuiet
<1>1. Init => IdleInv BY IdleInit
<1>2. IInv /\ IdleInv /\ [Next]_vars => IdleInv' BY IdleNext
<1>3. IdleInv => IdleOffIsQuiet BY DEF IdleInv
<1> QED BY <1>1, <1>2, <1>3, PowerInvariant, PTL DEF Spec
=============================================================================
