SPECIFICATION Spec
CONSTANTS
  Levels = {2, 3, 4, 5}
  Glitches = {0, 1}
  StaleScans = TRUE
  BatteryPeriod = 2
  MaxGap = 2
  Grace = 3
  StartupMin = 2
  ChargeMin = 1
  StreakMin = 2
  ArmTime = 3
  FullTimeout = 3
  IdleLimit = 3
  Commands = {"force", "cancel", "inhibit", "allow", "off"}
INVARIANT StreakIsOfScans
