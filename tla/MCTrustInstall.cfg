SPECIFICATION Spec
CONSTANTS
  i1 = i1  i2 = i2
  s1 = s1  s2 = s2
  r1 = r1  r2 = r2
  NoState = NoState
  Absent = Absent
  Partial = Partial
  Updates <- Signed
  Installers = {i1}
  MaxKills = 2
  MaxPowerLosses = 2
  MaxFaults = 2
INVARIANTS
  ConfirmedNeverRolledBack
  ConfirmedStoresKept
  OneInterruptionIsSurvived
CHECK_DEADLOCK FALSE
