SPECIFICATION Spec
CONSTANTS
  i1 = i1
  i2 = i2
  Installers = {i1, i2}
  Bundles <- Signed
  None = None
  MaxKills = 2
  MaxPowerLosses = 2
  MaxFaults = 1
SYMMETRY Interchangeable
CHECK_DEADLOCK FALSE
INVARIANTS
  ActiveVerifies
  ConfirmedSurvives
