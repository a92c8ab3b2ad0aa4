CONSTANTS
  i1 = i1
  i2 = i2
  s1 = s1
  s2 = s2
  o1 = o1
  o2 = o2
  Ids <- MCIds
  Sample <- MCMember
  Target <- MCTarget
  Samples <- MCSamples
  Targets <- MCTargets
  Scanners = {s1}
  Operators = {o1}
  Exporters = {e1}
  None = None
  MaxScans = 2
  MaxKills = 0
SPECIFICATION Spec
CHECK_DEADLOCK FALSE
INVARIANT DetectionsAreRecorded
