CONSTANTS
  i1 = i1
  i2 = i2
  s1 = s1
  s2 = s2
  o1 = o1
  o2 = o2
  Ids <- MCIds
  Sample <- MCSample
  Target <- MCTarget
  Samples <- MCSamples
  Targets <- MCTargets
  Scanners = {s1, s2}
  Operators = {o1, o2}
  Exporters = {e1}
  None = None
  MaxScans = 2
  MaxKills = 1
SPECIFICATION Spec
SYMMETRY Symmetry
CHECK_DEADLOCK FALSE
INVARIANTS TypeOK NothingVanishes ReportsAreTrue
PROPERTIES RecordsAreImmutable PublishedOnlyGrows
