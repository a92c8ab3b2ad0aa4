SPECIFICATION Spec
CONSTANTS
  Commands = {p1, p2}
  Paths = {s1, s2}
  Kinds = {k1, k2}
  Contents = {c1, c2}
  Absent = Absent
  Broken = Broken
  MaxStarts = 2
  MaxChanges = 1
  MaxHarms = 1
  MaxKills = 1
  MaxFaults = 1
SYMMETRY Interchangeable
CHECK_DEADLOCK FALSE
INVARIANTS
  NamesAreDigests
  DocumentsHold
  FailuresHaveCauses
