SPECIFICATION Spec
CONSTANTS
  Appenders = {a1, a2}
  Entries = {e1, e2}
  None = None
  MaxRecords = 3
  MaxCheckpoints = 1
  MaxRestores = 1
  MaxIncidents = 2
SYMMETRY Interchangeable
INVARIANTS
  CheckpointBinds
  AckedIsInLedger
  CheckpointsStayValid
PROPERTIES
  ExtensionVerifies
  NeverRewritten
