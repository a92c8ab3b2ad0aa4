SPECIFICATION ScanSpec
CONSTANTS
  Blocks = {1, 2, 3, 4}
  maxTraversalDepth = 1
  Contents = {1, 2, 3}
  Submitted = 1
  Cases <- CasesMC
  MaxArchiveDepth = 2
  MaxExpandedSize = 6
  MaxMembers = 5
CHECK_DEADLOCK FALSE
INVARIANTS BudgetHolds VerdictsAgree ListingIsHonest
PROPERTY ScanEnds
