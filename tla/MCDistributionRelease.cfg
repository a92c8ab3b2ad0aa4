SPECIFICATION Spec
CONSTANTS
  k1 = k1  k2 = k2
  Releasers = {r1, r2}
  Keys = {k1, k2}
  Trusted = k1
  Versions = {1, 2}
  Feeds <- FeedsMC
  Torn = Torn
  None = None
  MaxStarts = 4
  MaxExports = 1
  MaxMishaps = 1
SYMMETRY Symmetry
CHECK_DEADLOCK FALSE
INVARIANTS InstalledWasSigned SignedVerifies ReportedArchiveStays OfferIsNewest
