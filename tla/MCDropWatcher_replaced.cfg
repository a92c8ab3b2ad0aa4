SPECIFICATION Spec
CONSTANTS
  Names = {1}
  Contents = {c1, c2}
  Large = {}
  Mixed = Mixed
  None = None
  StableTicks = 2
  MaxDelay = 2
  MaxWrites = 2
  MaxDowns = 0
PROPERTY ChangesAreRetried
