SPECIFICATION Spec
CONSTANTS
  Names = {1, 2}
  Contents = {c1, c2, huge}
  Large = {huge}
  Mixed = Mixed
  None = None
  StableTicks = 2
  MaxDelay = 2
  MaxWrites = 2
  MaxDowns = 1
INVARIANTS
  ReceiptsAreEarned
  OnlyQuietFilesAreStaged
PROPERTIES
  ReceiptsFollowFiles
  SubmittedOnce
