CONSTANTS
  BufferSize = 3
  MaxTotal = 12
  MaxJobs = 3
  FaultSets <- AnyFaults
  MaxCopies = 1
SPECIFICATION FairSpec
INVARIANTS SplitCovers Intact TimeoutsExplained NoForeignBytes BytesOnce
PROPERTIES Settles
