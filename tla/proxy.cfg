CONSTANTS
  MaxRequests = 3
  FaultSets <- AnyFaults
SPECIFICATION FairSpec
INVARIANTS LoggedOnce InStep DownExplained
PROPERTIES Ends
