CONSTANTS
  MaxRequests = 1
  FaultSets <- BrowserEnds
SPECIFICATION Spec
INVARIANTS WriteFailureCloses
