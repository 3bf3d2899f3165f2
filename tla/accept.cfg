CONSTANTS
  Clients = {c1, c2, c3}
  Askers = {c1}
  NoClient = NoClient
  Limit = 4
  Processes <- BothPrograms
SPECIFICATION LoopFairSpec
INVARIANTS OwnConnection LeaksExplained
PROPERTIES Heard
CHECK_DEADLOCK FALSE
