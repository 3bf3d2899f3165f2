CONSTANTS
  a = a
  b = b
  None = None
  Clients = {a, b}
  MaxCmds <- Typing
  MaxLines = 2
  FaultSets <- ShellFaults
SPECIFICATION FairSpec
INVARIANTS InStep RunsTyped ServerDownExplained
PROPERTIES Prompted
CHECK_DEADLOCK FALSE
