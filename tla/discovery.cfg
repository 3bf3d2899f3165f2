CONSTANTS
  s1 = s1
  s2 = s2
  s3 = s3
  ServerInfo <- ThreeServers
  HasFile = {s1}
  FaultSets <- AnyFaults
SPECIFICATION FairSpec
INVARIANTS AnswersOwn OnlyDeadDropped
PROPERTIES Ends
