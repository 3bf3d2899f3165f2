CONSTANTS
  JobNum = 4
  MaxWorker = 3
  ServerInfo <- TwoServers
  Mortal <- AllMortal
  StackGarbage = {0, 1}
  s1 = s1
  s2 = s2
  NoServer = NoServer
  NoJob = NoJob
SPECIFICATION FairSpec
INVARIANTS TypeOK JobsConserved ServersConserved NoLostWakeup LossBounded
PROPERTIES DoneIsFinal Refines Terminates
