CONSTANTS
  JobNum = 2
  MaxWorker = 2
  ServerInfo <- TwoServers
  Mortal = {s1}
  StackGarbage = {0}
  s1 = s1
  s2 = s2
  NoServer = NoServer
  NoJob = NoJob
SPECIFICATION Spec
INVARIANTS CombineComplete
