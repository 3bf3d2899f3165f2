CONSTANTS
  c1 = c1
  c2 = c2
  s1 = s1
  s2 = s2
  None = None
  Clients = {c1, c2}
  Servers = {s1, s2}
  MaxSock = 3
  BufferSize = 3
  Pending = 2
  Scenarios <- Downloads
SPECIFICATION FairSpec
INVARIANTS OwnBytes Intact DownExplained
PROPERTIES Finishes
